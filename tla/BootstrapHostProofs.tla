-------------------------- MODULE BootstrapHostProofs --------------------------
(***************************************************************************)
(* What the text editors give, line by line, is what they were told to     *)
(* make of the text as a whole, for any lines, texts, editors and plans;   *)
(* and a file edited by way of a temporary one is never half written.      *)
(* A run that completes has done what its steps are there for, and tells   *)
(* the user to reboot when it has to; a run after it changes nothing.      *)
(***************************************************************************)
EXTENDS BootstrapHost, SequenceTheorems, WellFoundedInduction, TLAPS

-----------------------------------------------------------------------------
(***************************************************************************)
(* The inductive invariant.                                                *)
(***************************************************************************)

\* What the editor has given of the lines read: all of them, until it finds its place.
Untouched == out = SubSeq(src, 1, read)

\* Where an editor changes the text, if it does.
AppendPlaces(e, text) == Places(text, e.old \cup {Trim(e.line)})
ReplacePlaces(e, text) ==
  {i \in Places(text, {Trim(e.old), Trim(e.new)}) : Follows(e, text, i)}
Starts(e, text) == Places(text, {Trim(e.start)})
Ends(e, text) == {j \in Places(text, {Trim(e.end)}) : j > First(Starts(e, text))}

\* Nothing of these is among the lines read.
NoneYet(places) == \A i \in places : i > read

\* The editor still looks for its place: what it gave and what its state says of the
\* lines read.
LooksFor(e) ==
  \/ /\ e.kind = "append" /\ state = 0
     /\ Untouched /\ NoneYet(AppendPlaces(e, src))
  \/ /\ e.kind = "replace" /\ state \in 0 .. Len(e.previous)
     /\ \A k \in 1 .. Len(e.previous) : Matches(e, src, read, k) <=> state = k
     /\ Untouched /\ NoneYet(ReplacePlaces(e, src))
  \/ /\ e.kind = "splice" /\ state = 0
     /\ Untouched /\ NoneYet(Starts(e, src))
  \/ /\ e.kind = "splice" /\ state = 1
     /\ First(Starts(e, src)) \in Starts(e, src) /\ First(Starts(e, src)) <= read
     /\ out = SubSeq(src, 1, First(Starts(e, src)) - 1)
     /\ NoneYet(Ends(e, src))

\* It has found it: with the lines still to be read, what it gave is the whole text.
HasFound(e) == out \o SubSeq(src, read + 1, Len(src)) = Told(e, src)

ReadingInv ==
  phase = "reading" /\ ~Misleads(editor, src) =>
    IF state = Done THEN HasFound(editor) ELSE LooksFor(editor)

\* The values of the editor's variables, while it is at work.
EditTypeOK ==
  /\ file \in Seq(Lines)
  /\ phase # "idle" =>
       /\ IsEditor(editor) /\ src \in Seq(Lines) /\ out \in Seq(Lines)
       /\ read \in 0 .. Len(src)

\* A temporary file is flushed before it is compared and renamed, and only a file
\* edited in place is truncated.
WayInv ==
  /\ editor.how = "temp" /\ phase \in {"comparing", "renaming"} => synced
  /\ phase \in {"truncating", "writing", "flushing"} => editor.how = "unsafe"

IInv == EditTypeOK /\ ReadingInv /\ EditedAsTold /\ WayInv

-----------------------------------------------------------------------------
(***************************************************************************)
(* Places and texts.                                                       *)
(***************************************************************************)

\* A place no other is before is the first.
LEMMA FirstIs ==
  ASSUME NEW places \in SUBSET Int, NEW p \in places, \A j \in places : p <= j
  PROVE First(places) = p
<1>1. \A q \in places : (\A j \in places : q <= j) => q = p
  OBVIOUS
<1> QED
  BY <1>1 DEF First

\* Places are line numbers.
LEMMA PlacesAre ==
  ASSUME NEW text \in Seq(Lines), NEW wanted
  PROVE Places(text, wanted) = {i \in 1 .. Len(text) : Trim(text[i]) \in wanted}
BY DEF Places

\* A line read is added to those before it.
LEMMA FrontGrows ==
  ASSUME NEW text \in Seq(Lines), NEW n \in 0 .. Len(text), n < Len(text)
  PROVE SubSeq(text, 1, n) \o <<text[n + 1]>> = SubSeq(text, 1, n + 1)
<1>1. /\ 1 \in 1 .. Len(text) /\ n + 1 \in 1 .. Len(text) /\ (n + 1) - 1 = n
  BY LenProperties
<1> QED
  BY <1>1, SubSeqRecursiveSecond

\* The text is what was read and what is still to be read.
LEMMA FrontAndBack ==
  ASSUME NEW text \in Seq(Lines), NEW n \in 0 .. Len(text)
  PROVE SubSeq(text, 1, n) \o SubSeq(text, n + 1, Len(text)) = text
<1>1. /\ 1 \in 1 .. Len(text) + 1 /\ n \in 1 - 1 .. Len(text) /\ Len(text) \in n .. Len(text)
  BY LenProperties
<1>2. SubSeq(text, 1, n) \o SubSeq(text, n + 1, Len(text)) = SubSeq(text, 1, Len(text))
  BY <1>1, ConcatAdjacentSubSeq
<1> QED
  BY <1>2, SubSeqFull

\* Parts of a text are texts.
LEMMA PartsAreTexts ==
  ASSUME NEW text \in Seq(Lines), NEW m \in Nat \ {0}, NEW n \in Int, n <= Len(text)
  PROVE SubSeq(text, m, n) \in Seq(Lines)
<1>1. \A i \in m .. n : text[i] \in Lines
  BY ElementOfSeq, LenProperties
<1> QED
  BY <1>1, SubSeqProperties

\* A text with one line replaced is what is before it, the line and what is after it.
LEMMA LineReplaced ==
  ASSUME NEW text \in Seq(Lines), NEW n \in 0 .. Len(text), n < Len(text), NEW line \in Lines
  PROVE (SubSeq(text, 1, n) \o <<line>>) \o SubSeq(text, n + 2, Len(text))
          = [text EXCEPT ![n + 1] = line]
<1> DEFINE front == SubSeq(text, 1, n)
           back == SubSeq(text, n + 2, Len(text))
           new == [text EXCEPT ![n + 1] = line]
<1>0. Len(text) \in Nat /\ n \in Nat
  BY LenProperties
<1>1. /\ front \in Seq(Lines) /\ Len(front) = n
      /\ \A i \in 1 .. n : front[i] = text[i]
  <2>1. \A i \in 1 .. n : text[i] \in Lines
    BY <1>0, ElementOfSeq
  <2>2. /\ front \in Seq(Lines) /\ Len(front) = (IF 1 <= n THEN n - 1 + 1 ELSE 0)
        /\ \A i \in 1 .. n - 1 + 1 : front[i] = text[1 + i - 1]
    BY <1>0, <2>1, SubSeqProperties
  <2> QED
    BY <1>0, <2>2
<1>2. /\ back \in Seq(Lines) /\ Len(back) = Len(text) - n - 1
      /\ \A i \in 1 .. Len(text) - n - 1 : back[i] = text[n + 1 + i]
  <2>1. \A i \in n + 2 .. Len(text) : text[i] \in Lines
    BY <1>0, ElementOfSeq
  <2>2. /\ back \in Seq(Lines)
        /\ Len(back) = (IF n + 2 <= Len(text) THEN Len(text) - (n + 2) + 1 ELSE 0)
        /\ \A i \in 1 .. Len(text) - (n + 2) + 1 : back[i] = text[(n + 2) + i - 1]
    BY <1>0, <2>1, SubSeqProperties
  <2> QED
    BY <1>0, <2>2
<1>3. <<line>> \in Seq(Lines) /\ Len(<<line>>) = 1 /\ <<line>>[1] = line
  OBVIOUS
<1> HIDE DEF front, back
<1> DEFINE ahead == front \o <<line>>
<1>4. /\ ahead \in Seq(Lines) /\ Len(ahead) = n + 1
      /\ \A i \in 1 .. n + 1 : ahead[i] = IF i <= n THEN text[i] ELSE line
  <2>1. /\ ahead \in Seq(Lines) /\ Len(ahead) = Len(front) + Len(<<line>>)
        /\ \A i \in 1 .. Len(front) + Len(<<line>>) :
             ahead[i] = IF i <= Len(front) THEN front[i] ELSE <<line>>[i - Len(front)]
    BY <1>1, <1>3, ConcatProperties
  <2> QED
    BY <1>0, <1>1, <1>3, <2>1
<1> HIDE DEF ahead
<1> DEFINE whole == ahead \o back
<1>5. /\ whole \in Seq(Lines) /\ Len(whole) = Len(text)
      /\ \A i \in 1 .. Len(text) :
           whole[i] = IF i <= n THEN text[i] ELSE IF i = n + 1 THEN line ELSE text[i]
  <2>1. /\ whole \in Seq(Lines) /\ Len(whole) = Len(ahead) + Len(back)
        /\ \A i \in 1 .. Len(ahead) + Len(back) :
             whole[i] = IF i <= Len(ahead) THEN ahead[i] ELSE back[i - Len(ahead)]
    BY <1>2, <1>4, ConcatProperties
  <2>2. Len(ahead) + Len(back) = Len(text)
    BY <1>0, <1>2, <1>4
  <2>3. ASSUME NEW i \in 1 .. Len(text), i > n + 1 PROVE whole[i] = text[i]
    <3>1. whole[i] = back[i - (n + 1)] /\ i - (n + 1) \in 1 .. Len(text) - n - 1
      BY <1>0, <1>4, <2>1, <2>2, <2>3
    <3> QED
      BY <1>0, <1>2, <3>1
  <2> QED
    BY <1>0, <1>4, <2>1, <2>2, <2>3
<1> HIDE DEF whole
<1>6. /\ new \in Seq(Lines) /\ Len(new) = Len(text)
      /\ \A i \in 1 .. Len(text) : new[i] = IF i = n + 1 THEN line ELSE text[i]
  BY <1>0, ExceptSeq
<1> HIDE DEF new
<1>7. whole = new
  BY <1>0, <1>5, <1>6, SeqEqual, SMTT(40)
<1> QED
  BY <1>7 DEF whole, ahead, front, back, new

\* The lines still to be read are the next one and those after it.
LEMMA BackShrinks ==
  ASSUME NEW text \in Seq(Lines), NEW n \in 0 .. Len(text), n < Len(text)
  PROVE SubSeq(text, n + 1, Len(text)) = <<text[n + 1]>> \o SubSeq(text, n + 2, Len(text))
<1>1. n + 1 \in 1 .. Len(text) /\ Len(text) \in n + 1 .. Len(text) /\ (n + 1) + 1 = n + 2
  BY LenProperties
<1> QED
  BY <1>1, SubSeqRecursiveFirst

\* What an editor adds to a text.
LEMMA SplicedIsText ==
  ASSUME NEW e, IsEditor(e), e.kind = "splice"
  PROVE Spliced(e) \in Seq(Lines)
<1>1. <<e.start>> \in Seq(Lines) /\ e.content \in Seq(Lines) /\ <<e.end>> \in Seq(Lines)
  BY DEF IsEditor
<1> QED
  BY <1>1, ConcatProperties DEF Spliced

-----------------------------------------------------------------------------
(***************************************************************************)
(* One line is read.                                                       *)
(***************************************************************************)

\* A line kept.
LEMMA KeepIs ==
  ASSUME NEW line, NEW s
  PROVE Keep(line, s).out = <<line>> /\ Keep(line, s).state = s
BY DEF Keep

\* Whatever an editor makes of a line is text.
LEMMA NextGives ==
  ASSUME NEW e, IsEditor(e), NEW s, NEW line \in Lines
  PROVE NextOf(e, s, line).out \in Seq(Lines)
<1>1. <<line>> \in Seq(Lines) /\ <<>> \in Seq(Lines)
  OBVIOUS
<1>2. CASE s = Done
  BY <1>1, <1>2 DEF NextOf, Keep
<1>3. CASE s # Done /\ e.kind = "append"
  <2>1. NextOf(e, s, line) = NextAppend(e, line)
    BY <1>3 DEF NextOf
  <2>2. <<e.line>> \in Seq(Lines)
    BY <1>3 DEF IsEditor
  <2> QED
    BY <1>1, <2>1, <2>2 DEF NextAppend, Keep
<1>4. CASE s # Done /\ e.kind = "splice"
  <2>1. NextOf(e, s, line) = NextSplice(e, s, line)
    BY <1>4 DEF NextOf
  <2> QED
    BY <1>1, <1>4, <2>1, SplicedIsText DEF NextSplice, Keep
<1>5. CASE s # Done /\ e.kind = "replace"
  <2>1. NextOf(e, s, line) = NextReplace(e, s, line)
    BY <1>5 DEF NextOf
  <2>2. <<e.new>> \in Seq(Lines)
    BY <1>5 DEF IsEditor
  <2> QED
    BY <1>1, <2>1, <2>2 DEF NextReplace, Keep
<1> QED
  BY <1>2, <1>3, <1>4, <1>5 DEF IsEditor

\* What every line read changes.
LEMMA LineIsRead ==
  ASSUME EditTypeOK, ReadLine
  PROVE /\ IsEditor(editor) /\ src \in Seq(Lines) /\ out \in Seq(Lines) /\ out' \in Seq(Lines)
        /\ read \in 0 .. Len(src) /\ read < Len(src) /\ src[read + 1] \in Lines
        /\ Len(src) \in Nat /\ read + 1 \in 1 .. Len(src) /\ read' = read + 1
        /\ editor' = editor /\ src' = src
        /\ out' = out \o NextOf(editor, state, src[read + 1]).out
        /\ state' = NextOf(editor, state, src[read + 1]).state
        /\ phase = "reading" /\ phase' = "reading"
<1>1. /\ IsEditor(editor) /\ src \in Seq(Lines) /\ out \in Seq(Lines)
      /\ read \in 0 .. Len(src) /\ read < Len(src) /\ Len(src) \in Nat
  BY LenProperties DEF EditTypeOK, ReadLine
<1>2. read + 1 \in 1 .. Len(src) /\ src[read + 1] \in Lines
  BY <1>1, ElementOfSeq
<1>3. /\ read' = read + 1 /\ editor' = editor /\ src' = src
      /\ out' = out \o NextOf(editor, state, src[read + 1]).out
      /\ state' = NextOf(editor, state, src[read + 1]).state
      /\ phase = "reading" /\ phase' = "reading"
  BY DEF ReadLine
<1>4. out' \in Seq(Lines)
  BY <1>1, <1>2, <1>3, NextGives, ConcatProperties
<1> QED
  BY <1>1, <1>2, <1>3, <1>4

\* An editor that is done gives the rest of the text as it is.
LEMMA DoneReads ==
  ASSUME EditTypeOK, ReadingInv, ReadLine, ~Misleads(editor, src),
         state = Done
  PROVE ReadingInv'
<1> DEFINE line == src[read + 1]
           back == SubSeq(src, read + 2, Len(src))
<1>1. state' = Done /\ out' = out \o <<line>>
  BY LineIsRead DEF NextOf, Keep
<1>2. out \o SubSeq(src, read + 1, Len(src)) = Told(editor, src)
  BY LineIsRead DEF ReadingInv, HasFound
<1>3. SubSeq(src, read + 1, Len(src)) = <<line>> \o back
  BY LineIsRead, BackShrinks
<1>4. back \in Seq(Lines)
  BY LineIsRead, PartsAreTexts
<1>5. <<line>> \in Seq(Lines) /\ out \in Seq(Lines)
  BY LineIsRead
<1>6. (out \o <<line>>) \o back = out \o (<<line>> \o back)
  <2> HIDE DEF line, back
  <2> DEFINE one == <<line>>
  <2>1. one \in Seq(Lines)
    BY <1>5
  <2> HIDE DEF one
  <2>2. (out \o one) \o back = out \o (one \o back)
    BY <1>4, <1>5, <2>1, ConcatAssociative
  <2> QED
    BY <2>2 DEF one
<1>7. out' \o SubSeq(src', read' + 1, Len(src')) = Told(editor', src')
  <2>1. read' + 1 = read + 2
    BY LineIsRead
  <2> QED
    BY <1>1, <1>2, <1>3, <1>6, <2>1, LineIsRead
<1> QED
  BY <1>1, <1>7 DEF ReadingInv, HasFound

\* AppendLine finds its line, or one to be replaced by it, at the first place.
LEMMA AppendReads ==
  ASSUME EditTypeOK, ReadingInv, ReadLine, ~Misleads(editor, src),
         state # Done, editor.kind = "append"
  PROVE ReadingInv'
<1> DEFINE e == editor
           p == read + 1
           at == AppendPlaces(e, src)
           next == NextAppend(e, src[p])
<1>1. /\ state' = next.state /\ out' = out \o next.out
      /\ out = SubSeq(src, 1, read) /\ \A i \in at : i > read
  <2>1. NextOf(e, state, src[p]) = next
    BY DEF NextOf
  <2>2. LooksFor(e)
    BY LineIsRead DEF ReadingInv
  <2> QED
    BY <2>1, <2>2, LineIsRead DEF LooksFor, Untouched, NoneYet
<1>2. at = {i \in 1 .. Len(src) : Trim(src[i]) \in e.old \cup {Trim(e.line)}}
  BY LineIsRead, PlacesAre DEF AppendPlaces
<1>3. SubSeq(src, 1, read) \o <<src[p]>> = SubSeq(src, 1, p)
  BY LineIsRead, FrontGrows
<1>4. Told(e, src) = AppendTold(e, src)
  BY DEF Told
<1>5. CASE p \notin at
  <2>1. next = Keep(src[p], 0)
    BY <1>2, <1>5, LineIsRead DEF NextAppend
  <2>2. state' = 0 /\ out' = SubSeq(src, 1, p)
    <3>1. next.state = 0 /\ next.out = <<src[p]>>
      BY <2>1, KeepIs
    <3> QED
      BY <1>1, <1>3, <3>1
  <2>3. \A i \in at : i > p
    <3>1. \A i \in at : i > read /\ i \in Int /\ i # p
      BY <1>1, <1>2, <1>5
    <3>2. read \in Int /\ p = read + 1
      BY LineIsRead
    <3> HIDE DEF p
    <3> QED
      BY <3>1, <3>2
  <2>4. LooksFor(editor)'
    BY <2>2, <2>3, LineIsRead DEF LooksFor, Untouched, NoneYet
  <2> QED
    BY <2>2, <2>4 DEF ReadingInv, Done
<1>6. CASE p \in at
  <2>1. First(at) = p
    <3>1. at \in SUBSET Int /\ \A j \in at : p <= j
      BY <1>1, <1>2, LineIsRead
    <3> QED
      BY <1>6, <3>1, FirstIs
  <2>2. CASE Trim(src[p]) = Trim(e.line)
    <3>1. next = Keep(src[p], Done)
      BY <2>2 DEF NextAppend
    <3>2. state' = Done /\ out' = SubSeq(src, 1, p)
      <4>1. next.state = Done /\ next.out = <<src[p]>>
        BY <3>1, KeepIs
      <4> QED
        BY <1>1, <1>3, <4>1
    <3>3. Told(e, src) = src
      BY <1>4, <1>6, <2>1, <2>2 DEF AppendTold, AppendPlaces
    <3>4. SubSeq(src, 1, p) \o SubSeq(src, p + 1, Len(src)) = src
      <4>1. src \in Seq(Lines) /\ p \in 0 .. Len(src)
        BY LineIsRead
      <4> HIDE DEF p
      <4> QED
        BY <4>1, FrontAndBack
    <3> QED
      BY <3>2, <3>3, <3>4, LineIsRead DEF ReadingInv, HasFound
  <2>3. CASE Trim(src[p]) # Trim(e.line)
    <3>1. next = Keep(e.line, Done)
      BY <1>2, <1>6, <2>3 DEF NextAppend
    <3>2. state' = Done /\ out' = SubSeq(src, 1, read) \o <<e.line>>
      <4>1. next.state = Done /\ next.out = <<e.line>>
        BY <3>1, KeepIs
      <4> QED
        BY <1>1, <4>1
    <3>3. Told(e, src) = [src EXCEPT ![p] = e.line]
      BY <1>4, <1>6, <2>1, <2>3 DEF AppendTold, AppendPlaces
    <3>4. e.line \in Lines
      BY LineIsRead DEF IsEditor
    <3>5. (SubSeq(src, 1, read) \o <<e.line>>) \o SubSeq(src, read + 2, Len(src)) = Told(e, src)
      <4>1. src \in Seq(Lines) /\ read \in 0 .. Len(src) /\ read < Len(src)
        BY LineIsRead
      <4> DEFINE line == e.line
      <4>2. line \in Lines
        BY <3>4
      <4> HIDE DEF line
      <4>3. (SubSeq(src, 1, read) \o <<line>>) \o SubSeq(src, read + 2, Len(src))
              = [src EXCEPT ![read + 1] = line]
        BY ZenonT(40), <4>1, <4>2, LineReplaced
      <4> QED
        BY <3>3, <4>3 DEF line
    <3>6. read' + 1 = read + 2
      BY LineIsRead
    <3>7. HasFound(editor)'
      BY <3>2, <3>5, <3>6, LineIsRead DEF HasFound
    <3> QED
      BY <3>2, <3>7 DEF ReadingInv
  <2> QED
    BY <2>2, <2>3
<1> QED
  BY <1>5, <1>6

\* The places of ReplaceLine.
LEMMA ReplacePlacesAre ==
  ASSUME NEW e, NEW text \in Seq(Lines)
  PROVE ReplacePlaces(e, text) =
          {i \in 1 .. Len(text) : /\ Trim(text[i]) \in {Trim(e.old), Trim(e.new)}
                                  /\ Matches(e, text, i - 1, Len(e.previous))}
BY PlacesAre DEF ReplacePlaces, Follows

\* A match is one of a line less, and the line.
LEMMA MatchGrows ==
  ASSUME NEW e, NEW text, NEW n \in Nat, NEW k \in Nat \ {0}
  PROVE Matches(e, text, n + 1, k) <=>
          Matches(e, text, n, k - 1) /\ Trim(text[n + 1]) = Trim(e.previous[k])
<1>1. 1 .. k = 1 .. k - 1 \cup {k}
  OBVIOUS
<1>2. n + 1 - k + k = n + 1
  OBVIOUS
<1>3. \A j \in 1 .. k - 1 : n + 1 - k + j = n - (k - 1) + j
  OBVIOUS
<1>4. k <= n + 1 <=> k - 1 <= n
  OBVIOUS
<1> QED
  BY <1>1, <1>2, <1>3, <1>4 DEF Matches

\* Of a text that does not mislead, ReplaceLine always knows how many of the previous
\* lines it has seen.
LEMMA SeenIs ==
  ASSUME NEW e, e.kind = "replace", NEW text \in Seq(Lines), ~Misleads(e, text),
         NEW n \in Nat, n + 1 \in 1 .. Len(text), e.previous \in Seq(Lines),
         NEW s \in 0 .. Len(e.previous),
         \A k \in 1 .. Len(e.previous) : Matches(e, text, n, k) <=> s = k
  PROVE LET now == Seen(e, s, text[n + 1]) IN
          /\ now \in 0 .. Len(e.previous)
          /\ \A k \in 1 .. Len(e.previous) : Matches(e, text, n + 1, k) <=> now = k
<1> DEFINE size == Len(e.previous)
           line == text[n + 1]
           is(k) == Trim(line) = Trim(e.previous[k])
           now == Seen(e, s, line)
<1>1. size \in Nat /\ s \in Nat
  BY LenProperties
<1>2. ASSUME NEW k \in 1 .. size
      PROVE Matches(e, text, n + 1, k) <=> (k = 1 \/ s = k - 1) /\ is(k)
  <2>1. Matches(e, text, n + 1, k) <=> Matches(e, text, n, k - 1) /\ is(k)
    <3>1. k \in Nat \ {0}
      BY <1>1
    <3> QED
      BY <3>1, MatchGrows
  <2>2. CASE k = 1
    <3>1. Matches(e, text, n, 0)
      BY DEF Matches
    <3> QED
      BY <2>1, <2>2, <3>1
  <2>3. CASE k # 1
    <3>1. k - 1 \in 1 .. size
      BY <1>1, <2>3
    <3> QED
      BY <2>1, <2>3, <3>1
  <2> QED
    BY <2>2, <2>3
<1>3. s \in 1 .. size - 1 => ~is(1)
  <2> SUFFICES ASSUME s \in 1 .. size - 1, is(1) PROVE FALSE
    OBVIOUS
  <2>1. s \in 1 .. size
    BY <1>1
  <2>2. Matches(e, text, n, s)
    BY <2>1
  <2>3. n + 1 \in DOMAIN text /\ (n + 1) - 1 = n
    BY LenProperties
  <2> QED
    BY <2>2, <2>3 DEF Misleads
<1>4. CASE s = size
  <2>1. now = IF size > 0 /\ is(1) THEN 1 ELSE 0
    BY <1>1, <1>4 DEF Seen
  <2>2. \A k \in 1 .. size : s # k - 1
    BY <1>1, <1>4
  <2>3. now \in 0 .. size
    BY <1>1, <2>1
  <2>4. \A k \in 1 .. size : (k = 1 /\ is(1)) <=> now = k
    BY <1>1, <2>1
  <2> QED
    BY <1>2, <2>2, <2>3, <2>4
<1>5. CASE s # size
  <2>1. s + 1 \in 1 .. size
    BY <1>1, <1>5
  <2>2. now = IF is(s + 1) THEN s + 1 ELSE 0
    BY <1>1, <1>5, <2>1 DEF Seen
  <2>3. now \in 0 .. size
    BY <1>1, <2>1, <2>2
  <2>4. ASSUME NEW k \in 1 .. size
        PROVE (k = 1 \/ s = k - 1) /\ is(k) <=> now = k
    <3>1. CASE k = s + 1
      BY <1>1, <2>2, <3>1
    <3>2. CASE k # s + 1
      <4>1. s # k - 1 /\ now # k
        BY <1>1, <2>2, <3>2
      <4>2. k = 1 => s \in 1 .. size - 1
        BY <1>1, <1>5, <3>2
      <4> QED
        BY <1>3, <4>1, <4>2
    <3> QED
      BY <3>1, <3>2
  <2> QED
    BY <1>2, <2>3, <2>4
<1> QED
  BY <1>4, <1>5

\* ReplaceLine finds the old line, or the new one, at the first place.
LEMMA ReplaceReads ==
  ASSUME EditTypeOK, ReadingInv, ReadLine, state # Done, editor.kind = "replace",
         ~Misleads(editor, src)
  PROVE ReadingInv'
<1> DEFINE e == editor
           p == read + 1
           at == ReplacePlaces(e, src)
           next == NextReplace(e, state, src[p])
           ready == state = Len(e.previous)
           found == Trim(src[p]) \in {Trim(e.old), Trim(e.new)}
           seen == Seen(e, state, src[p])
<1>1. /\ state' = next.state /\ out' = out \o next.out
      /\ out = SubSeq(src, 1, read) /\ \A i \in at : i > read
      /\ state \in 0 .. Len(e.previous)
      /\ \A k \in 1 .. Len(e.previous) : Matches(e, src, read, k) <=> state = k
  <2>1. NextOf(e, state, src[p]) = next
    BY DEF NextOf
  <2>2. LooksFor(e)
    BY LineIsRead DEF ReadingInv
  <2> QED
    BY <2>1, <2>2, LineIsRead DEF LooksFor, Untouched, NoneYet
<1>2. e.previous \in Seq(Lines) /\ Len(e.previous) \in Nat
  <2>1. e.previous \in Seq(Lines)
    BY LineIsRead DEF IsEditor
  <2> QED
    BY <2>1, LenProperties
<1>3. read \in Nat /\ p = read + 1 /\ p > 0 /\ p - 1 = read /\ p \in 1 .. Len(src)
  <2>1. read \in Nat /\ p \in 1 .. Len(src)
    BY LineIsRead
  <2> QED
    BY <2>1
<1>4. p \in at <=> ready /\ found
  <2>1. p \in at <=> found /\ Matches(e, src, read, Len(e.previous))
    <3>1. p \in at <=> /\ p \in 1 .. Len(src) /\ found
                       /\ Matches(e, src, p - 1, Len(e.previous))
      <4>1. src \in Seq(Lines)
        BY LineIsRead
      <4> HIDE DEF p
      <4> QED
        BY <4>1, ReplacePlacesAre
    <3> QED
      BY <1>3, <3>1
  <2>2. Matches(e, src, read, Len(e.previous)) <=> ready
    <3>1. CASE Len(e.previous) = 0
      BY <1>1, <1>3, <3>1 DEF Matches
    <3>2. CASE Len(e.previous) # 0
      BY <1>1, <1>2, <3>2
    <3> QED
      BY <3>1, <3>2
  <2> QED
    BY <2>1, <2>2
<1>5. at \in SUBSET (1 .. Len(src))
  BY LineIsRead, ReplacePlacesAre
<1>6. SubSeq(src, 1, read) \o <<src[p]>> = SubSeq(src, 1, p)
  BY LineIsRead, FrontGrows
<1>7. Told(e, src) = ReplaceTold(e, src)
  BY DEF Told
<1>8. CASE ~(ready /\ found)
  <2>1. next = Keep(src[p], seen)
    BY <1>8 DEF NextReplace
  <2>2. /\ seen \in 0 .. Len(e.previous)
        /\ \A k \in 1 .. Len(e.previous) : Matches(e, src, p, k) <=> seen = k
    BY <1>1, <1>2, <1>3, LineIsRead, SeenIs
  <2>3. state' = seen /\ out' = SubSeq(src, 1, p)
    <3>1. next.state = seen /\ next.out = <<src[p]>>
      BY <2>1, KeepIs
    <3> QED
      BY <1>1, <1>6, <3>1
  <2>4. \A i \in at : i > p
    <3>1. \A i \in at : i > read /\ i \in Int /\ i # p
      BY <1>1, <1>4, <1>5, <1>8
    <3> HIDE DEF p, at
    <3> QED
      BY <1>3, <3>1
  <2>5. LooksFor(editor)'
    BY <2>2, <2>3, <2>4, LineIsRead DEF LooksFor, Untouched, NoneYet
  <2>6. state' # Done
    BY <1>2, <2>2, <2>3 DEF Done
  <2> QED
    BY <2>5, <2>6 DEF ReadingInv
<1>9. CASE ready /\ found
  <2>1. First(at) = p
    <3>1. p \in at /\ at \in SUBSET Int
      BY <1>4, <1>5, <1>9
    <3>2. \A j \in at : p <= j
      BY <1>1, <1>3, <3>1
    <3> QED
      BY <3>1, <3>2, FirstIs
  <2>2. at # {}
    BY <1>4, <1>9
  <2>3. CASE Trim(src[p]) # Trim(e.old)
    <3>1. next = Keep(src[p], Done)
      BY <1>9, <2>3 DEF NextReplace
    <3>2. state' = Done /\ out' = SubSeq(src, 1, p)
      <4>1. next.state = Done /\ next.out = <<src[p]>>
        BY <3>1, KeepIs
      <4> QED
        BY <1>1, <1>6, <4>1
    <3>3. Told(e, src) = src
      BY <1>7, <2>1, <2>3 DEF ReplaceTold, ReplacePlaces
    <3>4. SubSeq(src, 1, p) \o SubSeq(src, p + 1, Len(src)) = src
      <4>1. src \in Seq(Lines) /\ p \in 0 .. Len(src)
        BY LineIsRead
      <4> HIDE DEF p
      <4> QED
        BY <4>1, FrontAndBack
    <3> QED
      BY <3>2, <3>3, <3>4, LineIsRead DEF ReadingInv, HasFound
  <2>4. CASE Trim(src[p]) = Trim(e.old)
    <3>1. next = Keep(e.new, Done)
      BY <1>9, <2>4 DEF NextReplace
    <3>2. state' = Done /\ out' = SubSeq(src, 1, read) \o <<e.new>>
      <4>1. next.state = Done /\ next.out = <<e.new>>
        BY <3>1, KeepIs
      <4> QED
        BY <1>1, <4>1
    <3>3. Told(e, src) = [src EXCEPT ![p] = e.new]
      BY <1>7, <2>1, <2>2, <2>4 DEF ReplaceTold, ReplacePlaces
    <3>5. (SubSeq(src, 1, read) \o <<e.new>>) \o SubSeq(src, read + 2, Len(src)) = Told(e, src)
      <4>1. src \in Seq(Lines) /\ read \in 0 .. Len(src) /\ read < Len(src)
        BY LineIsRead
      <4> DEFINE line == e.new
      <4>2. line \in Lines
        BY LineIsRead DEF IsEditor
      <4> HIDE DEF line
      <4>3. (SubSeq(src, 1, read) \o <<line>>) \o SubSeq(src, read + 2, Len(src))
              = [src EXCEPT ![read + 1] = line]
        BY ZenonT(40), <4>1, <4>2, LineReplaced
      <4> QED
        BY <3>3, <4>3 DEF line
    <3>6. read' + 1 = read + 2
      BY LineIsRead
    <3>7. HasFound(editor)'
      BY <3>2, <3>5, <3>6, LineIsRead DEF HasFound
    <3> QED
      BY <3>2, <3>7 DEF ReadingInv
  <2> QED
    BY <2>3, <2>4
<1> QED
  BY <1>8, <1>9

\* SpliceRange drops what is between the first start and the first end after it.
LEMMA SpliceReads ==
  ASSUME EditTypeOK, ReadingInv, ReadLine, ~Misleads(editor, src),
         state # Done, editor.kind = "splice"
  PROVE ReadingInv'
<1> DEFINE e == editor
           p == read + 1
           starts == Starts(e, src)
           ends == Ends(e, src)
           next == NextSplice(e, state, src[p])
<1>1. /\ state' = next.state /\ out' = out \o next.out /\ state \in {0, 1}
      /\ state = 0 => out = SubSeq(src, 1, read) /\ \A i \in starts : i > read
      /\ state = 1 => /\ First(starts) \in starts /\ First(starts) <= read
                      /\ out = SubSeq(src, 1, First(starts) - 1)
                      /\ \A i \in ends : i > read
  <2>1. NextOf(e, state, src[p]) = next
    BY DEF NextOf
  <2>2. LooksFor(e)
    BY LineIsRead DEF ReadingInv
  <2>3. \/ state = 0 /\ out = SubSeq(src, 1, read) /\ \A i \in starts : i > read
        \/ /\ state = 1
           /\ First(starts) \in starts /\ First(starts) <= read
           /\ out = SubSeq(src, 1, First(starts) - 1)
           /\ \A i \in ends : i > read
    BY <2>2 DEF LooksFor, Untouched, NoneYet
  <2>4. state' = next.state /\ out' = out \o next.out
    BY <2>1, LineIsRead
  <2> QED
    BY <2>3, <2>4
<1>2. starts = {i \in 1 .. Len(src) : Trim(src[i]) = Trim(e.start)}
  BY LineIsRead, PlacesAre DEF Starts
<1>3. ends = {i \in 1 .. Len(src) : Trim(src[i]) = Trim(e.end) /\ i > First(starts)}
  BY LineIsRead, PlacesAre DEF Ends
<1>4. read \in Nat /\ p \in 1 .. Len(src) /\ Len(src) \in Nat
  BY LineIsRead
<1>5. SubSeq(src, 1, read) \o <<src[p]>> = SubSeq(src, 1, p)
  BY LineIsRead, FrontGrows
<1>6. Told(e, src) = SpliceTold(e, src)
  BY DEF Told
<1>7. CASE state = 0 /\ p \notin starts
  <2>1. next = Keep(src[p], 0)
    BY <1>2, <1>4, <1>7 DEF NextSplice
  <2>2. state' = 0 /\ out' = SubSeq(src, 1, p)
    <3>1. next.state = 0 /\ next.out = <<src[p]>>
      BY <2>1, KeepIs
    <3> QED
      BY <1>1, <1>5, <1>7, <3>1
  <2>3. \A i \in starts : i > p
    <3>1. \A i \in starts : i > read /\ i \in Int /\ i # p
      BY <1>1, <1>2, <1>7
    <3> QED
      BY <1>4, <3>1
  <2>4. LooksFor(editor)'
    BY <2>2, <2>3, LineIsRead DEF LooksFor, Untouched, NoneYet
  <2> QED
    BY <2>2, <2>4 DEF ReadingInv, Done
<1>8. CASE state = 0 /\ p \in starts
  <2>1. First(starts) = p
    <3>1. starts \in SUBSET Int /\ \A j \in starts : p <= j
      BY <1>1, <1>2, <1>4, <1>8
    <3> QED
      BY <1>8, <3>1, FirstIs
  <2>2. next = [out |-> <<>>, state |-> 1]
    BY <1>2, <1>8 DEF NextSplice
  <2>3. state' = 1 /\ out' = SubSeq(src, 1, read)
    <3>1. out \o <<>> = out
      BY LineIsRead, ConcatEmptySeq
    <3>2. next.state = 1 /\ next.out = <<>>
      BY <2>2
    <3> QED
      BY <1>1, <1>8, <3>1, <3>2
  <2>4. out' = SubSeq(src, 1, First(starts) - 1)
    BY <1>4, <2>1, <2>3
  <2>5. \A i \in ends : i > p
    BY <1>3, <2>1
  <2>6. First(starts) \in starts /\ First(starts) <= p
    BY <1>4, <1>8, <2>1
  <2>7. LooksFor(editor)'
    BY <2>3, <2>4, <2>5, <2>6, LineIsRead DEF LooksFor, NoneYet
  <2> QED
    BY <2>3, <2>7 DEF ReadingInv, Done
<1>9. CASE state = 1 /\ p \notin ends
  <2>1. First(starts) \in Int
    <3>1. starts \in SUBSET Int
      BY <1>2
    <3> QED
      BY <1>1, <1>9, <3>1
  <2>2. p > First(starts)
    BY <1>1, <1>4, <1>9, <2>1
  <2>3. next = [out |-> <<>>, state |-> 1]
    BY <1>3, <1>4, <1>9, <2>2 DEF NextSplice
  <2>4. state' = 1 /\ out' = out
    <3>1. out \o <<>> = out
      BY LineIsRead, ConcatEmptySeq
    <3>2. next.state = 1 /\ next.out = <<>>
      BY <2>3
    <3> QED
      BY <1>1, <3>1, <3>2
  <2>5. \A i \in ends : i > p
    <3>1. \A i \in ends : i > read /\ i \in Int /\ i # p
      BY <1>1, <1>3, <1>9
    <3> QED
      BY <1>4, <3>1
  <2>6. First(starts) <= p
    BY <1>4, <2>1, <2>2
  <2>7. LooksFor(editor)'
    BY <1>1, <1>9, <2>4, <2>5, <2>6, LineIsRead DEF LooksFor, NoneYet
  <2> QED
    BY <2>4, <2>7 DEF ReadingInv, Done
<1>10. CASE state = 1 /\ p \in ends
  <2>1. First(ends) = p
    <3>1. ends \in SUBSET Int /\ \A j \in ends : p <= j
      BY <1>1, <1>3, <1>4, <1>10
    <3> QED
      BY <1>10, <3>1, FirstIs
  <2>2. next = [out |-> Spliced(e), state |-> Done]
    BY <1>3, <1>10 DEF NextSplice, Done
  <2>3. state' = Done /\ out' = SubSeq(src, 1, First(starts) - 1) \o Spliced(e)
    <3>1. next.state = Done /\ next.out = Spliced(e)
      BY <2>2
    <3> QED
      BY <1>1, <1>10, <3>1
  <2>4. Told(e, src) = (SubSeq(src, 1, First(starts) - 1) \o Spliced(e))
                          \o SubSeq(src, p + 1, Len(src))
    <3>1. starts # {} /\ ends # {}
      BY <1>1, <1>10
    <3> QED
      BY <1>6, <2>1, <3>1 DEF SpliceTold, Starts, Ends
  <2>5. HasFound(editor)'
    BY <2>3, <2>4, LineIsRead DEF HasFound
  <2> QED
    BY <2>3, <2>5 DEF ReadingInv
<1> QED
  BY <1>1, <1>7, <1>8, <1>9, <1>10

\* So it is with every editor.
LEMMA ReadKeeps ==
  ASSUME EditTypeOK, ReadingInv, ReadLine
  PROVE ReadingInv'
<1>1. CASE Misleads(editor, src)
  BY <1>1, LineIsRead DEF ReadingInv
<1>2. CASE ~Misleads(editor, src)
  BY <1>2, LineIsRead, DoneReads, AppendReads, ReplaceReads, SpliceReads DEF IsEditor
<1> QED
  BY <1>1, <1>2

\* At the end of the file an editor has given, or gives, what it was told to.
LEMMA EOFGives ==
  ASSUME EditTypeOK, ReadingInv, ReadEOF
  PROVE AsTold(editor, src, out') /\ out' \in Seq(Lines)
<1> DEFINE e == editor
<1>1. /\ IsEditor(e) /\ src \in Seq(Lines) /\ out \in Seq(Lines)
      /\ read = Len(src) /\ Len(src) \in Nat /\ phase = "reading"
      /\ out' = out \o AtEOF(e, state)
  BY LenProperties DEF EditTypeOK, ReadEOF
<1>2. out \o <<>> = out /\ <<>> \in Seq(Lines) /\ SubSeq(src, 1, read) = src
  BY <1>1, ConcatEmptySeq, SubSeqFull
<1>0. out' \in Seq(Lines)
  <2>1. AtEOF(e, state) \in Seq(Lines)
    BY <1>1, <1>2, SplicedIsText DEF AtEOF, IsEditor
  <2> QED
    BY <1>1, <2>1, ConcatProperties
<1> SUFFICES ASSUME ~Misleads(e, src) PROVE out' = Told(e, src)
  BY <1>0 DEF AsTold
<1>3. CASE state = Done
  <2>1. AtEOF(e, state) = <<>>
    BY <1>3 DEF AtEOF
  <2>2. SubSeq(src, read + 1, Len(src)) = <<>>
    BY <1>1, SubSeqEmpty
  <2>3. out \o SubSeq(src, read + 1, Len(src)) = Told(e, src)
    BY <1>1, <1>3 DEF ReadingInv, HasFound
  <2> QED
    BY <1>1, <1>2, <2>1, <2>2, <2>3
<1>4. CASE state # Done /\ e.kind = "append"
  <2>1. out = src /\ NoneYet(AppendPlaces(e, src))
    BY <1>1, <1>2, <1>4 DEF ReadingInv, LooksFor, Untouched
  <2>2. AppendPlaces(e, src) = {}
    <3>1. AppendPlaces(e, src) \subseteq 1 .. Len(src)
      BY <1>1, PlacesAre DEF AppendPlaces
    <3> QED
      BY <1>1, <2>1, <3>1 DEF NoneYet
  <2>3. Told(e, src) = Append(src, e.line)
    BY <1>4, <2>2 DEF Told, AppendTold, AppendPlaces
  <2>4. AtEOF(e, state) = <<e.line>> /\ e.line \in Lines
    BY <1>1, <1>4 DEF AtEOF, IsEditor
  <2>5. Append(src, e.line) = src \o <<e.line>> /\ Append(src, e.line) \in Seq(Lines)
    <3> DEFINE line == e.line
    <3>1. line \in Lines
      BY <2>4
    <3> HIDE DEF line
    <3>2. Append(src, line) = src \o <<line>> /\ Append(src, line) \in Seq(Lines)
      BY <1>1, <3>1, AppendIsConcat, AppendProperties
    <3> QED
      BY <3>2 DEF line
  <2> QED
    BY <1>1, <2>1, <2>3, <2>4, <2>5
<1>5. CASE state # Done /\ e.kind = "replace"
  <2>1. out = src /\ NoneYet(ReplacePlaces(e, src))
    BY <1>1, <1>2, <1>5 DEF ReadingInv, LooksFor, Untouched
  <2>2. ReplacePlaces(e, src) = {}
    <3>1. ReplacePlaces(e, src) \subseteq 1 .. Len(src)
      BY <1>1, <1>5, ReplacePlacesAre
    <3> QED
      BY <1>1, <2>1, <3>1 DEF NoneYet
  <2>3. Told(e, src) = src
    BY <1>5, <2>2 DEF Told, ReplaceTold, ReplacePlaces
  <2>4. AtEOF(e, state) = <<>>
    BY <1>5 DEF AtEOF
  <2> QED
    BY <1>1, <1>2, <2>1, <2>3, <2>4
<1>6. CASE state # Done /\ e.kind = "splice"
  <2> DEFINE starts == Starts(e, src)
             ends == Ends(e, src)
  <2>1. AtEOF(e, state) = Spliced(e) /\ Spliced(e) \in Seq(Lines)
    BY <1>1, <1>6, SplicedIsText DEF AtEOF
  <2>2. out' \in Seq(Lines)
    BY <1>1, <2>1, ConcatProperties
  <2>3. Told(e, src) = SpliceTold(e, src)
    BY <1>6 DEF Told
  <2>4. CASE state = 0
    <3>1. out = src /\ NoneYet(starts)
      BY <1>1, <1>2, <1>6, <2>4 DEF ReadingInv, LooksFor, Untouched
    <3>2. starts = {}
      <4>1. starts \subseteq 1 .. Len(src)
        BY <1>1, PlacesAre DEF Starts
      <4> QED
        BY <1>1, <3>1, <4>1 DEF NoneYet
    <3>3. Told(e, src) = src \o Spliced(e)
      BY <2>3, <3>2 DEF SpliceTold, Starts
    <3> QED
      BY <1>1, <2>1, <2>2, <3>1, <3>3
  <2>5. CASE state # 0
    <3>1. /\ First(starts) \in starts /\ NoneYet(ends)
          /\ out = SubSeq(src, 1, First(starts) - 1)
      BY <1>1, <1>6, <2>5 DEF ReadingInv, LooksFor
    <3>2. ends = {}
      <4>1. ends \subseteq 1 .. Len(src)
        BY <1>1, PlacesAre DEF Ends
      <4> QED
        BY <1>1, <3>1, <4>1 DEF NoneYet
    <3>3. Told(e, src) = SubSeq(src, 1, First(starts) - 1) \o Spliced(e)
      BY <2>3, <3>1, <3>2 DEF SpliceTold, Starts, Ends
    <3> QED
      BY <1>1, <2>1, <2>2, <3>1, <3>3
  <2> QED
    BY <2>4, <2>5
<1> QED
  BY <1>1, <1>3, <1>4, <1>5, <1>6 DEF IsEditor

-----------------------------------------------------------------------------
(***************************************************************************)
(* Every step.                                                             *)
(***************************************************************************)

\* Before the first run no editor is at work.
LEMMA Established == Init => IInv
BY FilesAssumption DEF Init, IInv, EditTypeOK, ReadingInv, EditedAsTold, WayInv

\* What does not edit leaves the edit alone.
LEMMA OthersKeep ==
  ASSUME IInv, UNCHANGED edit
  PROVE IInv'
BY DEF edit, IInv, EditTypeOK, ReadingInv, HasFound, LooksFor, Untouched, NoneYet, EditedAsTold,
       WayInv

\* An edit that ends, well or not, leaves a text.
LEMMA EndKeeps ==
  ASSUME file' \in Seq(Lines), phase' = "idle"
  PROVE IInv'
BY DEF IInv, EditTypeOK, ReadingInv, EditedAsTold, WayInv

\* An edit begins with nothing read.
LEMMA OpenKeeps ==
  ASSUME IInv, NEW n \in DOMAIN Editors, Open(Editors[n])
  PROVE IInv'
<1> DEFINE e == Editors[n]
<1>1. IsEditor(e) /\ file \in Seq(Lines)
  BY EditorsAssumption DEF IInv, EditTypeOK
<1>2. /\ file' = file /\ editor' = e /\ src' = file /\ out' = <<>> /\ read' = 0 /\ state' = 0
      /\ phase' = "reading"
  BY DEF Open
<1>3. EditTypeOK'
  BY <1>1, <1>2, LenProperties DEF EditTypeOK
<1>4. SubSeq(file, 1, 0) = <<>>
  BY SubSeqEmpty
<1>5. ReadingInv'
  <2>1. /\ \A i \in AppendPlaces(e, file) : i > 0
        /\ \A i \in Starts(e, file) : i > 0
        /\ e.kind = "replace" => \A i \in ReplacePlaces(e, file) : i > 0
    BY <1>1, PlacesAre, ReplacePlacesAre DEF AppendPlaces, Starts
  <2>2. e.kind = "replace" =>
          /\ 0 \in 0 .. Len(e.previous)
          /\ \A k \in 1 .. Len(e.previous) : Matches(e, file, 0, k) <=> 0 = k
    <3>1. e.kind = "replace" => Len(e.previous) \in Nat
      BY <1>1, LenProperties DEF IsEditor
    <3> QED
      BY <3>1 DEF Matches
  <2>3. out' = SubSeq(src', 1, read')
    BY <1>2, <1>4
  <2>4. CASE e.kind = "append"
    BY <1>2, <2>1, <2>3, <2>4 DEF LooksFor, Untouched, NoneYet, ReadingInv, Done
  <2>5. CASE e.kind = "splice"
    BY <1>2, <2>1, <2>3, <2>5 DEF LooksFor, Untouched, NoneYet, ReadingInv, Done
  <2>6. CASE e.kind = "replace"
    BY <1>2, <2>1, <2>2, <2>3, <2>6 DEF LooksFor, Untouched, NoneYet, ReadingInv, Done
  <2> QED
    BY <1>1, <2>4, <2>5, <2>6 DEF IsEditor
<1> QED
  BY <1>2, <1>3, <1>5 DEF IInv, EditedAsTold, WayInv

\* Each step of an edit keeps to what the editor was told, and to its way.
LEMMA EditKeeps ==
  ASSUME IInv, EditOn
  PROVE IInv'
<1> USE DEF IInv
<1>1. CASE ReadLine
  BY <1>1, LineIsRead, ReadKeeps DEF ReadLine, EditTypeOK, EditedAsTold, WayInv
<1>2. CASE ReadEOF
  BY <1>2, EOFGives DEF ReadEOF, EditTypeOK, ReadingInv, EditedAsTold, WayInv
<1>3. CASE SyncTemp
  BY <1>3 DEF SyncTemp, EditTypeOK, ReadingInv, EditedAsTold, WayInv
<1>4. CASE Compare
  BY <1>4 DEF Compare, EditTypeOK, ReadingInv, EditedAsTold, WayInv
<1>5. CASE Rename
  BY <1>5 DEF Rename, EditTypeOK, ReadingInv, EditedAsTold, WayInv
<1>6. CASE Truncate
  BY <1>6 DEF Truncate, EditTypeOK, ReadingInv, EditedAsTold, WayInv
<1>7. CASE Write
  BY <1>7 DEF Write, EditTypeOK, ReadingInv, EditedAsTold, WayInv
<1>8. CASE Flush
  BY <1>8 DEF Flush, EditTypeOK, ReadingInv, EditedAsTold, WayInv
<1> QED
  BY <1>1, <1>2, <1>3, <1>4, <1>5, <1>6, <1>7, <1>8 DEF EditOn

\* What a step of a run can do to the edit.
LEMMA EditSteps ==
  ASSUME Next
  PROVE \/ UNCHANGED edit
        \/ \E n \in DOMAIN Editors : Open(Editors[n])
        \/ EditOn
        \/ phase' = "idle" /\ UNCHANGED <<file, flushed>>
        \/ phase' = "idle" /\ ~flushed /\ file' = <<>>
<1>1. CASE \E mode \in {"run", "sim"} : Begin(mode)
  BY <1>1 DEF Begin
<1>2. CASE Skip \/ Mention \/ Complete
  BY <1>2 DEF Skip, Mention, Complete
<1>3. CASE Select \/ SourceStep \/ Update \/ Install \/ SimInstall \/ InstallDownloaded
  BY <1>3 DEF Select, SourceStep, Update, Install, SimInstall, InstallDownloaded
<1>4. CASE Make \/ Ask \/ Panic \/ WorldMoves
  BY <1>4 DEF Make, Ask, Panic, WorldMoves
<1>5. CASE EditFile
  BY <1>5 DEF EditFile
<1>6. CASE EditGoesOn
  BY <1>6 DEF EditGoesOn
<1>7. CASE EditEnds \/ Stop
  BY <1>7 DEF EditEnds, Stop
<1>8. CASE PowerFails
  BY <1>8 DEF PowerFails
<1> QED
  BY <1>1, <1>2, <1>3, <1>4, <1>5, <1>6, <1>7, <1>8 DEF Next

\* The invariant is inductive.
LEMMA StepKeeps == IInv /\ [Next]_vars => IInv'
<1> SUFFICES ASSUME IInv, [Next]_vars PROVE IInv'
  OBVIOUS
<1>1. CASE UNCHANGED vars
  BY <1>1, OthersKeep DEF vars
<1>2. CASE Next
  <2>1. CASE phase' = "idle" /\ UNCHANGED <<file, flushed>>
    BY <2>1, EndKeeps DEF IInv, EditTypeOK
  <2>2. CASE phase' = "idle" /\ ~flushed /\ file' = <<>>
    BY <2>2, EndKeeps
  <2> QED
    BY <1>2, <2>1, <2>2, EditSteps, OthersKeep, OpenKeeps, EditKeeps
<1> QED
  BY <1>1, <1>2

\* Whatever the lines, the texts, the editors, the plans and the failures: an editor that
\* is fed a file line by line has, when it is compared with what was there and written,
\* given what it was told to make of the text as a whole (textedit/simple.go:38-52,
\* range.go:43-83, replace-line.go:57-95).
THEOREM EditedAsToldCorrect == Spec => []EditedAsTold
<1>1. IInv => EditedAsTold
  BY DEF IInv
<1> QED
  BY <1>1, Established, StepKeeps, PTL DEF Spec

\* A step of an edit by way of a temporary file, once the file is on disk, leaves the old
\* text or the whole new one there.
LEMMA WholeStep ==
  ASSUME IInv, [Next]_vars, editor.how = "temp", flushed
  PROVE flushed' /\ (file' = file \/ (file' = out /\ AsTold(editor, src, out)))
<1>1. CASE EditOn
  BY <1>1 DEF EditOn, ReadLine, ReadEOF, SyncTemp, Compare, Rename, Truncate, Write, Flush, IInv,
              EditedAsTold, WayInv
<1>2. CASE UNCHANGED edit
  BY <1>2 DEF edit
<1>3. CASE \E n \in DOMAIN Editors : Open(Editors[n])
  BY <1>3 DEF Open
<1> QED
  BY <1>1, <1>2, <1>3, EditSteps DEF vars

\* No kill and no loss of power leaves a file edited by way of a temporary one empty, or
\* with a part of the new text (edit-file.go:21-78).
THEOREM FileWholeCorrect == Spec => FileWhole
<1>1. IInv /\ [Next]_vars
        => [editor.how = "temp" /\ flushed =>
              flushed' /\ (file' = file \/ (file' = out /\ AsTold(editor, src, out)))]_vars
  BY WholeStep
<1> QED
  BY <1>1, Established, StepKeeps, PTL DEF Spec, FileWhole

-----------------------------------------------------------------------------
(***************************************************************************)
(* Runs: what the steps of a plan have done so far.                        *)
(***************************************************************************)
Steps == Plans[plan]

\* What the plan installs, and what it removes.
ArgsIn(kinds) == UNION {ArgsOf(Steps[i]) : i \in Does(Steps, {}, kinds)}
Wanted == ArgsIn(Selecting \cup {"deb"})
Unwanted == ArgsIn({"remove"})

\* The file as the run's complete edits have left it.
Base == IF phase = "idle" THEN file ELSE src

\* An edit is a step's, and the file is replaced when it is to be.
PhaseInv ==
  phase # "idle" =>
    /\ proc = "run" /\ todo # {} /\ ~Skipped /\ Step.kind = "edit"
    /\ \E n \in DOMAIN Editors : Step.args = <<n>> /\ editor = Editors[n]
    /\ phase \in {"reading", "syncing", "comparing", "renaming", "truncating", "kept"} => file = src
    /\ phase = "kept" => out = src
    /\ phase \in {"renaming", "truncating", "writing", "flushing", "changed"} => out # src
    /\ phase \in {"flushing", "changed"} => file = out
    /\ phase \in {"reading", "syncing", "comparing", "renaming", "truncating", "kept", "writing",
                  "flushing", "changed"}

\* What is done did not wait for what is left.
PlanInv ==
  /\ plan \in DOMAIN Plans /\ todo \subseteq DOMAIN Steps
  /\ \A i \in DOMAIN Steps \ todo, j \in todo : ~Precedes(Steps, j, i)

\* What a run has made of the packages, and is to.
PackagesInv ==
  /\ Added \subseteq Wanted /\ Removed \subseteq Unwanted
  /\ begun.packages \ Unwanted \subseteq packages
  /\ packages \subseteq begun.packages \cup Wanted

Changed ==
  \/ packages # begun.packages
  \/ (made \ begun.made) \cap Groups # {}
  \/ Base # begun.file

ToldInv ==
  /\ begun.made \subseteq made
  /\ Changed => reboot
  /\ OneEdit(Steps) =>
       /\ reboot => Changed
       /\ todo \cap Does(Steps, {}, {"edit"}) # {} => Base = begun.file

\* What a step that is done has come to: what it is there for, or a note of it.
Achieved(step) ==
  LET args == ArgsOf(step) IN
  /\ step.kind = "packages" => args \subseteq packages \cup Added
  /\ step.kind = "if available" => args \cap known \subseteq packages \cup Added
  /\ step.kind = "first available" =>
       args \cap (packages \cup Added) # {} /\ FirstKnown(step) \subseteq packages \cup Added
  /\ step.kind = "remove" => args \cap packages \subseteq Removed
  /\ step.kind = "source" => \A s \in args : lists[s] = "whole" /\ KeyOf[s] \in keys
  /\ step.kind = "deb" => args \subseteq packages
  /\ step.kind \in {"make", "join"} => args \subseteq made
  /\ step.kind = "edit" /\ OneEdit(Steps) /\ PlainEdits(Steps) =>
       AsTold(Editors[step.args[1]], file, file)
  /\ step.kind = "ask" => \A p \in args \cap Checked : conf[p] = "good"
  /\ step.kind = "update" => dirty # "unset"

DoneInv ==
  /\ dirty \in {"unset", "yes", "no"}
  /\ queued # {} => todo \cap Does(Steps, env, {"install"}) # {}
  /\ dirty = "yes" => todo \cap Does(Steps, env, {"update"}) # {}
  /\ \A i \in Does(Steps, env, Kinds) \ todo : Achieved(Steps[i])

\* After an update, and until a source is written, apt knows what there is.
KnownInv ==
  /\ proc = "run" /\ dirty = "no" => known = Offered
  /\ lists = [s \in Sources |-> lists[s]]

\* The step has nothing left to do.
Stands(step) ==
  LET args == ArgsOf(step) IN
  /\ step.kind = "packages" => args \subseteq packages
  /\ step.kind = "if available" => args \cap known \subseteq packages
  /\ step.kind = "first available" => FirstKnown(step) \subseteq packages
  /\ step.kind = "remove" => args \cap packages = {}
  /\ step.kind = "source" => \A s \in args : lists[s] = "whole" /\ KeyOf[s] \in keys
  /\ step.kind = "deb" => args \subseteq packages
  /\ step.kind \in {"make", "join"} => args \subseteq made
  /\ step.kind = "edit" => AsTold(Editors[step.args[1]], file, file)

\* Nothing a run does changes anything.
QuietInv ==
  /\ Added \subseteq packages /\ Removed \cap packages = {}
  /\ \A i \in Does(Steps, env, Kinds) : Stands(Steps[i])
  /\ Does(Steps, env, {"update"}) # {} => known = Offered
  /\ phase \notin {"writing", "flushing", "changed"}
  /\ proc = "run" => ~reboot

Rules == Tidy(Steps) /\ OneEdit(Steps) /\ PlainEdits(Steps) /\ Ordered(Steps, env)

RunsInv ==
  /\ PlanInv /\ PhaseInv
  /\ proc = "run" /\ Tidy(Steps) =>
       /\ PackagesInv /\ ToldInv
       /\ Ordered(Steps, env) => DoneInv
  /\ KnownInv /\ (Rules /\ settled => QuietInv)

\* There is a first of some places.
Less == {ss \in Nat \X Nat : ss[1] < ss[2]}

LEMMA FirstIn ==
  ASSUME NEW places \in SUBSET Nat, places # {}
  PROVE  First(places) \in places /\ \A j \in places : First(places) <= j
<1>1. IsWellFoundedOn(Less, Nat)
  BY NatLessThanWellFounded DEF OpToRel, Less
<1>2. PICK p \in places : \A j \in places : ~(<<j, p>> \in Less)
  BY <1>1, WFMin
<1>3. ASSUME NEW j \in places, j < p
      PROVE  FALSE
  <2>1. <<j, p>> \in Nat \X Nat /\ <<j, p>>[1] < <<j, p>>[2]
    BY <1>3
  <2>2. <<j, p>> \in Less
    BY <2>1, Zenon DEF Less
  <2> QED
    BY <1>2, <2>2
<1>4. p \in Nat /\ \A j \in places : j \in Nat /\ ~(j < p)
  BY <1>3
<1>5. \A j \in places : p <= j
  BY <1>4
<1>6. First(places) = p
  BY <1>5, FirstIs
<1> QED
  BY <1>5, <1>6

\* It is the turn of a step that waits for none of those left.
LEMMA TurnIs ==
  ASSUME PlanInv, todo # {}
  PROVE  /\ Turn \in todo /\ Turn \in DOMAIN Steps /\ Step = Steps[Turn]
         /\ Step.kind \in Kinds
         /\ \A j \in todo : ~Precedes(Steps, j, Turn)
<1>1. plan \in DOMAIN Plans /\ Steps \in Seq(AnyStep)
  BY StepsAssumption DEF PlanInv, Steps
<1>2. todo \subseteq DOMAIN Steps /\ todo \subseteq Nat
  BY <1>1 DEF PlanInv
<1>3. Turns(Steps, todo) # {}
  BY <1>1, <1>2, PlansAssumption DEF Steps
<1>4. Turns(Steps, todo) \subseteq todo /\ \A i \in Turns(Steps, todo) : ~Waits(Steps, todo, i)
  BY DEF Turns
<1>5. Turns(Steps, todo) \in SUBSET Nat
  BY <1>2, <1>4
<1>6. First(Turns(Steps, todo)) \in Turns(Steps, todo)
  BY <1>3, <1>5, FirstIn
<1>7. Turn \in todo /\ ~Waits(Steps, todo, Turn)
  BY <1>4, <1>6 DEF Turn, Steps
<1>8. \A j \in todo : ~Precedes(Steps, j, Turn)
  BY <1>7 DEF Waits
<1>9. Step = Steps[Turn]
  BY DEF Step, Steps
<1>10. Turn \in DOMAIN Steps
  BY <1>2, <1>7
<1>11. Steps[Turn] \in AnyStep
  BY <1>1, <1>10
<1>12. Steps[Turn].kind \in Kinds
  BY <1>11 DEF AnyStep
<1> QED
  BY <1>7, <1>8, <1>9, <1>10, <1>12

\* What a step of the run does to the plan.
LEMMA PlanSteps ==
  ASSUME Next
  PROVE  /\ UNCHANGED <<plan, env>>
         /\ \/ todo' = todo
            \/ todo' = DOMAIN Steps
            \/ todo # {} /\ todo' = todo \ {Turn}
<1> USE DEF rest, context, machine
<1>1. CASE \E mode \in {"run", "sim"} : Begin(mode)
  BY <1>1 DEF Begin, Steps
<1>2. CASE Skip \/ Mention \/ Complete
  BY <1>2 DEF Skip, Mention, Complete, AtStep, At, Pass
<1>3. CASE Select \/ SourceStep \/ Update \/ Install \/ SimInstall \/ InstallDownloaded
  BY <1>3 DEF Select, SourceStep, Update, Install, SimInstall, InstallDownloaded, AtStep, At, Pass
<1>4. CASE Make \/ Ask \/ Panic \/ WorldMoves
  BY <1>4 DEF Make, Ask, Panic, WorldMoves, AtStep, At, Pass
<1>5. CASE EditFile \/ EditGoesOn
  BY <1>5 DEF EditFile, EditGoesOn
<1>6. CASE EditEnds
  BY <1>6 DEF EditEnds, Pass
<1>7. CASE Stop \/ PowerFails
  BY <1>7 DEF Stop, PowerFails
<1> QED
  BY <1>1, <1>2, <1>3, <1>4, <1>5, <1>6, <1>7 DEF Next

LEMMA PlanKept ==
  ASSUME PlanInv, Next
  PROVE  PlanInv'
<1>1. plan' = plan /\ Steps' = Steps
  BY PlanSteps DEF Steps
<1>2. CASE todo' = todo
  BY <1>1, <1>2 DEF PlanInv
<1>3. CASE todo' = DOMAIN Steps
  BY <1>1, <1>3 DEF PlanInv
<1>4. CASE todo # {} /\ todo' = todo \ {Turn}
  BY <1>1, <1>4, TurnIs DEF PlanInv
<1> QED
  BY <1>2, <1>3, <1>4, PlanSteps

-----------------------------------------------------------------------------
\* An edit goes its way.
LEMMA PhaseKept ==
  ASSUME PlanInv, PhaseInv, Next
  PROVE  PhaseInv'
<1> USE DEF rest, context, machine
<1>1. SUFFICES ASSUME phase' # "idle"
               PROVE  PhaseInv'
  BY DEF PhaseInv
<1>2. CASE phase = "idle" /\ UNCHANGED phase
  BY <1>1, <1>2
<1>3. CASE EditFile
  <2>1. PICK n \in DOMAIN Editors : Step.args = <<n>> /\ Open(Editors[n])
    BY <1>3 DEF EditFile
  <2>2. UNCHANGED <<plan, env, todo, proc>>
    BY <1>3 DEF EditFile
  <2>3. Step' = Step /\ Skipped' = Skipped
    BY <2>2 DEF Step, Turn, Skipped
  <2>4. proc = "run" /\ todo # {} /\ ~Skipped /\ Step.kind = "edit"
    BY <1>3 DEF EditFile, At, AtStep
  <2>5. phase' = "reading" /\ editor' = Editors[n] /\ src' = file /\ file' = file
    BY <2>1 DEF Open
  <2>6. \E m \in DOMAIN Editors : Step'.args = <<m>> /\ editor' = Editors[m]
    BY <2>1, <2>3, <2>5
  <2> QED
    BY <2>2, <2>3, <2>4, <2>5, <2>6 DEF PhaseInv
<1>4. CASE EditGoesOn
  <2>1. UNCHANGED <<plan, env, todo, proc>> /\ EditOn
    BY <1>4 DEF EditGoesOn
  <2>2. Step' = Step /\ Skipped' = Skipped
    BY <2>1 DEF Step, Turn, Skipped
  <2>3. editor' = editor /\ src' = src /\ phase # "idle"
    BY <2>1 DEF EditOn, ReadLine, ReadEOF, SyncTemp, Compare, Rename, Truncate, Write, Flush
  <2>4. /\ proc = "run" /\ todo # {} /\ ~Skipped /\ Step.kind = "edit"
        /\ \E n \in DOMAIN Editors : Step.args = <<n>> /\ editor = Editors[n]
    BY <2>3 DEF PhaseInv
  <2>5. \E n \in DOMAIN Editors : Step'.args = <<n>> /\ editor' = Editors[n]
    BY <2>2, <2>3, <2>4
  <2>6. /\ phase' \in {"reading", "syncing", "comparing", "renaming", "truncating", "kept"} => file' = src'
        /\ phase' = "kept" => out' = src'
        /\ phase' \in {"renaming", "truncating", "writing", "flushing", "changed"} => out' # src'
        /\ phase' \in {"flushing", "changed"} => file' = out'
        /\ phase' \in {"reading", "syncing", "comparing", "renaming", "truncating", "kept",
                       "writing", "flushing", "changed"}
    <3>1. CASE ReadLine
      BY <2>3, <3>1 DEF ReadLine, PhaseInv
    <3>2. CASE ReadEOF
      BY <2>3, <3>2 DEF ReadEOF, PhaseInv
    <3>3. CASE SyncTemp \/ Compare
      BY <2>3, <3>3 DEF SyncTemp, Compare, PhaseInv
    <3>4. CASE Rename \/ Truncate \/ Write \/ Flush
      BY <2>3, <3>4 DEF Rename, Truncate, Write, Flush, PhaseInv
    <3> QED
      BY <2>1, <3>1, <3>2, <3>3, <3>4 DEF EditOn
  <2> QED
    BY <2>1, <2>2, <2>4, <2>5, <2>6 DEF PhaseInv
<1>5. CASE \E mode \in {"run", "sim"} : Begin(mode)
  BY <1>1, <1>5 DEF Begin, PhaseInv, edit
<1>6. CASE Skip \/ Mention \/ Complete
  BY <1>2, <1>6 DEF Skip, Mention, Complete, AtStep, At, edit
<1>7. CASE Select \/ SourceStep \/ Update \/ Install \/ SimInstall \/ InstallDownloaded
  BY <1>2, <1>7 DEF Select, SourceStep, Update, Install, SimInstall, InstallDownloaded, AtStep, At, edit
<1>8. CASE Make \/ Ask \/ Panic
  BY <1>2, <1>8 DEF Make, Ask, Panic, AtStep, At, edit
<1>9. CASE WorldMoves
  BY <1>1, <1>9 DEF WorldMoves, PhaseInv, edit
<1>10. CASE EditEnds \/ Stop \/ PowerFails
  BY <1>1, <1>10 DEF EditEnds, Stop, PowerFails
<1> QED
  BY <1>3, <1>4, <1>5, <1>6, <1>7, <1>8, <1>9, <1>10 DEF Next

-----------------------------------------------------------------------------
\* What can be a step of a run, or begin one.
RunsOn ==
  \/ Select \/ SourceStep \/ Update \/ Install \/ InstallDownloaded \/ Make \/ Ask \/ Skip
  \/ EditFile \/ EditGoesOn \/ EditEnds

LEMMA RunCases ==
  ASSUME Next, proc' = "run"
  PROVE  Begin("run") \/ (RunsOn /\ proc = "run" /\ UNCHANGED <<plan, env, begun>>)
<1> USE DEF rest, context, machine
<1>1. CASE \E mode \in {"run", "sim"} : Begin(mode)
  BY <1>1 DEF Begin
<1>2. CASE Mention \/ Complete \/ SimInstall \/ Panic \/ Stop \/ PowerFails \/ WorldMoves
  BY <1>2 DEF Mention, Complete, SimInstall, Panic, Stop, PowerFails, WorldMoves, At, Pass
<1>3. CASE Select \/ SourceStep \/ Update \/ Install \/ InstallDownloaded
  BY <1>3 DEF Select, SourceStep, Update, Install, InstallDownloaded, Pass, RunsOn
<1>4. CASE Make \/ Ask \/ Skip
  BY <1>4 DEF Make, Ask, Skip, Pass, RunsOn
<1>5. CASE EditFile \/ EditGoesOn \/ EditEnds
  BY <1>5 DEF EditFile, EditGoesOn, EditEnds, Pass, RunsOn
<1> QED
  BY <1>1, <1>2, <1>3, <1>4, <1>5 DEF Next

\* What the step at hand is about is of the plan.
LEMMA ArgsAre ==
  ASSUME PlanInv, todo # {}, NEW kinds, Step.kind \in kinds
  PROVE  Turn \in Does(Steps, {}, kinds) /\ Args \subseteq ArgsIn(kinds)
<1>1. Turn \in Does(Steps, {}, kinds)
  BY TurnIs DEF Does
<1>2. Args = ArgsOf(Steps[Turn])
  BY TurnIs DEF Args
<1> QED
  BY <1>1, <1>2 DEF ArgsIn

LEMMA Apart ==
  ASSUME Tidy(Steps)
  PROVE  /\ Wanted \cap Unwanted = {}
         /\ ArgsIn({"make"}) \cap ArgsIn({"join"}) = {}
         /\ ArgsIn({"join"}) = Groups
<1>1. Wanted \cap Unwanted = {}
  BY DEF Tidy, Wanted, Unwanted, ArgsIn
<1>2. ArgsIn({"make"}) \cap ArgsIn({"join"}) = {}
  BY DEF Tidy, ArgsIn
<1>3. \A i \in Does(Steps, {}, {"join"}) : ArgsOf(Steps[i]) = {Steps[i].args[1]}
  BY DEF Tidy
<1>4. Does(Steps, {}, {"join"}) = {i \in DOMAIN Steps : Steps[i].kind = "join"}
  BY DEF Does
<1>5. ArgsIn({"join"}) = {Steps[i].args[1] : i \in Does(Steps, {}, {"join"})}
  BY <1>3 DEF ArgsIn
<1>6. Groups = {Steps[i].args[1] : i \in {i \in DOMAIN Steps : Steps[i].kind = "join"}}
  BY DEF Groups, Steps
<1> QED
  BY <1>1, <1>2, <1>4, <1>5, <1>6

\* Nothing is pending, and what was is installed.
LEMMA InstallsMakes ==
  ASSUME Tidy(Steps), PackagesInv, UNCHANGED <<plan, begun>>,
         NEW also \in SUBSET Wanted, Installs(also)
  PROVE  /\ PackagesInv'
         /\ packages' # begun'.packages <=> packages # begun.packages \/ packages' # packages
<1>1. /\ packages' = (packages \ Removed) \cup Added \cup also
      /\ queued' = {} /\ begun' = begun
  BY DEF Installs
<1>2. Added' = {} /\ Removed' = {}
  BY <1>1 DEF Added, Removed
<1>3. Wanted' = Wanted /\ Unwanted' = Unwanted
  BY DEF Wanted, Unwanted, ArgsIn, Steps
<1>4. Wanted \cap Unwanted = {}
  BY Apart
<1>5. PackagesInv'
  BY <1>1, <1>2, <1>3 DEF PackagesInv
<1>6. ASSUME packages' = begun.packages
      PROVE  packages = begun.packages
  BY <1>1, <1>4, <1>6 DEF PackagesInv
<1> QED
  BY <1>1, <1>5, <1>6

LEMMA PackagesKept ==
  ASSUME PlanInv, Tidy(Steps), proc = "run" => PackagesInv, Next, proc' = "run"
  PROVE  PackagesInv'
<1> USE DEF rest, context, machine
<1>0. plan' = plan
  BY PlanSteps
<1>1. Wanted' = Wanted /\ Unwanted' = Unwanted
  BY <1>0 DEF Wanted, Unwanted, ArgsIn, Steps
<1>2. CASE Begin("run")
  <2>1. queued' = {} /\ begun'.packages = packages /\ packages' = packages
    BY <1>2 DEF Begin
  <2>2. Added' = {} /\ Removed' = {}
    BY <2>1 DEF Added, Removed
  <2> QED
    BY <2>1, <2>2 DEF PackagesInv
<1>3. ASSUME RunsOn, proc = "run", UNCHANGED begun
      PROVE  PackagesInv'
  <2>1. CASE UNCHANGED <<packages, queued>>
    <3>1. Added' = Added /\ Removed' = Removed
      BY <2>1 DEF Added, Removed
    <3> QED
      BY <1>1, <1>3, <2>1, <3>1 DEF PackagesInv
  <2>2. CASE Select
    <3>1. queued' = queued \cup Selected /\ packages' = packages /\ todo # {}
      BY <2>2 DEF Select, At, AtStep
    <3>2. \A q \in Selected : \/ q[1] = "+" /\ q[2] \in Wanted
                              \/ q[1] = "-" /\ q[2] \in Unwanted
      <4>1. Step.kind \in Selecting \cup {"deb"} => Args \subseteq Wanted
        BY <3>1, ArgsAre DEF Wanted
      <4>2. Step.kind \in {"remove"} => Args \subseteq Unwanted
        BY <3>1, ArgsAre DEF Unwanted
      <4>3. Step.kind \in Selecting \cup {"remove"}
        BY <2>2 DEF Select, At, Selecting
      <4>4. \A k \in DOMAIN Step.args : Step.args[k] \in Args
        BY DEF Args, ArgsOf
      <4>5. CASE Step.kind = "packages"
        BY <4>1, <4>5 DEF Selected, Selecting
      <4>6. CASE Step.kind = "if available"
        <5>1. Selected = {<<"+", p>> : p \in Args \cap known}
          BY <4>6 DEF Selected
        <5>2. Args \subseteq Wanted
          BY <4>1, <4>6 DEF Selecting
        <5>3. ASSUME NEW q \in Selected
              PROVE  q[1] = "+" /\ q[2] \in Wanted
          BY <5>1, <5>2
        <5> QED
          BY <5>3
      <4>7. CASE Step.kind = "first available"
        <5>1. \A q \in Selected : \E k \in DOMAIN Step.args : q = <<"+", Step.args[k]>>
          BY <4>7 DEF Selected, FirstKnown
        <5>2. Args \subseteq Wanted
          BY <4>1, <4>7 DEF Selecting
        <5>3. ASSUME NEW q \in Selected
              PROVE  q[1] = "+" /\ q[2] \in Wanted
          <6>1. PICK k \in DOMAIN Step.args : q = <<"+", Step.args[k]>>
            BY <5>1
          <6>2. Step.args[k] \in Wanted
            BY <4>4, <5>2
          <6> QED
            BY <6>1, <6>2
        <5> QED
          BY <5>3
      <4>8. CASE Step.kind = "remove"
        BY <4>2, <4>8 DEF Selected
      <4> QED
        BY <4>3, <4>5, <4>6, <4>7, <4>8 DEF Selecting
    <3>3. Added' \subseteq Wanted /\ Removed' \subseteq Unwanted
      <4>1. /\ \A q \in queued : q[1] = "+" => q[2] \in Wanted
            /\ \A q \in queued : q[1] = "-" => q[2] \in Unwanted
        BY <1>3 DEF PackagesInv, Added, Removed
      <4> QED
        BY <3>1, <3>2, <4>1 DEF Added, Removed
    <3> QED
      BY <1>1, <1>3, <3>1, <3>3 DEF PackagesInv
  <2>3. CASE Install
    <3>1. Installs({})
      BY <2>3 DEF Install
    <3> QED
      BY <1>0, <1>3, <3>1, InstallsMakes
  <2>4. CASE InstallDownloaded
    <3>1. ~UNCHANGED <<packages, queued>> => Installs(Args)
      BY <2>4 DEF InstallDownloaded
    <3>2. Args \subseteq Wanted
      BY <2>4, ArgsAre DEF InstallDownloaded, At, AtStep, Wanted
    <3> QED
      BY <1>0, <1>3, <2>1, <3>1, <3>2, InstallsMakes
  <2>5. CASE SourceStep \/ Update \/ Make \/ Ask \/ Skip
    BY <2>1, <2>5 DEF SourceStep, Update, Make, Ask, Skip
  <2>6. CASE EditFile \/ EditGoesOn \/ EditEnds
    BY <2>1, <2>6 DEF EditFile, EditGoesOn, EditEnds
  <2> QED
    BY <1>3, <2>2, <2>3, <2>4, <2>5, <2>6 DEF RunsOn
<1> QED
  BY <1>2, <1>3, RunCases

\* A step that is not the end of an edit leaves the file to the run as it was.
LEMMA BaseStays ==
  ASSUME PhaseInv, RunsOn, ~EditEnds
  PROVE  Base' = Base
<1> USE DEF rest, context, machine
<1>1. CASE Select \/ SourceStep \/ Update \/ Install \/ InstallDownloaded \/ Make \/ Ask \/ Skip
  BY <1>1 DEF Select, SourceStep, Update, Install, InstallDownloaded, Make, Ask, Skip, edit, Base
<1>2. CASE EditFile
  <2>1. phase = "idle" /\ src' = file /\ phase' = "reading"
    BY <1>2 DEF EditFile, Open
  <2> QED
    BY <2>1 DEF Base
<1>3. CASE EditGoesOn
  <2>1. src' = src /\ phase # "idle" /\ phase' # "idle"
    BY <1>3 DEF EditGoesOn, EditOn, ReadLine, ReadEOF, SyncTemp, Compare, Rename, Truncate, Write,
                Flush
  <2> QED
    BY <2>1 DEF Base
<1> QED
  BY <1>1, <1>2, <1>3 DEF RunsOn

LEMMA ToldKept ==
  ASSUME PlanInv, PhaseInv, Tidy(Steps), proc = "run" => PackagesInv /\ ToldInv,
         Next, proc' = "run"
  PROVE  ToldInv'
<1> USE DEF rest, context, machine
<1>1. CASE Begin("run")
  <2>1. /\ begun' = [packages |-> packages, made |-> made, file |-> file] /\ ~reboot'
        /\ UNCHANGED <<packages, made, file, phase>> /\ proc # "run"
    BY <1>1 DEF Begin, edit
  <2>2. phase = "idle" /\ phase' = "idle"
    BY <2>1 DEF PhaseInv
  <2>3. /\ begun'.packages = packages' /\ begun'.made = made' /\ begun'.file = Base'
    BY <2>1, <2>2 DEF Base
  <2> QED
    BY <2>1, <2>3 DEF ToldInv, Changed
<1>2. ASSUME RunsOn, proc = "run", UNCHANGED <<plan, env, begun>>
      PROVE  ToldInv'
  <2>1. ToldInv /\ PackagesInv
    BY <1>2
  <2>2. /\ Steps' = Steps /\ Groups' = Groups /\ OneEdit(Steps)' = OneEdit(Steps)
        /\ Does(Steps, {}, {"edit"})' = Does(Steps, {}, {"edit"})
    BY <1>2 DEF Steps, Groups
  <2>3. CASE EditEnds
    <3>1. /\ UNCHANGED <<packages, made, file>> /\ todo' = todo \ {Turn} /\ phase' = "idle"
          /\ reboot' <=> reboot \/ phase = "changed"
          /\ phase \in {"kept", "changed"}
      BY <2>3 DEF EditEnds, Pass
    <3>2. Base' = file /\ Base = src
      BY <3>1 DEF Base
    <3>3. /\ phase = "kept" => file = src
          /\ phase = "changed" => file # src
          /\ todo # {} /\ Step.kind = "edit"
      BY <3>1 DEF PhaseInv
    <3>4. Turn \in todo /\ Turn \in Does(Steps, {}, {"edit"})
      BY <3>3, ArgsAre, TurnIs
    <3>5. OneEdit(Steps) =>
            Base = begun.file /\ todo' \cap Does(Steps, {}, {"edit"}) = {}
      BY <2>1, <3>1, <3>4 DEF ToldInv, OneEdit
    <3>6. CASE phase = "kept"
      <4>1. Base' = Base /\ (reboot' <=> reboot)
        BY <3>1, <3>2, <3>3, <3>6
      <4>2. Changed' = Changed
        BY <1>2, <2>2, <3>1, <4>1 DEF Changed
      <4> QED
        BY <1>2, <2>1, <2>2, <3>1, <3>5, <4>1, <4>2 DEF ToldInv
    <3>7. CASE phase = "changed"
      <4>1. reboot' /\ (OneEdit(Steps) => Base' # begun'.file)
        BY <1>2, <3>1, <3>2, <3>3, <3>5, <3>7
      <4>2. OneEdit(Steps) => Changed'
        BY <4>1 DEF Changed
      <4> QED
        BY <1>2, <2>1, <2>2, <3>1, <3>5, <4>1, <4>2 DEF ToldInv
    <3> QED
      BY <3>1, <3>6, <3>7
  <2>4. ASSUME ~EditEnds, todo' \subseteq todo, begun.made \subseteq made',
               NEW does \in BOOLEAN, reboot' <=> reboot \/ does,
               (packages' # begun.packages \/ (made' \ begun.made) \cap Groups # {})
                 <=> (packages # begun.packages \/ (made \ begun.made) \cap Groups # {} \/ does)
        PROVE  ToldInv'
    <3>1. Base' = Base
      BY <1>2, <2>4, BaseStays
    <3>2. Changed' <=> Changed \/ does
      BY <1>2, <2>2, <2>4, <3>1 DEF Changed
    <3> QED
      BY <1>2, <2>1, <2>2, <2>4, <3>1, <3>2 DEF ToldInv
  <2>5. CASE UNCHANGED <<packages, made, reboot>> /\ ~EditEnds /\ todo' \subseteq todo
    BY <2>1, <2>4, <2>5 DEF ToldInv
  <2>6. CASE Select \/ SourceStep \/ Update \/ Ask \/ Skip
    BY <2>5, <2>6, <2>3 DEF Select, SourceStep, Update, Ask, Skip, Pass
  <2>7. CASE EditFile \/ EditGoesOn
    BY <2>5, <2>7, <2>3 DEF EditFile, EditGoesOn
  <2>8. ASSUME NEW also \in SUBSET Wanted, Installs(also), made' = made, todo' \subseteq todo,
               ~EditEnds
        PROVE  ToldInv'
    <3>1. reboot' <=> reboot \/ packages' # packages
      BY <2>8 DEF Installs
    <3>2. packages' # begun'.packages <=> packages # begun.packages \/ packages' # packages
      BY <1>2, <2>1, <2>8, InstallsMakes
    <3>3. PICK does \in BOOLEAN : does <=> packages' # packages
      OBVIOUS
    <3>4. reboot' <=> reboot \/ does
      BY <3>1, <3>3
    <3>5. (packages' # begun.packages \/ (made' \ begun.made) \cap Groups # {})
            <=> (packages # begun.packages \/ (made \ begun.made) \cap Groups # {} \/ does)
      BY <1>2, <2>8, <3>2, <3>3
    <3> QED
      BY <2>1, <2>4, <2>8, <3>4, <3>5 DEF ToldInv
  <2>9. CASE Install
    <3>1. Installs({}) /\ made' = made /\ todo' \subseteq todo
      BY <2>9 DEF Install, Pass
    <3> QED
      BY <2>3, <2>8, <3>1
  <2>10. CASE InstallDownloaded
    <3>1. /\ UNCHANGED <<packages, queued, reboot>> \/ Installs(Args)
          /\ made' = made /\ todo' \subseteq todo
      BY <2>10 DEF InstallDownloaded, Pass
    <3>2. Args \subseteq Wanted
      BY <2>10, ArgsAre DEF InstallDownloaded, At, AtStep, Wanted
    <3> QED
      BY <2>3, <2>5, <2>8, <3>1, <3>2
  <2>11. CASE Make
    <3>1. /\ todo # {} /\ Step.kind \in {"make", "join"} /\ packages' = packages
          /\ made' = made \cup Args /\ todo' \subseteq todo
          /\ reboot' <=> reboot \/ (Step.kind = "join" /\ ~(Args \subseteq made))
      BY <1>2, <2>11 DEF Make, At, AtStep, Pass
    <3>2. Step.kind = "make" => Args \cap Groups = {}
      BY <3>1, ArgsAre, Apart
    <3>3. Step.kind = "join" => Args \subseteq Groups
      BY <3>1, ArgsAre, Apart
    <3>4. (made' \ begun.made) \cap Groups # {} <=>
            \/ (made \ begun.made) \cap Groups # {}
            \/ Step.kind = "join" /\ ~(Args \subseteq made)
      BY <2>1, <3>1, <3>2, <3>3 DEF ToldInv
    <3>5. PICK does \in BOOLEAN : does <=> Step.kind = "join" /\ ~(Args \subseteq made)
      OBVIOUS
    <3>6. reboot' <=> reboot \/ does
      BY <3>1, <3>5
    <3>7. (packages' # begun.packages \/ (made' \ begun.made) \cap Groups # {})
            <=> (packages # begun.packages \/ (made \ begun.made) \cap Groups # {} \/ does)
      BY <3>1, <3>4, <3>5
    <3> QED
      BY <2>1, <2>3, <2>4, <3>1, <3>6, <3>7 DEF ToldInv
  <2> QED
    BY <1>2, <2>3, <2>6, <2>7, <2>9, <2>10, <2>11 DEF RunsOn
<1> QED
  BY <1>1, <1>2, RunCases

-----------------------------------------------------------------------------
(***************************************************************************)
(* An editor that has edited a text leaves it as it is.                    *)
(***************************************************************************)
LEMMA AppendToldTwice ==
  ASSUME NEW e, IsEditor(e), e.kind = "append", NEW text \in Seq(Lines)
  PROVE  AppendTold(e, AppendTold(e, text)) = AppendTold(e, text)
<1> DEFINE wanted == e.old \cup {Trim(e.line)}
           at == Places(text, wanted)
           new == AppendTold(e, text)
           again == Places(new, wanted)
<1>0. e.line \in Lines /\ Len(text) \in Nat
  BY LenProperties DEF IsEditor
<1>1. at = {i \in 1 .. Len(text) : Trim(text[i]) \in wanted}
  BY PlacesAre
<1>5. \A i \in Int : i \in at <=> i \in 1 .. Len(text) /\ Trim(text[i]) \in wanted
  BY <1>0, <1>1
<1>6. at \in SUBSET Nat /\ Trim(e.line) \in wanted
  <2>1. Trim(e.line) \in wanted
    OBVIOUS
  <2> HIDE DEF at, wanted
  <2> QED
    BY <1>0, <1>1, <2>1
<1>2. SUFFICES ASSUME new \in Seq(Lines), NEW p \in again, \A i \in again : p <= i,
                      Trim(new[p]) = Trim(e.line)
               PROVE  AppendTold(e, new) = new
  <2>1. CASE at = {}
    <3>1. new = Append(text, e.line)
      BY <2>1 DEF AppendTold
    <3>2. /\ new \in Seq(Lines) /\ Len(new) = Len(text) + 1
          /\ \A i \in 1 .. Len(text) : new[i] = text[i]
          /\ new[Len(text) + 1] = e.line
      BY <1>0, <3>1, AppendProperties
    <3> HIDE DEF new
    <3>3. again = {i \in 1 .. Len(new) : Trim(new[i]) \in wanted}
      BY <3>2, PlacesAre
    <3> HIDE DEF again, at, wanted
    <3>4. Len(text) + 1 \in again /\ \A i \in again : Len(text) + 1 <= i
      BY <1>0, <1>5, <1>6, <2>1, <3>2, <3>3
    <3> QED
      BY <1>2, <3>2, <3>4 DEF new, again
  <2>2. CASE at # {}
    <3>1. First(at) \in at /\ \A j \in at : First(at) <= j
      BY <1>6, <2>2, FirstIn
    <3>2. PICK f \in at : f = First(at)
      BY <3>1
    <3>3. CASE Trim(text[f]) = Trim(e.line)
      <4>1. new = text
        BY <2>2, <3>2, <3>3 DEF AppendTold
      <4> QED
        BY <4>1, <1>2, <3>1, <3>2, <3>3
    <3>4. CASE Trim(text[f]) # Trim(e.line)
      <4>1. new = [text EXCEPT ![f] = e.line]
        BY <2>2, <3>2, <3>4 DEF AppendTold
      <4>6. f \in 1 .. Len(text)
        BY <1>1
      <4>2. /\ new \in Seq(Lines) /\ Len(new) = Len(text)
            /\ \A i \in 1 .. Len(text) : new[i] = IF i = f THEN e.line ELSE text[i]
        <5> HIDE DEF new, at
        <5> QED
          BY <1>0, <4>1, <4>6, ExceptSeq
      <4> HIDE DEF new
      <4>3. again = {i \in 1 .. Len(new) : Trim(new[i]) \in wanted}
        BY <4>2, PlacesAre
      <4> HIDE DEF again, at, wanted
      <4>4. f \in again /\ \A i \in again : f <= i
        BY <1>0, <1>5, <1>6, <3>1, <3>2, <4>2, <4>3, <4>6
      <4>5. Trim(new[f]) = Trim(e.line)
        BY <4>6, <4>2
      <4> QED
        BY <1>2, <4>2, <4>4, <4>5 DEF new, again
    <3> QED
      BY <3>3, <3>4
  <2> QED
    BY <2>1, <2>2
<1> HIDE DEF new
<1>3. again = {i \in 1 .. Len(new) : Trim(new[i]) \in wanted}
  BY <1>2, PlacesAre
<1>4. First(again) = p
  <2>1. Len(new) \in Nat
    BY <1>2, LenProperties
  <2> HIDE DEF again, wanted
  <2>2. again \in SUBSET Int
    BY <1>3, <2>1
  <2> QED
    BY <1>2, <2>2, FirstIs
<1> QED
  BY <1>2, <1>4 DEF AppendTold

\* Lines above a line are lines before it.
LEMMA LineAbove ==
  ASSUME NEW n \in Nat, NEW l \in Nat, NEW f \in 1 .. n, NEW i \in 1 .. n, i <= f,
         NEW j \in 1 .. l, l <= i - 1
  PROVE  (i - 1) - l + j \in 1 .. n /\ (i - 1) - l + j < f
OBVIOUS

LEMMA ReplaceToldTwice ==
  ASSUME NEW e, IsEditor(e), e.kind = "replace", NEW text \in Seq(Lines)
  PROVE  ReplaceTold(e, ReplaceTold(e, text)) = ReplaceTold(e, text)
<1> DEFINE at == ReplacePlaces(e, text)
           new == ReplaceTold(e, text)
           again == ReplacePlaces(e, new)
<1>0. e.new \in Lines /\ Len(text) \in Nat /\ Len(e.previous) \in Nat
  BY LenProperties DEF IsEditor
<1>1. at = {i \in 1 .. Len(text) : Trim(text[i]) \in {Trim(e.old), Trim(e.new)} /\ Follows(e, text, i)}
  BY PlacesAre DEF ReplacePlaces
<1>2. CASE at = {} \/ Trim(text[First(at)]) # Trim(e.old)
  BY <1>2 DEF ReplaceTold, ReplacePlaces
<1>3. CASE at # {} /\ Trim(text[First(at)]) = Trim(e.old)
  <2>1. First(at) \in at /\ \A j \in at : First(at) <= j
    <3>1. at \in SUBSET Nat
      BY <1>1
    <3> QED
      BY <1>3, <3>1, FirstIn
  <2>2. PICK f \in at : f = First(at)
    BY <2>1
  <2>3. new = [text EXCEPT ![f] = e.new]
    BY <1>3, <2>2 DEF ReplaceTold, ReplacePlaces
  <2>4. /\ new \in Seq(Lines) /\ Len(new) = Len(text)
        /\ \A i \in 1 .. Len(text) : new[i] = IF i = f THEN e.new ELSE text[i]
    BY <1>0, <1>1, <2>3, ExceptSeq
  <2> HIDE DEF new
  <2>5. again = {i \in 1 .. Len(new) : Trim(new[i]) \in {Trim(e.old), Trim(e.new)}
                                        /\ Follows(e, new, i)}
    BY <2>4, PlacesAre DEF ReplacePlaces
  <2>6. ASSUME NEW i \in 1 .. Len(text), i <= f
        PROVE  Follows(e, new, i) <=> Follows(e, text, i)
    <3>1. ASSUME NEW j \in 1 .. Len(e.previous), Len(e.previous) <= i - 1
          PROVE  new[(i - 1) - Len(e.previous) + j] = text[(i - 1) - Len(e.previous) + j]
      <4>0. f \in 1 .. Len(text)
        BY <1>1
      <4> HIDE DEF at
      <4>1. PICK l \in Nat : l = Len(e.previous)
        BY <1>0
      <4>2. PICK k \in 1 .. Len(text) : k = (i - 1) - l + j /\ k < f
        <5>1. Len(text) \in Nat /\ l <= i - 1 /\ i <= f
          BY <1>0, <2>6, <3>1, <4>1
        <5>2. j \in 1 .. l
          BY <4>1
        <5> QED
          BY <4>0, <5>1, <5>2, LineAbove
      <4>4. new[k] = text[k]
        BY <2>4, <4>0, <4>2
      <4> QED
        BY <4>1, <4>2, <4>4
    <3> QED
      BY <3>1 DEF Follows, Matches
  <2>7. f \in again
    BY <1>1, <2>4, <2>5, <2>6
  <2>8. ASSUME NEW i \in again, i < f
        PROVE  FALSE
    <3>1. i \in 1 .. Len(text) /\ new[i] = text[i]
      BY <2>4, <2>5, <2>8, <1>1
    <3>2. i \in at
      BY <1>1, <2>5, <2>6, <2>8, <3>1
    <3> QED
      BY <1>1, <2>1, <2>2, <2>8, <3>1, <3>2
  <2>9. First(again) = f
    <3>1. again \in SUBSET Int /\ f \in Int
      BY <1>1, <2>5
    <3>2. \A i \in again : f <= i
      BY <2>8, <3>1
    <3> QED
      BY <2>7, <3>1, <3>2, FirstIs
  <2>10. new[f] = e.new
    BY <1>1, <2>4
  <2>11. [new EXCEPT ![f] = e.new] = new
    BY <2>4, <2>10
  <2>12. ReplaceTold(e, new) = new
    BY <2>9, <2>11 DEF ReplaceTold, ReplacePlaces
  <2> QED
    BY <2>12 DEF new
<1> QED
  BY <1>2, <1>3

\* What is between the first start marker and the end marker is replaced by itself.
LEMMA SplicedTwice ==
  ASSUME NEW e, IsEditor(e), e.kind = "splice", Plain(e),
         NEW front \in Seq(Lines), NEW back \in Seq(Lines),
         \A i \in DOMAIN front : Trim(front[i]) # Trim(e.start)
  PROVE  SpliceTold(e, (front \o Spliced(e)) \o back) = (front \o Spliced(e)) \o back
<1> DEFINE block == Spliced(e)
           ahead == front \o block
           whole == ahead \o back
           f == Len(front)
           c == Len(e.content)
<1>0. /\ e.content \in Seq(Lines) /\ e.start \in Lines /\ e.end \in Lines
      /\ f \in Nat /\ c \in Nat /\ Len(back) \in Nat
      /\ \A k \in 1 .. c : Trim(e.content[k]) # Trim(e.end)
  BY LenProperties DEF IsEditor, Plain
<1>11. f = Len(front) /\ c = Len(e.content) /\ DOMAIN front = 1 .. f
  BY LenProperties
<1>1. /\ block \in Seq(Lines) /\ Len(block) = c + 2 /\ block[1] = e.start /\ block[c + 2] = e.end
      /\ \A k \in 1 .. c : block[k + 1] = e.content[k]
  <2>1. <<e.start>> \in Seq(Lines) /\ <<e.end>> \in Seq(Lines)
    BY <1>0
  <2> DEFINE some == <<e.start>> \o e.content
  <2>2. /\ some \in Seq(Lines) /\ Len(some) = c + 1 /\ some[1] = e.start
        /\ \A k \in 1 .. c : some[k + 1] = e.content[k]
    <3>1. /\ some \in Seq(Lines) /\ Len(some) = 1 + c
          /\ \A i \in 1 .. 1 + c : some[i] = IF i <= 1 THEN <<e.start>>[i] ELSE e.content[i - 1]
      BY <1>0, <2>1, ConcatProperties
    <3> QED
      BY <1>0, <3>1
  <2> HIDE DEF some
  <2>3. /\ some \o <<e.end>> \in Seq(Lines) /\ Len(some \o <<e.end>>) = c + 1 + 1
        /\ \A i \in 1 .. c + 1 + 1 :
             (some \o <<e.end>>)[i] = IF i <= c + 1 THEN some[i] ELSE <<e.end>>[i - (c + 1)]
    BY <2>1, <2>2, ConcatProperties
  <2>4. block = some \o <<e.end>>
    BY DEF Spliced, some
  <2> HIDE DEF block, c
  <2>5. /\ block \in Seq(Lines) /\ Len(block) = c + 2
        /\ \A i \in 1 .. c + 1 : block[i] = some[i]
        /\ block[c + 2] = e.end
    <3>1. c + 1 + 1 = c + 2 /\ c + 2 \in 1 .. c + 2 /\ (c + 2) - (c + 1) = 1 /\ ~(c + 2 <= c + 1)
      BY <1>0
    <3>2. block[c + 2] = <<e.end>>[(c + 2) - (c + 1)]
      BY <2>3, <2>4, <3>1
    <3>3. \A i \in 1 .. c + 1 : i \in 1 .. c + 1 + 1 /\ i <= c + 1
      BY <1>0
    <3> QED
      BY <2>3, <2>4, <3>1, <3>2, <3>3
  <2> QED
    <3>1. 1 \in 1 .. c + 1 /\ \A k \in 1 .. c : k + 1 \in 1 .. c + 1
      BY <1>0
    <3> QED
      BY <2>2, <2>5, <3>1
<1> HIDE DEF block, f, c
<1>2. /\ ahead \in Seq(Lines) /\ Len(ahead) = f + (c + 2)
      /\ \A i \in 1 .. f + (c + 2) : ahead[i] = IF i <= f THEN front[i] ELSE block[i - f]
  <2>1. /\ ahead \in Seq(Lines) /\ Len(ahead) = Len(front) + Len(block)
        /\ \A i \in 1 .. Len(front) + Len(block) :
             ahead[i] = IF i <= Len(front) THEN front[i] ELSE block[i - Len(front)]
    BY <1>1, ConcatProperties
  <2> HIDE DEF ahead
  <2> QED
    BY <1>1, <1>11, <2>1
<1> HIDE DEF ahead
<1>4. /\ whole \in Seq(Lines) /\ Len(whole) = f + c + 2 + Len(back)
      /\ \A i \in 1 .. f + c + 2 + Len(back) :
           whole[i] = IF i <= f + c + 2 THEN ahead[i] ELSE back[i - (f + c + 2)]
  <2>1. /\ whole \in Seq(Lines) /\ Len(whole) = Len(ahead) + Len(back)
        /\ \A i \in 1 .. Len(ahead) + Len(back) :
             whole[i] = IF i <= Len(ahead) THEN ahead[i] ELSE back[i - Len(ahead)]
    BY <1>2, ConcatProperties
  <2> QED
    BY <1>0, <1>2, <2>1
<1> HIDE DEF whole
<1>5. /\ \A i \in 1 .. f : whole[i] = front[i]
      /\ whole[f + 1] = e.start
      /\ \A k \in 1 .. c : whole[f + 1 + k] = e.content[k]
      /\ whole[f + c + 2] = e.end
      /\ \A k \in 1 .. Len(back) : whole[f + c + 2 + k] = back[k]
  <2>1. ASSUME NEW i \in 1 .. f PROVE whole[i] = front[i]
    <3>1. /\ i \in 1 .. f + c + 2 + Len(back) /\ i \in 1 .. f + (c + 2)
          /\ i <= f + c + 2 /\ i <= f
      BY <1>0
    <3> QED
      BY <1>2, <1>4, <3>1
  <2>2. whole[f + 1] = e.start
    <3>1. whole[f + 1] = block[(f + 1) - f] /\ (f + 1) - f = 1
      BY <1>0, <1>2, <1>4
    <3> QED
      BY <1>1, <3>1
  <2>3. ASSUME NEW k \in 1 .. c PROVE whole[f + 1 + k] = e.content[k]
    <3>0. f + 1 + k \in 1 .. f + c + 2 /\ f + 1 + k > f /\ (f + 1 + k) - f = k + 1
      BY <1>0
    <3>1. whole[f + 1 + k] = block[(f + 1 + k) - f] /\ (f + 1 + k) - f = k + 1
      BY <1>0, <1>2, <1>4, <3>0
    <3> QED
      BY <1>1, <3>1
  <2>4. whole[f + c + 2] = e.end
    <3>1. whole[f + c + 2] = block[(f + c + 2) - f] /\ (f + c + 2) - f = c + 2
      BY <1>0, <1>2, <1>4
    <3> QED
      BY <1>1, <3>1
  <2>5. ASSUME NEW k \in 1 .. Len(back) PROVE whole[f + c + 2 + k] = back[k]
    <3>1. whole[f + c + 2 + k] = back[(f + c + 2 + k) - (f + c + 2)]
          /\ (f + c + 2 + k) - (f + c + 2) = k
      BY <1>0, <1>4
    <3> QED
      BY <3>1
  <2> QED
    BY <2>1, <2>2, <2>3, <2>4, <2>5
<1> DEFINE starts == Places(whole, {Trim(e.start)})
           ends == {j \in Places(whole, {Trim(e.end)}) : j > First(starts)}
<1>6. First(starts) = f + 1 /\ f + 1 \in starts
  <2>1. starts = {i \in 1 .. Len(whole) : Trim(whole[i]) \in {Trim(e.start)}}
    BY <1>4, PlacesAre
  <2> HIDE DEF starts
  <2>2. f + 1 \in starts
    BY <1>0, <1>4, <1>5, <2>1
  <2>3. \A i \in 1 .. f : i \notin starts
    BY <1>5, <1>11, <2>1
  <2>4. \A i \in starts : f + 1 <= i
    BY <1>0, <1>4, <2>1, <2>3
  <2> QED
    <3>1. Len(whole) \in Nat
      BY <1>0, <1>4
    <3>2. starts \in SUBSET Int
      BY <2>1, <3>1
    <3> QED
      BY <2>2, <2>4, <3>2, FirstIs
<1>7. First(ends) = f + c + 2 /\ f + c + 2 \in ends
  <2>1. ends = {i \in 1 .. Len(whole) : Trim(whole[i]) \in {Trim(e.end)} /\ i > f + 1}
    BY <1>4, <1>6, PlacesAre
  <2> HIDE DEF ends
  <2>2. f + c + 2 \in ends
    BY <1>0, <1>4, <1>5, <2>1
  <2>3. ASSUME NEW i \in ends, i < f + c + 2 PROVE FALSE
    <3>1. i - (f + 1) \in 1 .. c /\ f + 1 + (i - (f + 1)) = i
      BY <1>0, <1>4, <2>1, <2>3
    <3>2. whole[i] = e.content[i - (f + 1)]
      BY <1>5, <3>1
    <3> QED
      BY <1>0, <2>1, <3>1, <3>2
  <2>4. \A i \in ends : f + c + 2 <= i
    BY <1>0, <1>4, <2>1, <2>3
  <2> QED
    <3>1. Len(whole) \in Nat
      BY <1>0, <1>4
    <3>2. ends \in SUBSET Int
      BY <2>1, <3>1
    <3> QED
      BY <2>2, <2>4, <3>2, FirstIs
<1>8. SubSeq(whole, 1, First(starts) - 1) = front
  <2>1. First(starts) - 1 = f
    BY <1>0, <1>6
  <2> DEFINE part == SubSeq(whole, 1, f)
  <2>2. \A i \in 1 .. f : whole[i] \in Lines
    BY <1>5, <1>11, ElementOfSeq
  <2>3. /\ part \in Seq(Lines) /\ Len(part) = (IF 1 <= f THEN f - 1 + 1 ELSE 0)
        /\ \A i \in 1 .. f - 1 + 1 : part[i] = whole[1 + i - 1]
    BY <1>0, <2>2, SubSeqProperties
  <2> HIDE DEF part
  <2>4. Len(part) = f /\ \A i \in 1 .. f : part[i] = front[i]
    BY <1>0, <1>5, <2>3
  <2>5. part = front
    BY <1>11, <2>3, <2>4, SeqEqual
  <2> QED
    BY <2>1, <2>5 DEF part
<1>9. SubSeq(whole, First(ends) + 1, Len(whole)) = back
  <2> DEFINE m == f + c + 2
             part == SubSeq(whole, m + 1, Len(whole))
  <2>1. m \in Nat /\ Len(whole) = m + Len(back)
    BY <1>0, <1>4
  <2>2. \A k \in 1 .. Len(back) : whole[m + k] = back[k]
    BY <1>5
  <2>3. First(ends) = m
    BY <1>7
  <2> HIDE DEF m
  <2>4. \A i \in m + 1 .. Len(whole) : whole[i] \in Lines
    BY <1>4, <2>1, ElementOfSeq
  <2>5. /\ part \in Seq(Lines)
        /\ Len(part) = (IF m + 1 <= Len(whole) THEN Len(whole) - (m + 1) + 1 ELSE 0)
        /\ \A i \in 1 .. Len(whole) - (m + 1) + 1 : part[i] = whole[(m + 1) + i - 1]
    BY <1>0, <2>1, <2>4, SubSeqProperties
  <2> HIDE DEF part
  <2>6. Len(part) = Len(back)
    BY <1>0, <2>1, <2>5
  <2>7. ASSUME NEW i \in 1 .. Len(back) PROVE part[i] = back[i]
    <3>1. part[i] = whole[(m + 1) + i - 1] /\ (m + 1) + i - 1 = m + i
      BY <1>0, <2>1, <2>5
    <3> QED
      BY <2>2, <3>1
  <2>8. part = back
    BY <2>5, <2>6, <2>7, SeqEqual
  <2> QED
    BY <2>3, <2>8 DEF part
<1>10. SpliceTold(e, whole) = (front \o block) \o back
  <2>1. starts # {} /\ ends # {}
    BY <1>6, <1>7
  <2>2. SpliceTold(e, whole) = SubSeq(whole, 1, First(starts) - 1) \o Spliced(e)
                                 \o SubSeq(whole, First(ends) + 1, Len(whole))
    BY <2>1 DEF SpliceTold
  <2> QED
    BY <1>8, <1>9, <2>2 DEF block
<1> QED
  BY <1>10 DEF whole, ahead, block

LEMMA SpliceToldTwice ==
  ASSUME NEW e, IsEditor(e), e.kind = "splice", Plain(e), NEW text \in Seq(Lines)
  PROVE  SpliceTold(e, SpliceTold(e, text)) = SpliceTold(e, text)
<1> DEFINE starts == Places(text, {Trim(e.start)})
           ends == {j \in Places(text, {Trim(e.end)}) : j > First(starts)}
           front == SubSeq(text, 1, First(starts) - 1)
           back == SubSeq(text, First(ends) + 1, Len(text))
<1>0. Len(text) \in Nat /\ <<>> \in Seq(Lines) /\ Spliced(e) \in Seq(Lines)
  BY LenProperties, SplicedIsText
<1>1. starts = {i \in 1 .. Len(text) : Trim(text[i]) = Trim(e.start)}
  BY PlacesAre
<1>2. CASE starts = {}
  <2>1. SpliceTold(e, text) = text \o Spliced(e)
    BY <1>2 DEF SpliceTold
  <2>2. text \o Spliced(e) = (text \o Spliced(e)) \o <<>>
    BY <1>0, ConcatProperties, ConcatEmptySeq
  <2>3. \A i \in DOMAIN text : Trim(text[i]) # Trim(e.start)
    BY <1>1, <1>2, LenProperties
  <2>4. SpliceTold(e, (text \o Spliced(e)) \o <<>>) = (text \o Spliced(e)) \o <<>>
    BY <1>0, <2>3, SplicedTwice
  <2> QED
    BY <2>1, <2>2, <2>4
<1>3. CASE starts # {}
  <2>1. First(starts) \in 1 .. Len(text) /\ \A j \in starts : First(starts) <= j
    <3>1. starts \in SUBSET Nat
      <4> HIDE DEF starts
      <4> QED
        BY <1>0, <1>1
    <3>2. First(starts) \in starts /\ \A j \in starts : First(starts) <= j
      BY <1>3, <3>1, FirstIn
    <3> QED
      BY <1>1, <3>2
  <2>2. PICK f \in 1 .. Len(text) : f = First(starts)
    BY <2>1
  <2>3. front \in Seq(Lines) /\ \A i \in DOMAIN front : Trim(front[i]) # Trim(e.start)
    <3>1. \A i \in 1 .. f - 1 : text[i] \in Lines
      BY <1>0, ElementOfSeq
    <3>2. front = SubSeq(text, 1, f - 1)
      BY <2>2
    <3> HIDE DEF front
    <3>3. /\ front \in Seq(Lines)
          /\ Len(front) = (IF 1 <= f - 1 THEN f - 1 - 1 + 1 ELSE 0)
          /\ \A i \in 1 .. f - 1 - 1 + 1 : front[i] = text[1 + i - 1]
      BY <1>0, <3>1, <3>2, SubSeqProperties
    <3>4. DOMAIN front = 1 .. Len(front)
      BY <3>3, LenProperties
    <3>5. ASSUME NEW i \in DOMAIN front PROVE Trim(front[i]) # Trim(e.start)
      <4>1. i \in 1 .. f - 1 /\ front[i] = text[i]
        BY <3>3, <3>4
      <4>2. i \in 1 .. Len(text) /\ i < f
        BY <1>0, <4>1
      <4>3. i \notin starts
        <5> HIDE DEF starts
        <5> QED
          BY <1>0, <2>1, <2>2, <4>2
      <4> QED
        BY <1>1, <4>1, <4>2, <4>3
    <3> QED
      BY <3>3, <3>5
  <2> HIDE DEF front
  <2>4. CASE ends = {}
    <3>1. SpliceTold(e, text) = front \o Spliced(e)
      BY <1>3, <2>4 DEF SpliceTold, front
    <3>2. front \o Spliced(e) = (front \o Spliced(e)) \o <<>>
      BY <1>0, <2>3, ConcatProperties, ConcatEmptySeq
    <3>3. SpliceTold(e, (front \o Spliced(e)) \o <<>>) = (front \o Spliced(e)) \o <<>>
      BY <1>0, <2>3, SplicedTwice
    <3> QED
      BY <3>1, <3>2, <3>3
  <2>5. CASE ends # {}
    <3>1. SpliceTold(e, text) = (front \o Spliced(e)) \o back
      BY <1>3, <2>5 DEF SpliceTold, front
    <3>2. back \in Seq(Lines)
      <4>1. ends = {j \in 1 .. Len(text) : Trim(text[j]) \in {Trim(e.end)} /\ j > First(starts)}
        BY PlacesAre
      <4>2. ends \in SUBSET Nat /\ ends \subseteq 1 .. Len(text)
        <5> HIDE DEF ends
        <5> QED
          BY <1>0, <4>1
      <4>3. First(ends) \in 1 .. Len(text)
        BY <2>5, <4>2, FirstIn
      <4>4. First(ends) + 1 \in Nat \ {0} /\ Len(text) \in Int /\ Len(text) <= Len(text)
        BY <1>0, <4>3
      <4> HIDE DEF ends
      <4> QED
        BY <4>4, PartsAreTexts
    <3> HIDE DEF back
    <3>3. SpliceTold(e, (front \o Spliced(e)) \o back) = (front \o Spliced(e)) \o back
      BY <2>3, <3>2, SplicedTwice
    <3> QED
      BY <3>1, <3>3
  <2> QED
    BY <2>4, <2>5
<1> QED
  BY <1>2, <1>3

LEMMA ToldTwice ==
  ASSUME NEW e, IsEditor(e), Plain(e), NEW text \in Seq(Lines)
  PROVE  Told(e, Told(e, text)) = Told(e, text)
<1>1. CASE e.kind = "append"
  BY <1>1, AppendToldTwice DEF Told
<1>2. CASE e.kind = "splice"
  BY <1>2, SpliceToldTwice DEF Told
<1>3. CASE e.kind = "replace"
  BY <1>3, ReplaceToldTwice DEF Told
<1> QED
  BY <1>1, <1>2, <1>3 DEF IsEditor

-----------------------------------------------------------------------------
\* What no step takes back, of a plan that is tidy.
Keeps ==
  /\ UNCHANGED <<plan, env>>
  /\ \A x \in Wanted : x \in packages => x \in packages'
  /\ \A x \in Wanted : x \in packages \cup Added => x \in packages' \cup Added'
  /\ \A x \in Unwanted : x \in packages' => x \in Removed' \/ (x \in packages /\ x \notin Removed)
  /\ \A s \in Sources : lists[s] = "whole" => lists'[s] = "whole"
  /\ keys \subseteq keys' /\ made \subseteq made'
  /\ \A p \in Prompts : conf[p] = "good" => conf'[p] = "good"
  /\ dirty # "unset" => dirty' # "unset"

LEMMA AchievedStays ==
  ASSUME PlanInv, Keeps, NEW i \in DOMAIN Steps, Achieved(Steps[i]),
         Steps[i].kind \in {"if available", "first available"} => known' = known,
         Steps[i].kind = "edit" /\ OneEdit(Steps) => file' = file
  PROVE  Achieved(Steps[i])'
<1> DEFINE step == Steps[i]
           args == ArgsOf(step)
<1>1. Steps' = Steps /\ plan \in DOMAIN Plans
  BY DEF Keeps, Steps, PlanInv
<1>2. /\ step.kind = "source" => args \subseteq Sources
      /\ step.kind = "ask" => args \subseteq Prompts
  BY <1>1, StepsAssumption DEF Steps
<1>3. /\ step.kind \in Selecting \cup {"deb"} => args \subseteq Wanted
      /\ step.kind = "remove" => args \subseteq Unwanted
  BY DEF Wanted, Unwanted, ArgsIn, Does
<1>4. /\ step.kind = "packages" => args \subseteq packages' \cup Added'
      /\ step.kind = "if available" => args \cap known' \subseteq packages' \cup Added'
      /\ step.kind = "first available" => args \cap (packages' \cup Added') # {}
  BY <1>3 DEF Achieved, Keeps, Selecting
<1>10. step.kind = "first available" => FirstKnown(Steps[i])' \subseteq packages' \cup Added'
  <2>1. ASSUME step.kind = "first available"
        PROVE  FirstKnown(Steps[i])' \subseteq packages' \cup Added'
    <3>1. FirstKnown(step) \subseteq packages \cup Added /\ FirstKnown(step) \subseteq args
      BY <2>1 DEF Achieved, FirstKnown, ArgsOf
    <3>3. FirstKnown(Steps[i])' = FirstKnown(step)
      BY <1>1, <2>1 DEF FirstKnown
    <3> QED
      BY <1>3, <2>1, <3>1, <3>3 DEF Keeps, Selecting
  <2> QED
    BY <2>1
<1>5. step.kind = "remove" => args \cap packages' \subseteq Removed'
  BY <1>3 DEF Achieved, Keeps
<1>6. step.kind = "deb" => args \subseteq packages'
  BY <1>3 DEF Achieved, Keeps
<1>7. /\ step.kind = "source" => \A s \in args : lists'[s] = "whole" /\ KeyOf[s] \in keys'
      /\ step.kind = "ask" => \A p \in args \cap Checked : conf'[p] = "good"
  BY <1>2 DEF Achieved, Keeps
<1>8. /\ step.kind \in {"make", "join"} => args \subseteq made'
      /\ step.kind = "update" => dirty' # "unset"
  BY DEF Achieved, Keeps
<1>9. step.kind = "edit" /\ OneEdit(Steps) /\ PlainEdits(Steps) =>
        AsTold(Editors[step.args[1]], file', file')
  BY DEF Achieved
<1> HIDE DEF step, args
<1> QED
  <2>1. Steps'[i] = step
    BY <1>1 DEF step
  <2> QED
    BY <1>1, <1>4, <1>5, <1>6, <1>7, <1>8, <1>9, <1>10, <2>1 DEF Achieved, args

\* What a step that passes the turn on has to show.
LEMMA DonePass ==
  ASSUME PlanInv, DoneInv, Keeps, todo # {}, NEW t, t = Turn, todo' = todo \ {t}, file' = file,
         known' = known \/ (Ordered(Steps, env) /\ t \in Does(Steps, env, {"update"})),
         ~Skipped => Achieved(Steps[t])',
         dirty' \in {"unset", "yes", "no"},
         queued' # {} => todo' \cap Does(Steps, env, {"install"}) # {},
         dirty' = "yes" => todo' \cap Does(Steps, env, {"update"}) # {}
  PROVE  DoneInv'
<1>1. Steps' = Steps /\ env' = env
  BY DEF Keeps, Steps
<1>2. ASSUME NEW i \in Does(Steps, env, Kinds) \ todo'
      PROVE  Achieved(Steps[i])'
  <2>1. i \in DOMAIN Steps /\ Steps[i].skip \cap env = {}
    BY DEF Does
  <2>2. CASE i = t
    <3>1. ~Skipped
      BY <2>1, <2>2, TurnIs DEF Skipped
    <3> QED
      BY <2>2, <3>1
  <2>3. CASE i \notin todo
    <3>1. Achieved(Steps[i])
      BY <2>3 DEF DoneInv
    <3>2. Steps[i].kind \in {"if available", "first available"} => known' = known
      <4>1. ASSUME Steps[i].kind \in {"if available", "first available"}, Ordered(Steps, env),
                   t \in Does(Steps, env, {"update"})
            PROVE  FALSE
        <5>1. i \in Does(Steps, env, {"if available", "first available"})
          BY <2>1, <4>1 DEF Does
        <5>2. Precedes(Steps, t, i)
          BY <4>1, <5>1 DEF Ordered
        <5> QED
          BY <2>1, <2>3, <5>2, TurnIs DEF PlanInv
      <4> QED
        BY <4>1
    <3> QED
      BY <2>1, <3>1, <3>2, AchievedStays
  <2> QED
    BY <2>2, <2>3
<1> QED
  BY <1>1, <1>2 DEF DoneInv

\* What waits for the step at hand is left.
LEMMA LaterLeft ==
  ASSUME PlanInv, NEW t \in todo, NEW kinds, Steps[t].kind \notin kinds,
         \E j \in Does(Steps, env, kinds) : Precedes(Steps, t, j)
  PROVE  (todo \ {t}) \cap Does(Steps, env, kinds) # {}
<1>1. PICK j \in Does(Steps, env, kinds) : Precedes(Steps, t, j)
  OBVIOUS
<1>2. j \in DOMAIN Steps /\ Steps[j].kind \in kinds
  BY DEF Does
<1>3. j \in todo
  BY <1>1, <1>2 DEF PlanInv
<1> QED
  BY <1>2, <1>3

\* What is left is left by a step of another kind.
LEMMA OthersLeft ==
  ASSUME NEW t \in todo, NEW kinds, Skipped \/ Step.kind \notin kinds, Step = Steps[t],
         todo \cap Does(Steps, env, kinds) # {}
  PROVE  (todo \ {t}) \cap Does(Steps, env, kinds) # {}
<1>1. t \notin Does(Steps, env, kinds)
  BY DEF Does, Skipped
<1> QED
  BY <1>1

\* Installing leaves nothing to be installed, and all of it there.
LEMMA InstallsKeep ==
  ASSUME Tidy(Steps), PackagesInv, NEW also \in SUBSET Wanted, Installs(also),
         UNCHANGED <<plan, env, lists, keys, made, conf, dirty>>
  PROVE  Keeps
<1>1. /\ packages' = (packages \ Removed) \cup Added \cup also
      /\ queued' = {}
  BY DEF Installs
<1>2. Added' = {} /\ Removed' = {}
  BY <1>1 DEF Added, Removed
<1>3. Wanted \cap Unwanted = {} /\ Added \subseteq Wanted /\ Removed \subseteq Unwanted
  BY Apart DEF PackagesInv
<1> QED
  BY <1>1, <1>2, <1>3 DEF Keeps

\* The steps of apt, one by one.
LEMMA SelectDone ==
  ASSUME PlanInv, Ordered(Steps, env), DoneInv, Select, proc = "run"
  PROVE  DoneInv'
<1> USE DEF rest, machine, edit
<1>1. PICK t : t = Turn
  OBVIOUS
<1>2. /\ todo # {} /\ ~Skipped /\ todo' = todo \ {t} /\ UNCHANGED <<plan, env>>
      /\ Step.kind \in Selecting \cup {"remove"}
      /\ queued' = queued \cup Selected
      /\ Step.kind = "first available" => Selected # {}
      /\ UNCHANGED <<packages, known, lists, keys, made, conf, file, dirty>>
  BY <1>1 DEF Select, At, AtStep, Pass, Selecting
<1>3. t \in todo /\ t \in DOMAIN Steps /\ Step = Steps[t]
  BY <1>1, <1>2, TurnIs
<1>4. /\ Added \subseteq Added' /\ Removed \subseteq Removed'
      /\ \A q \in Selected : q[1] = "+" => q[2] \in Added'
      /\ \A q \in Selected : q[1] = "-" => q[2] \in Removed'
  BY <1>2 DEF Added, Removed
<1>5. Keeps
  BY <1>2, <1>4 DEF Keeps
<1>6. /\ Step.kind = "packages" => Args \subseteq Added'
      /\ Step.kind = "if available" => Args \cap known \subseteq Added'
      /\ Step.kind = "remove" => Args \cap packages \subseteq Removed'
      /\ Step.kind = "first available" => Args \cap Added' # {} /\ FirstKnown(Step) \subseteq Added'
  <2>1. CASE Step.kind = "packages"
    <3>1. \A p \in Args : <<"+", p>> \in Selected
      BY <2>1 DEF Selected
    <3> QED
      BY <1>4, <2>1, <3>1
  <2>2. CASE Step.kind = "if available"
    <3>1. \A p \in Args \cap known : <<"+", p>> \in Selected
      BY <2>2 DEF Selected
    <3> QED
      BY <1>4, <2>2, <3>1
  <2>3. CASE Step.kind = "remove"
    <3>1. \A p \in Args \cap packages : <<"-", p>> \in Selected
      BY <2>3 DEF Selected
    <3> QED
      BY <1>4, <2>3, <3>1
  <2>4. CASE Step.kind = "first available"
    <3>1. PICK q : q \in Selected
      BY <1>2, <2>4
    <3>2. PICK k \in DOMAIN Step.args : q = <<"+", Step.args[k]>>
      BY <2>4, <3>1 DEF Selected, FirstKnown
    <3>4. FirstKnown(Step) \subseteq Added'
      <4>1. \A p \in FirstKnown(Step) : <<"+", p>> \in Selected
        BY <2>4 DEF Selected
      <4> QED
        BY <1>4, <4>1
    <3>3. Step.args[k] \in Args /\ Step.args[k] \in Added'
      <4>1. q[1] = "+" /\ q[2] = Step.args[k]
        BY <3>2
      <4> QED
        BY <1>4, <3>1, <4>1 DEF Args, ArgsOf
    <3> QED
      BY <2>4, <3>3, <3>4
  <2> QED
    BY <2>1, <2>2, <2>3, <2>4
<1>7. Achieved(Steps[t])'
  <2>1. Steps' = Steps /\ Args = ArgsOf(Steps[t])
    BY <1>2, <1>3 DEF Steps, Args
  <2>2. FirstKnown(Steps[t])' = FirstKnown(Step)
    BY <1>2, <1>3, <2>1 DEF FirstKnown
  <2> QED
    BY <1>2, <1>3, <1>6, <2>1, <2>2 DEF Achieved, Selecting
<1>8. todo' \cap Does(Steps, env, {"install"}) # {}
  <2>1. t \in Does(Steps, env, Selecting \cup {"remove"})
    BY <1>2, <1>3 DEF Does, Skipped
  <2>2. \E j \in Does(Steps, env, {"install"}) : Precedes(Steps, t, j)
    BY <2>1 DEF Ordered
  <2> QED
    BY <1>2, <1>3, <2>2, LaterLeft DEF Selecting
<1>9. dirty' \in {"unset", "yes", "no"}
      /\ (dirty' = "yes" => todo' \cap Does(Steps, env, {"update"}) # {})
  BY <1>2, <1>3, OthersLeft DEF DoneInv, Selecting
<1> QED
  BY <1>1, <1>2, <1>5, <1>7, <1>8, <1>9, DonePass

LEMMA SourceDone ==
  ASSUME PlanInv, Ordered(Steps, env), DoneInv, SourceStep, proc = "run"
  PROVE  DoneInv'
<1> USE DEF rest, machine, edit
<1>1. PICK t : t = Turn
  OBVIOUS
<1>2. /\ todo # {} /\ ~Skipped /\ todo' = todo \ {t} /\ UNCHANGED <<plan, env>>
      /\ Step.kind = "source" /\ dirty' = "yes"
      /\ lists' = [s \in Sources |-> IF s \in Args THEN "whole" ELSE lists[s]]
      /\ keys' = keys \cup {KeyOf[s] : s \in Args}
      /\ UNCHANGED <<packages, known, made, conf, file, queued>>
  BY <1>1 DEF SourceStep, At, AtStep, Pass
<1>3. t \in todo /\ t \in DOMAIN Steps /\ Step = Steps[t]
  BY <1>1, <1>2, TurnIs
<1>4. Added' = Added /\ Removed' = Removed
  BY <1>2 DEF Added, Removed
<1>5. Keeps
  BY <1>2, <1>4 DEF Keeps
<1>6. Args = ArgsOf(Steps[t]) /\ Args \subseteq Sources
  BY <1>2, <1>3, StepsAssumption DEF Args, PlanInv, Steps
<1>7. Achieved(Steps[t])'
  <2>1. Steps' = Steps
    BY <1>2 DEF Steps
  <2>2. \A s \in Args : lists'[s] = "whole" /\ KeyOf[s] \in keys'
    BY <1>2, <1>6
  <2> QED
    BY <1>2, <1>3, <1>6, <2>1, <2>2 DEF Achieved
<1>8. todo' \cap Does(Steps, env, {"update"}) # {}
  <2>1. t \in Does(Steps, env, {"source"})
    BY <1>2, <1>3 DEF Does, Skipped
  <2>2. \E j \in Does(Steps, env, {"update"}) : Precedes(Steps, t, j)
    BY <2>1 DEF Ordered
  <2> QED
    BY <1>2, <1>3, <2>2, LaterLeft
<1>9. queued' # {} => todo' \cap Does(Steps, env, {"install"}) # {}
  BY <1>2, <1>3, OthersLeft DEF DoneInv
<1> QED
  BY <1>1, <1>2, <1>5, <1>7, <1>8, <1>9, DonePass

LEMMA UpdateDone ==
  ASSUME PlanInv, Ordered(Steps, env), DoneInv, Update, proc = "run"
  PROVE  DoneInv'
<1> USE DEF rest, machine, edit
<1>1. PICK t : t = Turn
  OBVIOUS
<1>2. /\ todo # {} /\ ~Skipped /\ todo' = todo \ {t} /\ UNCHANGED <<plan, env>>
      /\ Step.kind = "update" /\ dirty' = "no"
      /\ UNCHANGED <<packages, lists, keys, made, conf, file, queued>>
  BY <1>1 DEF Update, At, AtStep, Pass
<1>3. t \in todo /\ t \in DOMAIN Steps /\ Step = Steps[t]
  BY <1>1, <1>2, TurnIs
<1>4. Added' = Added /\ Removed' = Removed
  BY <1>2 DEF Added, Removed
<1>5. Keeps
  BY <1>2, <1>4 DEF Keeps
<1>6. Achieved(Steps[t])'
  <2>1. Steps' = Steps
    BY <1>2 DEF Steps
  <2> QED
    BY <1>2, <1>3, <2>1 DEF Achieved
<1>7. t \in Does(Steps, env, {"update"})
  BY <1>2, <1>3 DEF Does, Skipped
<1>8. queued' # {} => todo' \cap Does(Steps, env, {"install"}) # {}
  BY <1>2, <1>3, OthersLeft DEF DoneInv
<1> QED
  BY <1>1, <1>2, <1>5, <1>6, <1>7, <1>8, DonePass

\* What is pending is installed by the step that installs, and by the first one that
\* installs a downloaded package.
LEMMA InstallDone ==
  ASSUME PlanInv, Tidy(Steps), PackagesInv, DoneInv, Install, proc = "run"
  PROVE  DoneInv'
<1> USE DEF rest, machine, edit
<1>1. PICK t : t = Turn
  OBVIOUS
<1>2. /\ todo # {} /\ ~Skipped /\ todo' = todo \ {t} /\ UNCHANGED <<plan, env>>
      /\ Step.kind = "install" /\ Installs({})
      /\ UNCHANGED <<known, lists, keys, made, conf, file, dirty>>
  BY <1>1 DEF Install, At, AtStep, Pass
<1>3. t \in todo /\ t \in DOMAIN Steps /\ Step = Steps[t]
  BY <1>1, <1>2, TurnIs
<1>4. Keeps
  BY <1>2, InstallsKeep
<1>5. queued' = {}
  BY <1>2 DEF Installs
<1>6. Achieved(Steps[t])'
  <2>1. Steps' = Steps
    BY <1>2 DEF Steps
  <2> QED
    BY <1>2, <1>3, <2>1 DEF Achieved
<1>7. dirty' \in {"unset", "yes", "no"}
      /\ (dirty' = "yes" => todo' \cap Does(Steps, env, {"update"}) # {})
  BY <1>2, <1>3, OthersLeft DEF DoneInv
<1> QED
  BY <1>1, <1>2, <1>4, <1>5, <1>6, <1>7, DonePass

LEMMA InstallDownloadedDone ==
  ASSUME PlanInv, Tidy(Steps), PackagesInv, DoneInv, InstallDownloaded, proc = "run"
  PROVE  DoneInv'
<1> USE DEF rest, machine, edit
<1>1. PICK t : t = Turn
  OBVIOUS
<1>2. /\ todo # {} /\ ~Skipped /\ todo' = todo \ {t} /\ UNCHANGED <<plan, env>>
      /\ Step.kind = "deb"
      /\ IF Args \subseteq packages THEN UNCHANGED <<packages, queued, reboot>> ELSE Installs(Args)
      /\ UNCHANGED <<known, lists, keys, made, conf, file, dirty>>
  BY <1>1 DEF InstallDownloaded, At, AtStep, Pass
<1>3. t \in todo /\ t \in DOMAIN Steps /\ Step = Steps[t]
  BY <1>1, <1>2, TurnIs
<1>4. Args = ArgsOf(Steps[t]) /\ Args \subseteq Wanted
  BY <1>2, <1>3, ArgsAre DEF Args, Wanted
<1>5. /\ Keeps /\ Args \subseteq packages'
      /\ queued' \in {{}, queued}
  <2>1. CASE Args \subseteq packages
    <3>1. UNCHANGED <<packages, queued>>
      BY <1>2, <2>1
    <3>2. Added' = Added /\ Removed' = Removed
      BY <3>1 DEF Added, Removed
    <3> QED
      BY <1>2, <2>1, <3>1, <3>2 DEF Keeps
  <2>2. CASE ~(Args \subseteq packages)
    <3>1. Installs(Args)
      BY <1>2, <2>2
    <3> QED
      BY <1>2, <1>4, <3>1, InstallsKeep DEF Installs
  <2> QED
    BY <2>1, <2>2
<1>6. Achieved(Steps[t])'
  <2>1. Steps' = Steps
    BY <1>2 DEF Steps
  <2> QED
    BY <1>2, <1>3, <1>4, <1>5, <2>1 DEF Achieved, Selecting
<1>7. /\ queued' # {} => todo' \cap Does(Steps, env, {"install"}) # {}
      /\ dirty' \in {"unset", "yes", "no"}
      /\ dirty' = "yes" => todo' \cap Does(Steps, env, {"update"}) # {}
  BY <1>2, <1>3, <1>5, OthersLeft DEF DoneInv
<1> QED
  BY <1>1, <1>2, <1>5, <1>6, <1>7, DonePass

\* Steps that leave apt alone.
LEMMA PassLeaves ==
  ASSUME PlanInv, DoneInv, UNCHANGED <<queued, dirty>>, todo # {}, NEW t, t = Turn,
         Skipped \/ Step.kind \notin {"install", "update"}, todo' = todo \ {t}
  PROVE  /\ queued' # {} => todo' \cap Does(Steps, env, {"install"}) # {}
         /\ dirty' \in {"unset", "yes", "no"}
         /\ dirty' = "yes" => todo' \cap Does(Steps, env, {"update"}) # {}
<1>1. t \in todo /\ Step = Steps[t]
  BY TurnIs
<1> QED
  BY <1>1, OthersLeft DEF DoneInv

LEMMA MakeDone ==
  ASSUME PlanInv, DoneInv, Make, proc = "run"
  PROVE  DoneInv'
<1> USE DEF rest, machine, edit
<1>1. PICK t : t = Turn
  OBVIOUS
<1>2. /\ todo # {} /\ ~Skipped /\ todo' = todo \ {t} /\ UNCHANGED <<plan, env>>
      /\ Step.kind \in {"make", "join"} /\ made' = made \cup Args
      /\ UNCHANGED <<packages, known, lists, keys, conf, file, queued, dirty>>
  BY <1>1 DEF Make, At, AtStep, Pass
<1>3. t \in todo /\ t \in DOMAIN Steps /\ Step = Steps[t]
  BY <1>1, <1>2, TurnIs
<1>4. Added' = Added /\ Removed' = Removed
  BY <1>2 DEF Added, Removed
<1>5. Keeps
  BY <1>2, <1>4 DEF Keeps
<1>6. Achieved(Steps[t])'
  <2>1. Steps' = Steps /\ Args = ArgsOf(Steps[t])
    BY <1>2, <1>3 DEF Steps, Args
  <2> QED
    BY <1>2, <1>3, <2>1 DEF Achieved
<1>7. /\ queued' # {} => todo' \cap Does(Steps, env, {"install"}) # {}
      /\ dirty' \in {"unset", "yes", "no"}
      /\ dirty' = "yes" => todo' \cap Does(Steps, env, {"update"}) # {}
  BY <1>1, <1>2, PassLeaves
<1> QED
  BY <1>1, <1>2, <1>5, <1>6, <1>7, DonePass

\* What is validated and was neither there nor given does not pass.
LEMMA AskDone ==
  ASSUME PlanInv, DoneInv, Ask, proc = "run"
  PROVE  DoneInv'
<1> USE DEF rest, machine, edit
<1>1. PICK t : t = Turn
  OBVIOUS
<1>2. /\ todo # {} /\ ~Skipped /\ todo' = todo \ {t} /\ UNCHANGED <<plan, env>>
      /\ Step.kind = "ask"
      /\ \A p \in Args : Fate(p) \in {"saved", "asked"}
      /\ UNCHANGED <<packages, known, lists, keys, made, file, queued, dirty>>
  BY <1>1 DEF Ask, At, AtStep, Pass
<1>3. t \in todo /\ t \in DOMAIN Steps /\ Step = Steps[t]
  BY <1>1, <1>2, TurnIs
<1>4. PICK given \in Answers :
        /\ \A p \in Asked \cap Checked : given[p] = "good"
        /\ conf' = [p \in Prompts |->
                      IF p \in Asked /\ given[p] = "good" THEN "good" ELSE conf[p]]
  BY DEF Ask
<1>5. Added' = Added /\ Removed' = Removed
  BY <1>2 DEF Added, Removed
<1>6. \A p \in Prompts : conf[p] = "good" => conf'[p] = "good"
  BY <1>4
<1>7. Keeps
  BY <1>2, <1>5, <1>6 DEF Keeps
<1>8. Args = ArgsOf(Steps[t]) /\ Args \subseteq Prompts
  BY <1>2, <1>3, StepsAssumption DEF Args, PlanInv, Steps
<1>9. ASSUME NEW p \in Args \cap Checked
      PROVE  conf'[p] = "good"
  <2>1. p \in Prompts
    BY <1>8
  <2>2. CASE p \in Asked
    BY <1>4, <2>1, <2>2
  <2>3. CASE p \notin Asked
    <3>1. Fate(p) = "saved"
      BY <1>2, <2>3 DEF Asked
    <3>2. conf[p] = "good"
      BY <3>1 DEF Fate
    <3> QED
      BY <1>6, <2>1, <3>2
  <2> QED
    BY <2>2, <2>3
<1>10. Achieved(Steps[t])'
  <2>1. Steps' = Steps
    BY <1>2 DEF Steps
  <2> QED
    BY <1>2, <1>3, <1>8, <1>9, <2>1 DEF Achieved
<1>11. /\ queued' # {} => todo' \cap Does(Steps, env, {"install"}) # {}
       /\ dirty' \in {"unset", "yes", "no"}
       /\ dirty' = "yes" => todo' \cap Does(Steps, env, {"update"}) # {}
  BY <1>1, <1>2, PassLeaves
<1> QED
  BY <1>1, <1>2, <1>7, <1>10, <1>11, DonePass

LEMMA SkipDone ==
  ASSUME PlanInv, DoneInv, Skip
  PROVE  DoneInv'
<1> USE DEF rest, machine, context, edit
<1>1. PICK t : t = Turn
  OBVIOUS
<1>2. /\ todo # {} /\ Skipped /\ todo' = todo \ {t} /\ UNCHANGED <<plan, env>>
      /\ UNCHANGED <<packages, known, lists, keys, made, conf, file, queued, dirty>>
  BY <1>1 DEF Skip, AtStep, Pass
<1>3. Added' = Added /\ Removed' = Removed
  BY <1>2 DEF Added, Removed
<1>4. Keeps
  BY <1>2, <1>3 DEF Keeps
<1>5. /\ queued' # {} => todo' \cap Does(Steps, env, {"install"}) # {}
      /\ dirty' \in {"unset", "yes", "no"}
      /\ dirty' = "yes" => todo' \cap Does(Steps, env, {"update"}) # {}
  BY <1>1, <1>2, PassLeaves
<1> QED
  BY <1>1, <1>2, <1>4, <1>5, DonePass

\* The file is, at the end of the edit, as the editor would make it again.
LEMMA EditEndsDone ==
  ASSUME PlanInv, PhaseInv, IInv, DoneInv, EditEnds
  PROVE  DoneInv'
<1> USE DEF rest, machine, edit
<1>1. PICK t : t = Turn
  OBVIOUS
<1>2. /\ phase \in {"kept", "changed"} /\ todo' = todo \ {t} /\ UNCHANGED <<plan, env>>
      /\ UNCHANGED <<packages, known, lists, keys, made, conf, file, queued, dirty>>
  BY <1>1 DEF EditEnds, Pass
<1>3. /\ todo # {} /\ ~Skipped /\ Step.kind = "edit" /\ file = out
      /\ \E n \in DOMAIN Editors : Step.args = <<n>> /\ editor = Editors[n]
  BY <1>2 DEF PhaseInv
<1>4. t \in todo /\ t \in DOMAIN Steps /\ Step = Steps[t]
  BY <1>1, <1>3, TurnIs
<1>5. Added' = Added /\ Removed' = Removed
  BY <1>2 DEF Added, Removed
<1>6. Keeps
  BY <1>2, <1>5 DEF Keeps
<1>7. ASSUME PlainEdits(Steps)
      PROVE  AsTold(Editors[Steps[t].args[1]], file, file)
  <2>1. editor = Editors[Steps[t].args[1]]
    BY <1>3, <1>4
  <2>2. Plain(editor)
    <3>1. t \in Does(Steps, {}, {"edit"})
      BY <1>3, <1>4 DEF Does
    <3> QED
      BY <1>7, <2>1, <3>1 DEF PlainEdits
  <2>3. IsEditor(editor) /\ src \in Seq(Lines) /\ AsTold(editor, src, out)
    BY <1>2 DEF IInv, EditTypeOK, EditedAsTold
  <2>4. ~Misleads(editor, src)
    BY <2>2, <2>3 DEF Plain, Misleads, IsEditor
  <2>5. file = Told(editor, src)
    BY <1>3, <2>3, <2>4 DEF AsTold
  <2>6. Told(editor, file) = file
    BY <2>2, <2>3, <2>5, ToldTwice
  <2> QED
    BY <2>1, <2>6 DEF AsTold
<1>8. Achieved(Steps[t])'
  <2>1. Steps' = Steps /\ file' = file
    BY <1>2 DEF Steps
  <2> QED
    BY <1>3, <1>4, <1>7, <2>1 DEF Achieved, Selecting
<1>9. /\ queued' # {} => todo' \cap Does(Steps, env, {"install"}) # {}
      /\ dirty' \in {"unset", "yes", "no"}
      /\ dirty' = "yes" => todo' \cap Does(Steps, env, {"update"}) # {}
  BY <1>1, <1>2, <1>3, PassLeaves
<1> QED
  BY <1>1, <1>2, <1>3, <1>6, <1>8, <1>9, DonePass

\* An edit under way changes nothing but the file; no other step that is done is an edit.
LEMMA EditingDone ==
  ASSUME PlanInv, PhaseInv, DoneInv, EditFile \/ EditGoesOn
  PROVE  DoneInv'
<1> USE DEF rest, machine, context
<1>1. /\ UNCHANGED <<plan, env, todo, packages, known, lists, keys, made, conf, queued, dirty>>
      /\ todo # {} /\ Step.kind = "edit"
  <2>1. CASE EditFile
    BY <2>1 DEF EditFile, At, AtStep
  <2>2. CASE EditGoesOn
    <3>1. phase # "idle"
      BY <2>2 DEF EditGoesOn, EditOn, ReadLine, ReadEOF, SyncTemp, Compare, Rename, Truncate, Write,
                  Flush
    <3> QED
      BY <2>2, <3>1 DEF EditGoesOn, PhaseInv
  <2> QED
    BY <2>1, <2>2
<1>2. Steps' = Steps /\ Added' = Added /\ Removed' = Removed
  BY <1>1 DEF Steps, Added, Removed
<1>3. Keeps
  BY <1>1, <1>2 DEF Keeps
<1>4. Turn \in todo /\ Turn \in Does(Steps, {}, {"edit"})
  BY <1>1, TurnIs, ArgsAre
<1>5. ASSUME NEW i \in Does(Steps, env, Kinds) \ todo
      PROVE  Achieved(Steps[i])'
  <2>1. i \in DOMAIN Steps /\ Achieved(Steps[i])
    BY DEF DoneInv, Does
  <2>2. Steps[i].kind = "edit" => ~OneEdit(Steps)
    <3>1. ASSUME Steps[i].kind = "edit", OneEdit(Steps)
          PROVE  FALSE
      <4>1. i \in Does(Steps, {}, {"edit"})
        BY <2>1, <3>1 DEF Does
      <4> QED
        BY <1>4, <1>5, <3>1, <4>1 DEF OneEdit
    <3> QED
      BY <3>1
  <2> QED
    BY <1>1, <1>3, <2>1, <2>2, AchievedStays
<1> QED
  BY <1>1, <1>2, <1>5 DEF DoneInv

LEMMA DoneKept ==
  ASSUME PlanInv, PhaseInv, IInv, Tidy(Steps), Ordered(Steps, env),
         proc = "run" => PackagesInv /\ DoneInv, Next, proc' = "run"
  PROVE  DoneInv'
<1>1. CASE Begin("run")
  <2>1. /\ todo' = DOMAIN Steps /\ queued' = {} /\ dirty' = "unset"
        /\ plan' = plan
    BY <1>1 DEF Begin, Steps
  <2>2. Steps' = Steps
    BY <2>1 DEF Steps
  <2>3. Does(Steps, env, Kinds)' \ todo' = {}
    BY <2>1, <2>2 DEF Does
  <2> QED
    BY <2>1, <2>3 DEF DoneInv
<1>2. CASE RunsOn /\ proc = "run"
  BY <1>2, SelectDone, SourceDone, UpdateDone, InstallDone, InstallDownloadedDone, MakeDone,
     AskDone, SkipDone, EditingDone, EditEndsDone DEF RunsOn
<1> QED
  BY <1>1, <1>2, RunCases

-----------------------------------------------------------------------------
(***************************************************************************)
(* What runs come to.                                                      *)
(***************************************************************************)

\* What holds of every run, and of those of tidy plans.
RebootInv ==
  /\ PlanInv /\ PhaseInv
  /\ proc = "run" /\ Tidy(Steps) => PackagesInv /\ ToldInv

LEMMA RunsBegin == Init => RebootInv
<1> SUFFICES ASSUME Init PROVE RebootInv
  OBVIOUS
<1>1. plan \in DOMAIN Plans /\ todo = {} /\ phase = "idle" /\ proc = "off"
  BY StepsAssumption DEF Init
<1> QED
  BY <1>1 DEF RebootInv, PlanInv, PhaseInv

\* A step that changes nothing keeps what holds.
LEMMA RunsRest ==
  ASSUME UNCHANGED vars
  PROVE  /\ PlanInv' = PlanInv /\ PhaseInv' = PhaseInv /\ proc' = proc
         /\ PackagesInv' = PackagesInv /\ ToldInv' = ToldInv /\ Tidy(Steps)' = Tidy(Steps)
<1> USE DEF vars, machine, context, rest, edit
<1>1. PlanInv' = PlanInv /\ Tidy(Steps)' = Tidy(Steps) /\ proc' = proc
  BY DEF PlanInv, Steps
<1>2. PhaseInv' = PhaseInv
  BY DEF PhaseInv, Step, Skipped, Turn
<1>3. PackagesInv' = PackagesInv
  BY DEF PackagesInv, Added, Removed, Wanted, Unwanted, ArgsIn, Steps
<1>4. ToldInv' = ToldInv
  BY DEF ToldInv, Changed, Base, Groups, Steps
<1> QED
  BY <1>1, <1>2, <1>3, <1>4

LEMMA RebootKept == RebootInv /\ [Next]_vars => RebootInv'
<1> SUFFICES ASSUME RebootInv, [Next]_vars PROVE RebootInv'
  OBVIOUS
<1>1. CASE UNCHANGED vars
  BY <1>1, RunsRest DEF RebootInv
<1>2. CASE Next
  <2>1. PlanInv' /\ PhaseInv'
    BY <1>2, PlanKept, PhaseKept DEF RebootInv
  <2>2. ASSUME proc' = "run", Tidy(Steps)'
        PROVE  PackagesInv' /\ ToldInv'
    <3>1. Tidy(Steps)
      <4>1. plan' = plan
        BY <1>2, PlanSteps
      <4> QED
        BY <2>2, <4>1 DEF Steps
    <3> QED
      BY <1>2, <2>2, <3>1, PackagesKept, ToldKept DEF RebootInv
  <2> QED
    BY <2>1, <2>2 DEF RebootInv
<1> QED
  BY <1>1, <1>2

\* The user is told to reboot whenever a run has changed the packages, the user's groups
\* or the file, and only then, whatever the plan is, the machine was and earlier runs left
\* behind, when no step undoes what another does and a file is edited once
\* (reboot.go, steps-packages.go:185-192, user-groups.go:39).
THEOREM RebootToldCorrect == Spec => [](Tidy(Steps) /\ OneEdit(Steps) => RebootTold)
<1>1. RebootInv => (Tidy(Steps) /\ OneEdit(Steps) => RebootTold)
  BY DEF RebootInv, ToldInv, Changed, Base, RebootTold, Completing
<1> QED
  BY <1>1, RunsBegin, RebootKept, PTL DEF Spec

\* What holds of runs of plans whose steps are in order as well.
AskedInv ==
  /\ RebootInv /\ IInv
  /\ proc = "run" /\ Tidy(Steps) /\ Ordered(Steps, env) => DoneInv

LEMMA DoneRests ==
  ASSUME UNCHANGED vars
  PROVE  DoneInv' = DoneInv /\ Ordered(Steps, env)' = Ordered(Steps, env)
<1> USE DEF vars, machine, context, rest, edit
<1>1. /\ UNCHANGED <<plan, env, todo, packages, known, lists, keys, made, conf, queued, dirty, file>>
      /\ Steps' = Steps
  BY DEF Steps
<1>2. Added' = Added /\ Removed' = Removed
  BY <1>1 DEF Added, Removed
<1>3. ASSUME NEW i
      PROVE  Achieved(Steps[i])' <=> Achieved(Steps[i])
  <2>1. FirstKnown(Steps[i])' = FirstKnown(Steps[i])
    BY <1>1 DEF FirstKnown
  <2> QED
    BY <1>1, <1>2, <2>1 DEF Achieved
<1> QED
  BY <1>1, <1>3 DEF DoneInv

LEMMA AskedKept == AskedInv /\ [Next]_vars => AskedInv'
<1> SUFFICES ASSUME AskedInv, [Next]_vars PROVE AskedInv'
  OBVIOUS
<1>1. RebootInv' /\ IInv'
  BY RebootKept, StepKeeps DEF AskedInv
<1>2. CASE UNCHANGED vars
  BY <1>1, <1>2, DoneRests, RunsRest DEF AskedInv
<1>3. CASE Next
  <2>1. ASSUME proc' = "run", Tidy(Steps)', Ordered(Steps, env)'
        PROVE  DoneInv'
    <3>1. Tidy(Steps) /\ Ordered(Steps, env)
      <4>1. UNCHANGED <<plan, env>>
        BY <1>3, PlanSteps
      <4> QED
        BY <2>1, <4>1 DEF Steps
    <3> QED
      BY <1>3, <2>1, <3>1, DoneKept DEF AskedInv, RebootInv
  <2> QED
    BY <1>1, <2>1 DEF AskedInv
<1> QED
  BY <1>2, <1>3

\* When nothing is left to do, what was noted has been done.
LEMMA AskedAtEnd ==
  ASSUME AskedInv, Tidy(Steps), OneEdit(Steps), PlainEdits(Steps), Ordered(Steps, env),
         Completing, NEW i \in DOMAIN Steps, Steps[i].skip \cap env = {}
  PROVE  Fulfilled(Steps[i])
<1> DEFINE step == Steps[i]
<1>1. PlanInv /\ DoneInv /\ todo = {}
  BY DEF AskedInv, RebootInv, Completing
<1>2. queued = {} /\ dirty \in {"unset", "no"}
  BY <1>1 DEF DoneInv
<1>3. Added = {} /\ Removed = {}
  BY <1>2 DEF Added, Removed
<1>4. Steps \in Seq(AnyStep)
  BY <1>1, StepsAssumption DEF PlanInv, Steps
<1>5. step.kind \in Kinds
  <2>1. Steps[i] \in AnyStep
    BY <1>4
  <2> QED
    BY <2>1 DEF AnyStep
<1>6. i \in Does(Steps, env, Kinds) /\ Achieved(step)
  BY <1>1, <1>5 DEF Does, DoneInv
<1>7. ASSUME step.kind \in {"install", "update"}
      PROVE  dirty = "no"
  <2>1. PICK u \in DOMAIN Steps : u \in Does(Steps, env, {"update"})
    <3>1. CASE step.kind = "update"
      BY <3>1, <1>6 DEF Does
    <3>2. CASE step.kind = "install"
      <4>1. i \in Does(Steps, env, {"install"})
        BY <1>6, <3>2 DEF Does
      <4>2. Does(Steps, env, {"update"}) # {}
        BY <4>1 DEF Ordered
      <4> QED
        BY <4>2 DEF Does
    <3> QED
      BY <1>7, <3>1, <3>2
  <2>2. Steps[u].kind = "update" /\ u \in Does(Steps, env, Kinds)
    BY <2>1 DEF Does, Kinds
  <2>3. Achieved(Steps[u])
    BY <1>1, <2>2 DEF DoneInv
  <2> QED
    BY <1>2, <2>2, <2>3 DEF Achieved
<1>8. CASE step.kind \in {"install", "update"}
  BY <1>2, <1>7, <1>8 DEF Fulfilled
<1>9. CASE step.kind \in Selecting
  BY <1>3, <1>6, <1>9 DEF Fulfilled, Achieved, Selecting
<1>10. CASE step.kind \in {"remove", "deb", "make", "join"}
  BY <1>3, <1>6, <1>10 DEF Fulfilled, Achieved
<1>11. CASE step.kind \in {"source", "ask"}
  BY <1>6, <1>11 DEF Fulfilled, Achieved
<1>12. CASE step.kind = "edit"
  BY <1>6, <1>12 DEF Fulfilled, Achieved
<1> QED
  BY <1>5, <1>8, <1>9, <1>10, <1>11, <1>12 DEF Kinds

\* Whatever the machine was, earlier runs left behind and the steps between did: when a run
\* completes, what every step that is not skipped is there for has been done, when no step
\* undoes what another does, and what notes something is followed by what does it
\* (plan.go:86-109, apt/steps-packages.go:40-195).
THEOREM AllAsAskedCorrect ==
  Spec => [](Tidy(Steps) /\ OneEdit(Steps) /\ PlainEdits(Steps) /\ Ordered(Steps, env) => AllAsAsked)
<1>1. Init => AskedInv
  <2>1. ASSUME Init
        PROVE  RebootInv /\ IInv /\ proc = "off"
    BY <2>1, RunsBegin, Established DEF Init
  <2> QED
    BY <2>1 DEF AskedInv
<1>2. AskedInv =>
        (Tidy(Steps) /\ OneEdit(Steps) /\ PlainEdits(Steps) /\ Ordered(Steps, env) => AllAsAsked)
  BY AskedAtEnd DEF AllAsAsked, Steps
<1> QED
  BY <1>1, <1>2, AskedKept, PTL DEF Spec

-----------------------------------------------------------------------------
(***************************************************************************)
(* Runs after one that was completed.                                      *)
(***************************************************************************)
LEMMA KnownKept ==
  ASSUME KnownInv, Next
  PROVE  KnownInv'
<1> USE DEF rest, context, machine
<1>1. ASSUME UNCHANGED <<known, distro, lists>>, proc' = "run" /\ dirty' = "no" => proc = "run" /\ dirty = "no"
      PROVE  KnownInv'
  <2>1. Offered' = Offered
    BY <1>1 DEF Offered
  <2> QED
    BY <1>1, <2>1 DEF KnownInv
<1>2. CASE \E mode \in {"run", "sim"} : Begin(mode)
  BY <1>1, <1>2 DEF Begin
<1>3. CASE Skip \/ Mention \/ Complete
  BY <1>1, <1>3 DEF Skip, Mention, Complete, Pass
<1>4. CASE Select \/ Install \/ SimInstall \/ InstallDownloaded
  BY <1>1, <1>4 DEF Select, Install, SimInstall, InstallDownloaded, Pass
<1>5. CASE Make \/ Ask \/ Panic
  BY <1>1, <1>5 DEF Make, Ask, Panic, Pass
<1>6. CASE EditFile \/ EditGoesOn \/ EditEnds
  BY <1>1, <1>6 DEF EditFile, EditGoesOn, EditEnds, Pass
<1>7. CASE PowerFails
  BY <1>1, <1>7 DEF PowerFails
<1>8. CASE WorldMoves
  BY <1>8 DEF WorldMoves, KnownInv
<1>9. CASE SourceStep
  BY <1>9 DEF SourceStep, KnownInv
<1>10. CASE Update
  <2>1. UNCHANGED <<distro, lists, proc>>
    BY <1>10 DEF Update, Pass
  <2>2. Offered' = Offered
    BY <2>1 DEF Offered
  <2> QED
    BY <1>1, <1>10, <2>1, <2>2 DEF Update, KnownInv
<1>11. CASE Stop
  <2>1. proc' = "off" /\ (lists' = lists \/ \E s, v : lists' = [lists EXCEPT ![s] = v])
    BY <1>11 DEF Stop, NothingDone, SourceTorn, SomeInstalled, SomeWritten, SomeMade
  <2> QED
    BY <2>1 DEF KnownInv
<1> QED
  BY <1>2, <1>3, <1>4, <1>5, <1>6, <1>7, <1>8, <1>9, <1>10, <1>11 DEF Next

\* No run takes an answer back.
LEMMA ConfStays ==
  ASSUME Next
  PROVE  \A p \in Prompts : conf[p] = "good" => conf'[p] = "good"
<1> USE DEF rest, context, machine
<1>1. CASE \E mode \in {"run", "sim"} : Begin(mode)
  BY <1>1 DEF Begin
<1>2. CASE Skip \/ Mention \/ Complete
  BY <1>2 DEF Skip, Mention, Complete
<1>3. CASE Select \/ SourceStep \/ Update \/ Install \/ SimInstall \/ InstallDownloaded
  BY <1>3 DEF Select, SourceStep, Update, Install, SimInstall, InstallDownloaded
<1>4. CASE Make \/ Panic \/ WorldMoves
  BY <1>4 DEF Make, Panic, WorldMoves
<1>5. CASE EditFile \/ EditGoesOn \/ EditEnds \/ PowerFails
  BY <1>5 DEF EditFile, EditGoesOn, EditEnds, PowerFails
<1>6. CASE Ask
  BY <1>6 DEF Ask
<1>7. CASE Stop
  <2>1. UNCHANGED conf \/ SomeWritten
    BY <1>7 DEF Stop, NothingDone, SourceTorn, SomeInstalled, SomeMade
  <2> QED
    BY <2>1 DEF SomeWritten
<1> QED
  BY <1>1, <1>2, <1>3, <1>4, <1>5, <1>6, <1>7 DEF Next

\* When a run completes, its steps have nothing left to do.
LEMMA QuietBegins ==
  ASSUME AskedInv, KnownInv, Rules, Completing, Complete
  PROVE  QuietInv'
<1> USE DEF rest, context, machine, edit
<1>1. /\ UNCHANGED <<packages, known, distro, lists, keys, made, file, plan, env, queued, phase>>
      /\ proc' = "off" /\ phase = "idle" /\ proc = "run" /\ todo = {}
  BY DEF Complete, Completing
<1>2. PlanInv /\ DoneInv
  BY <1>1 DEF AskedInv, RebootInv, Rules
<1>3. queued = {} /\ Steps' = Steps
  BY <1>1, <1>2 DEF DoneInv, Steps
<1>4. Added = {} /\ Removed = {} /\ Added' = {} /\ Removed' = {}
  BY <1>1, <1>3 DEF Added, Removed
<1>5. ASSUME NEW i \in Does(Steps, env, Kinds)
      PROVE  Stands(Steps[i])'
  <2>1. Achieved(Steps[i])
    BY <1>1, <1>2 DEF DoneInv
  <2>2. FirstKnown(Steps[i])' = FirstKnown(Steps[i])
    BY <1>1, <1>3 DEF FirstKnown
  <2>3. Stands(Steps[i])' <=> Stands(Steps[i])
    BY <1>1, <1>3, <2>2 DEF Stands
  <2>4. Stands(Steps[i])
    BY <1>4, <2>1 DEF Stands, Achieved, Rules
  <2> QED
    BY <2>3, <2>4
<1>6. ASSUME Does(Steps, env, {"update"}) # {}
      PROVE  known = Offered
  <2>1. PICK u \in DOMAIN Steps : u \in Does(Steps, env, {"update"})
    BY <1>6 DEF Does
  <2>2. Steps[u].kind = "update" /\ u \in Does(Steps, env, Kinds)
    BY <2>1 DEF Does, Kinds
  <2>3. Achieved(Steps[u])
    BY <1>1, <1>2, <2>2 DEF DoneInv
  <2>4. dirty = "no"
    BY <1>1, <1>2, <2>2, <2>3 DEF Achieved, DoneInv
  <2> QED
    BY <1>1, <2>4 DEF KnownInv
<1>7. known' = known /\ Offered' = Offered
  BY <1>1 DEF Offered
<1>8. Does(Steps, env, {"update"})' = Does(Steps, env, {"update"})
      /\ Does(Steps, env, Kinds)' = Does(Steps, env, Kinds)
  BY <1>1, <1>3 DEF Does
<1> QED
  BY <1>1, <1>4, <1>5, <1>6, <1>7, <1>8 DEF QuietInv

\* The step at hand has nothing to do.
LEMMA StepStands ==
  ASSUME PlanInv, QuietInv, todo # {}, ~Skipped
  PROVE  /\ Stands(Step) /\ Turn \in Does(Steps, env, Kinds)
         /\ Step = Steps[Turn] /\ Step.kind \in Kinds /\ Turn \in DOMAIN Steps
<1>1. Turn \in DOMAIN Steps /\ Step = Steps[Turn] /\ Step.kind \in Kinds
  BY TurnIs
<1>2. Turn \in Does(Steps, env, Kinds)
  BY <1>1 DEF Does, Skipped
<1> QED
  BY <1>1, <1>2 DEF QuietInv

\* An editor that has nothing to do does not come to replace the file.
LEMMA EditQuiet ==
  ASSUME PlanInv, PhaseInv, IInv, QuietInv, PlainEdits(Steps)
  PROVE  phase \notin {"renaming", "truncating", "writing", "flushing", "changed"}
<1>1. SUFFICES ASSUME phase \in {"renaming", "truncating"}
               PROVE  FALSE
  BY DEF QuietInv
<1>2. /\ todo # {} /\ ~Skipped /\ Step.kind = "edit" /\ file = src /\ out # src
      /\ \E n \in DOMAIN Editors : Step.args = <<n>> /\ editor = Editors[n]
  BY <1>1 DEF PhaseInv
<1>3. editor = Editors[Step.args[1]]
  BY <1>2
<1>4. Stands(Step) /\ Step = Steps[Turn] /\ Turn \in DOMAIN Steps
  BY <1>2, StepStands
<1>5. Plain(editor)
  <2>1. Turn \in Does(Steps, {}, {"edit"})
    BY <1>2, <1>4 DEF Does
  <2> QED
    BY <1>3, <1>4, <2>1 DEF PlainEdits
<1>6. IsEditor(editor) /\ src \in Seq(Lines) /\ AsTold(editor, src, out)
  BY <1>1 DEF IInv, EditTypeOK, EditedAsTold
<1>7. ~Misleads(editor, src)
  BY <1>5, <1>6 DEF Plain, Misleads, IsEditor
<1>8. out = Told(editor, src)
  BY <1>6, <1>7 DEF AsTold
<1>9. AsTold(editor, src, src)
  BY <1>2, <1>3, <1>4 DEF Stands
<1> QED
  BY <1>2, <1>7, <1>8, <1>9 DEF AsTold

\* What a step leaves as it was.
Calm == UNCHANGED <<packages, lists, keys, made, file, known, distro, plan, env>>

\* What is left of QuietInv to be seen when a step is calm.
CalmInv ==
  /\ Calm
  /\ Added' \subseteq packages /\ Removed' \cap packages = {}
  /\ phase' \notin {"writing", "flushing", "changed"}
  /\ proc = "run" \/ proc' = "run" => ~reboot'

\* The steps of apt.
LEMMA SelectQuiet ==
  ASSUME PlanInv, QuietInv, Select
  PROVE  CalmInv
<1> USE DEF rest, context, machine, edit
<1>1. /\ Calm /\ UNCHANGED <<phase, reboot, proc>> /\ queued' = queued \cup Selected
      /\ todo # {} /\ ~Skipped /\ Step.kind \in Selecting \cup {"remove"}
  BY DEF Select, Pass, At, AtStep, Calm, Selecting
<1>2. Stands(Step)
  BY <1>1, StepStands
<1>3. \A q \in Selected : \/ q[1] = "+" /\ q[2] \in packages
                          \/ q[1] = "-" /\ q[2] \notin packages
  <2>1. CASE Step.kind = "packages"
    <3>1. Selected = {<<"+", p>> : p \in Args}
      BY <2>1 DEF Selected
    <3> QED
      BY <1>2, <2>1, <3>1 DEF Stands, Args
  <2>2. CASE Step.kind = "if available"
    <3>1. Selected = {<<"+", p>> : p \in Args \cap known}
      BY <2>2 DEF Selected
    <3>2. Args \cap known \subseteq packages
      BY <1>2, <2>2 DEF Stands, Args
    <3> QED
      BY <3>1, <3>2
  <2>3. CASE Step.kind = "first available"
    <3>1. Selected = {<<"+", p>> : p \in FirstKnown(Step)}
      BY <2>3 DEF Selected
    <3>2. FirstKnown(Step) \subseteq packages
      BY <1>2, <2>3 DEF Stands
    <3> QED
      BY <3>1, <3>2
  <2>4. CASE Step.kind = "remove"
    <3>1. Selected = {<<"-", p>> : p \in Args \cap (known \cup packages)}
      BY <2>4 DEF Selected
    <3>2. Args \cap packages = {}
      BY <1>2, <2>4 DEF Stands, Args
    <3>3. ASSUME NEW q \in Selected
          PROVE  q[1] = "-" /\ q[2] \notin packages
      BY <3>1, <3>2
    <3> QED
      BY <3>3
  <2> QED
    BY <1>1, <2>1, <2>2, <2>3, <2>4 DEF Selecting
<1>4. Added' \subseteq packages /\ Removed' \cap packages = {}
  <2>1. /\ \A q \in queued : q[1] = "+" => q[2] \in packages
        /\ \A q \in queued : q[1] = "-" => q[2] \notin packages
    BY DEF QuietInv, Added, Removed
  <2> QED
    BY <1>1, <1>3, <2>1 DEF Added, Removed
<1> QED
  BY <1>1, <1>4 DEF CalmInv, QuietInv

LEMMA SourceQuiet ==
  ASSUME PlanInv, KnownInv, QuietInv, SourceStep
  PROVE  CalmInv
<1> USE DEF rest, context, machine, edit
<1>1. /\ UNCHANGED <<packages, made, file, known, distro, plan, env, phase, reboot, proc, queued>>
      /\ todo # {} /\ ~Skipped /\ Step.kind = "source"
      /\ \/ UNCHANGED <<lists, keys>>
         \/ /\ lists' = [s \in Sources |-> IF s \in Args THEN "whole" ELSE lists[s]]
            /\ keys' = keys \cup {KeyOf[s] : s \in Args}
  BY DEF SourceStep, Pass, At, AtStep
<1>2. \A s \in Args : lists[s] = "whole" /\ KeyOf[s] \in keys
  BY <1>1, StepStands DEF Stands, Args
<1>3. lists = [s \in Sources |-> lists[s]]
  BY DEF KnownInv
<1>4. lists' = lists /\ keys' = keys
  <2>1. CASE lists' = [s \in Sources |-> IF s \in Args THEN "whole" ELSE lists[s]]
    <3>1. [s \in Sources |-> IF s \in Args THEN "whole" ELSE lists[s]] = [s \in Sources |-> lists[s]]
      BY <1>2
    <3> QED
      BY <1>1, <1>2, <1>3, <2>1, <3>1
  <2> QED
    BY <1>1, <2>1
<1>5. Added' = Added /\ Removed' = Removed
  BY <1>1 DEF Added, Removed
<1> QED
  BY <1>1, <1>4, <1>5 DEF Calm, CalmInv, QuietInv

LEMMA UpdateQuiet ==
  ASSUME PlanInv, QuietInv, Update
  PROVE  CalmInv
<1> USE DEF rest, context, machine, edit
<1>1. /\ UNCHANGED <<packages, made, file, lists, keys, distro, plan, env, phase, reboot, proc, queued>>
      /\ todo # {} /\ ~Skipped /\ Step.kind = "update"
      /\ known' = known \/ known' = Offered
  BY DEF Update, Pass, At, AtStep
<1>2. Turn \in Does(Steps, env, {"update"})
  BY <1>1, StepStands DEF Does
<1>3. known' = known
  BY <1>1, <1>2 DEF QuietInv
<1>4. Added' = Added /\ Removed' = Removed
  BY <1>1 DEF Added, Removed
<1> QED
  BY <1>1, <1>3, <1>4 DEF Calm, CalmInv, QuietInv

\* What is pending is there.
LEMMA InstallsQuiet ==
  ASSUME QuietInv, proc = "run", NEW also \in SUBSET packages, Installs(also)
  PROVE  packages' = packages /\ queued' = {} /\ ~reboot'
<1>1. packages' = (packages \ Removed) \cup Added \cup also /\ queued' = {}
      /\ (reboot' <=> reboot \/ packages' # packages)
  BY DEF Installs
<1> QED
  BY <1>1 DEF QuietInv

LEMMA InstallQuiet ==
  ASSUME PlanInv, QuietInv, Install \/ InstallDownloaded
  PROVE  CalmInv
<1> USE DEF rest, context, machine, edit
<1>1. /\ UNCHANGED <<made, file, lists, keys, known, distro, plan, env, phase, proc>>
      /\ todo # {} /\ ~Skipped /\ proc = "run"
      /\ \/ Installs({})
         \/ Step.kind = "deb" /\ (UNCHANGED <<packages, queued, reboot>> \/ Installs(Args))
  BY DEF Install, InstallDownloaded, Pass, At, AtStep
<1>2. Step.kind = "deb" => Args \subseteq packages
  BY <1>1, StepStands DEF Stands, Args
<1>3. packages' = packages /\ ~reboot' /\ queued' \in {{}, queued}
  BY <1>1, <1>2, InstallsQuiet DEF QuietInv
<1>4. Added' \subseteq Added /\ Removed' \subseteq Removed
  BY <1>3 DEF Added, Removed
<1> QED
  BY <1>1, <1>3, <1>4 DEF Calm, CalmInv, QuietInv

LEMMA MakeQuiet ==
  ASSUME PlanInv, QuietInv, Make
  PROVE  CalmInv
<1> USE DEF rest, context, machine, edit
<1>1. /\ UNCHANGED <<packages, file, lists, keys, known, distro, plan, env, phase, proc, queued>>
      /\ todo # {} /\ ~Skipped /\ Step.kind \in {"make", "join"}
      /\ \/ UNCHANGED <<made, reboot>>
         \/ /\ made' = made \cup Args
            /\ reboot' <=> reboot \/ (Step.kind = "join" /\ ~(Args \subseteq made))
  BY DEF Make, Pass, At, AtStep
<1>2. Args \subseteq made
  BY <1>1, StepStands DEF Stands, Args
<1>3. made' = made /\ (reboot' <=> reboot)
  BY <1>1, <1>2
<1>4. Added' = Added /\ Removed' = Removed
  BY <1>1 DEF Added, Removed
<1> QED
  BY <1>1, <1>3, <1>4 DEF Calm, CalmInv, QuietInv

\* An edit ends with the file kept.
LEMMA EditingQuiet ==
  ASSUME PlanInv, PhaseInv, IInv, QuietInv, PlainEdits(Steps), EditFile \/ EditGoesOn \/ EditEnds
  PROVE  CalmInv
<1> USE DEF rest, context, machine
<1>1. UNCHANGED <<packages, lists, keys, made, known, distro, plan, env, proc, queued>>
  BY DEF EditFile, EditGoesOn, EditEnds, Pass
<1>2. /\ file' = file /\ phase' \notin {"writing", "flushing", "changed"}
      /\ reboot' <=> reboot
  <2>1. CASE EditFile
    BY <2>1 DEF EditFile, Open
  <2>2. CASE EditGoesOn
    <3>1. ReadLine \/ ReadEOF \/ SyncTemp \/ Compare
      BY <2>2, EditQuiet DEF EditGoesOn, EditOn, Rename, Truncate, Write, Flush
    <3> QED
      BY <2>2, <3>1 DEF EditGoesOn, ReadLine, ReadEOF, SyncTemp, Compare
  <2>3. CASE EditEnds
    BY <2>3, EditQuiet DEF EditEnds
  <2> QED
    BY <2>1, <2>2, <2>3
<1>3. Added' = Added /\ Removed' = Removed
  BY <1>1 DEF Added, Removed
<1> QED
  BY <1>1, <1>2, <1>3 DEF Calm, CalmInv, QuietInv

\* What a step that is killed has done was there.
LEMMA StopQuiet ==
  ASSUME PlanInv, KnownInv, QuietInv, Stop
  PROVE  CalmInv
<1> USE DEF rest, context, machine
<1>1. /\ UNCHANGED <<queued, reboot, plan, env, file>> /\ proc' = "off" /\ phase' = "idle"
      /\ NothingDone \/ SourceTorn \/ SomeInstalled \/ SomeWritten \/ SomeMade
  BY DEF Stop
<1>2. UNCHANGED <<packages, lists, keys, made, known, distro>>
  <2>1. CASE NothingDone \/ SomeWritten
    BY <2>1 DEF NothingDone, SomeWritten
  <2>2. CASE SourceTorn
    <3>1. /\ todo # {} /\ ~Skipped /\ Step.kind = "source"
          /\ UNCHANGED <<packages, keys, made, known, distro>>
      BY <2>2 DEF SourceTorn, At, AtStep
    <3>2. \A s \in Args : lists[s] = "whole"
      BY <3>1, StepStands DEF Stands, Args
    <3>3. PICK s \in Args : lists' = [lists EXCEPT ![s] = "whole"]
      BY <2>2, <3>2 DEF SourceTorn
    <3>4. lists = [x \in Sources |-> lists[x]]
      BY DEF KnownInv
    <3>5. [lists EXCEPT ![s] = "whole"] = lists
      BY <3>2, <3>4
    <3> QED
      BY <3>1, <3>3, <3>5
  <2>3. CASE SomeInstalled
    BY <2>3 DEF SomeInstalled, QuietInv
  <2>4. CASE SomeMade
    <3>1. /\ todo # {} /\ ~Skipped /\ Step.kind = "make"
          /\ UNCHANGED <<packages, keys, lists, known, distro>>
      BY <2>4 DEF SomeMade, At, AtStep
    <3>2. Args \subseteq made
      BY <3>1, StepStands DEF Stands, Args
    <3> QED
      BY <2>4, <3>1, <3>2 DEF SomeMade
  <2> QED
    BY <1>1, <2>1, <2>2, <2>3, <2>4
<1>3. Added' = Added /\ Removed' = Removed
  BY <1>1 DEF Added, Removed
<1> QED
  BY <1>1, <1>2, <1>3 DEF Calm, CalmInv, QuietInv

\* Whatever is done while nothing happens from outside is calm.
LEMMA QuietSteps ==
  ASSUME AskedInv, KnownInv, Rules, QuietInv, Next, settled'
  PROVE  CalmInv
<1> USE DEF rest, context, machine
<1>1. PlanInv /\ PhaseInv /\ IInv /\ PlainEdits(Steps)
  BY DEF AskedInv, RebootInv, Rules
<1>2. ASSUME UNCHANGED <<machine, plan, env, file, phase>>, queued' \in {{}, queued},
             proc = "run" \/ proc' = "run" => ~reboot'
      PROVE  CalmInv
  <2>1. Added' \subseteq Added /\ Removed' \subseteq Removed
    BY <1>2 DEF Added, Removed
  <2> QED
    BY <1>2, <2>1 DEF Calm, CalmInv, QuietInv
<1>3. CASE \E mode \in {"run", "sim"} : Begin(mode)
  BY <1>2, <1>3 DEF Begin, edit
<1>4. CASE Skip \/ Mention \/ Complete \/ Panic \/ SimInstall
  <2>1. /\ UNCHANGED <<machine, plan, env, file, phase, reboot>> /\ queued' \in {{}, queued}
        /\ proc' = "run" => proc = "run"
    BY <1>4 DEF Skip, Mention, Complete, Panic, SimInstall, Pass, edit
  <2> QED
    BY <1>2, <2>1 DEF QuietInv
<1>5. CASE Ask
  <2>1. /\ UNCHANGED <<packages, distro, known, lists, keys, made, queued, reboot, plan, env, proc>>
        /\ UNCHANGED <<file, phase>>
    BY <1>5 DEF Ask, Pass, edit
  <2>2. Added' = Added /\ Removed' = Removed
    BY <2>1 DEF Added, Removed
  <2> QED
    BY <2>1, <2>2 DEF Calm, CalmInv, QuietInv
<1>6. CASE PowerFails \/ WorldMoves
  BY <1>6 DEF PowerFails, WorldMoves
<1>7. CASE Select \/ SourceStep \/ Update \/ Install \/ InstallDownloaded \/ Make
  BY <1>1, <1>7, SelectQuiet, SourceQuiet, UpdateQuiet, InstallQuiet, MakeQuiet
<1>8. CASE EditFile \/ EditGoesOn \/ EditEnds \/ Stop
  BY <1>1, <1>8, EditingQuiet, StopQuiet
<1> QED
  BY <1>3, <1>4, <1>5, <1>6, <1>7, <1>8 DEF Next

\* Only a run that completes settles the machine.
LEMMA Settles ==
  ASSUME Next, settled', ~settled
  PROVE  Complete /\ Completing
<1> USE DEF rest, context, machine
<1>1. CASE \E mode \in {"run", "sim"} : Begin(mode)
  BY <1>1 DEF Begin
<1>2. CASE Skip \/ Mention \/ Select \/ SourceStep \/ Update \/ Install \/ SimInstall
  BY <1>2 DEF Skip, Mention, Select, SourceStep, Update, Install, SimInstall, Pass
<1>3. CASE InstallDownloaded \/ Make \/ Ask \/ Panic
  BY <1>3 DEF InstallDownloaded, Make, Ask, Panic, Pass
<1>4. CASE EditFile \/ EditGoesOn \/ EditEnds \/ Stop \/ PowerFails \/ WorldMoves
  BY <1>4 DEF EditFile, EditGoesOn, EditEnds, Stop, PowerFails, WorldMoves, Pass
<1>5. CASE Complete
  BY <1>5 DEF Complete, Completing
<1> QED
  BY <1>1, <1>2, <1>3, <1>4, <1>5 DEF Next

RerunInv == AskedInv /\ KnownInv /\ (Rules /\ settled => QuietInv)

LEMMA RerunBegins == Init => RerunInv
<1> SUFFICES ASSUME Init PROVE RerunInv
  OBVIOUS
<1>1. RebootInv /\ IInv /\ proc = "off" /\ ~settled
  BY RunsBegin, Established DEF Init
<1>2. lists = [s \in Sources |-> lists[s]]
  BY DEF Init
<1> QED
  BY <1>1, <1>2 DEF RerunInv, AskedInv, KnownInv

\* The plan, and why its steps are skipped, stay.
LEMMA RulesStay ==
  ASSUME [Next]_vars
  PROVE  UNCHANGED <<plan, env>> /\ Rules' = Rules
<1>1. UNCHANGED <<plan, env>>
  BY PlanSteps DEF vars, rest
<1> QED
  BY <1>1 DEF Rules, Steps

\* A step that is calm leaves nothing to do.
LEMMA CalmKeeps ==
  ASSUME QuietInv, CalmInv
  PROVE  QuietInv'
<1>1. UNCHANGED <<packages, lists, keys, made, file, known, distro, plan, env>> /\ Steps' = Steps
  BY DEF CalmInv, Calm, Steps
<1>2. ASSUME NEW i \in Does(Steps, env, Kinds)
      PROVE  Stands(Steps[i])'
  <2>1. FirstKnown(Steps[i])' = FirstKnown(Steps[i])
    BY <1>1 DEF FirstKnown
  <2>2. Stands(Steps[i])' <=> Stands(Steps[i])
    BY <1>1, <2>1 DEF Stands
  <2> QED
    BY <2>2 DEF QuietInv
<1>3. Does(Steps, env, {"update"})' = Does(Steps, env, {"update"})
      /\ Does(Steps, env, Kinds)' = Does(Steps, env, Kinds)
  BY <1>1 DEF Does
<1>4. Offered' = Offered
  BY <1>1 DEF Offered
<1> QED
  BY <1>1, <1>2, <1>3, <1>4 DEF CalmInv, QuietInv

LEMMA RerunKept == RerunInv /\ [Next]_vars => RerunInv'
<1> SUFFICES ASSUME RerunInv, [Next]_vars PROVE RerunInv'
  OBVIOUS
<1>1. AskedInv'
  BY AskedKept DEF RerunInv
<1>2. CASE UNCHANGED vars
  <2> USE DEF vars, machine, context, rest, edit
  <2>1. Offered' = Offered
    BY <1>2 DEF Offered
  <2>2. KnownInv'
    BY <1>2, <2>1 DEF RerunInv, KnownInv
  <2>3. settled' = settled /\ (QuietInv => CalmInv)
    <3>1. Added' = Added /\ Removed' = Removed
      BY <1>2 DEF Added, Removed
    <3> QED
      BY <1>2, <3>1 DEF QuietInv, CalmInv, Calm
  <2> QED
    BY <1>1, <2>2, <2>3, RulesStay, CalmKeeps DEF RerunInv
<1>3. CASE Next
  <2>1. KnownInv'
    BY <1>3, KnownKept DEF RerunInv
  <2>2. ASSUME Rules, settled'
        PROVE  QuietInv'
    <3>1. CASE settled
      BY <1>3, <2>2, <3>1, QuietSteps, CalmKeeps DEF RerunInv
    <3>2. CASE ~settled
      BY <1>3, <2>2, <3>2, Settles, QuietBegins DEF RerunInv
    <3> QED
      BY <3>1, <3>2
  <2> QED
    BY <1>1, <2>1, <2>2, RulesStay DEF RerunInv
<1> QED
  BY <1>2, <1>3

LEMMA RerunStep ==
  ASSUME RerunInv, Rules, [Next]_vars, settled, settled', proc = "run"
  PROVE  \/ /\ UNCHANGED <<packages, lists, keys, made, file>>
            /\ ~reboot'
            /\ \A p \in Prompts : conf[p] = "good" => conf'[p] = "good"
         \/ UNCHANGED vars
<1>1. CASE Next
  BY <1>1, QuietSteps, ConfStays DEF RerunInv, CalmInv, Calm
<1> QED
  BY <1>1

\* A run after one that was completed, a killed or failing one too, changes nothing and calls
\* for no reboot, whatever the plan, if its steps are in order and do not undo each other, and
\* whatever the machine was before (plan.go:86-109, apt/steps-packages.go:129-195,
\* textedit/edit-file.go:63-75).
THEOREM RerunChangesNothingCorrect == Spec /\ Rules => RerunChangesNothing
<1>1. Rules /\ [Next]_vars => Rules'
  BY RulesStay
<1>2. RerunInv /\ Rules /\ [Next]_vars
        => [settled /\ settled' /\ proc = "run" =>
              /\ UNCHANGED <<packages, lists, keys, made, file>>
              /\ ~reboot'
              /\ \A p \in Prompts : conf[p] = "good" => conf'[p] = "good"]_vars
  BY RerunStep
<1> QED
  BY <1>1, <1>2, RerunBegins, RerunKept, PTL DEF Spec, RerunChangesNothing
-----------------------------------------------------------------------------
(***************************************************************************)
(* What a step needs, when its turn comes.                                 *)
(***************************************************************************)

\* What an apt update finds of the sources written before it.
OffersOfStep(j) == UNION {Offers[s] : s \in ArgsOf(Steps[j])}

\* What comes first is done first; only the plan writes sources; and the distribution
\* offers what it always offers.
StageInv ==
  /\ todo \in Stages(Steps)
  /\ \A i \in DOMAIN Steps \ todo, j \in DOMAIN Steps : ComesFirst(Steps, j, i) => j \notin todo
ListsInv ==
  \A s \in Sources : lists[s] # "none" => \E i \in Does(Steps, env, {"source"}) : s \in ArgsOf(Steps[i])
AlwaysInv == \A p : AlwaysOffered(p) => p \in distro

\* After an update apt knows what the sources before it offer.
OfferedInv ==
  \A u \in Does(Steps, env, {"update"}) \ todo :
    /\ distro \subseteq known
    /\ \A j \in Does(Steps, env, {"source"}) :
         ComesFirst(Steps, j, u) => OffersOfStep(j) \subseteq known

\* A package is pending because a step wants it, or because apt knew it when no update
\* was left to make apt forget it.
NotedInv ==
  \A p \in Added :
    \/ \E i \in Does(Steps, env, {"packages"}) \ todo : p \in ArgsOf(Steps[i])
    \/ p \in known /\ Does(Steps, env, {"update"}) \cap todo = {}

\* What was pending when packages were installed is installed.
InstalledInv ==
  \A k \in Does(Steps, env, {"install"}) \ todo, j \in Does(Steps, env, {"packages"}) :
    ComesFirst(Steps, j, k) => ArgsOf(Steps[j]) \subseteq packages

ReadyInv ==
  /\ AskedInv /\ KnownInv /\ StageInv /\ ListsInv /\ AlwaysInv
  /\ proc = "run" /\ Tidy(Steps) /\ Ordered(Steps, env) =>
       OfferedInv /\ NotedInv /\ InstalledInv

\* Whose turn it is had to wait for what comes first.
LEMMA TurnComes ==
  ASSUME PlanInv, StageInv, todo # {}, NEW j \in DOMAIN Steps, ComesFirst(Steps, j, Turn)
  PROVE  j \notin todo
<1>1. Turn \in todo /\ Turn = First(Turns(Steps, todo))
  BY TurnIs DEF Turn, Steps
<1>2. ASSUME j \in todo
      PROVE  FALSE
  <2>1. {Turn, j} \subseteq todo /\ todo \in Stages(Steps)
    BY <1>1, <1>2 DEF StageInv
  <2>2. First(Turns(Steps, todo)) # Turn
    BY <2>1 DEF ComesFirst
  <2> QED
    BY <1>1, <2>2
<1> QED
  BY <1>2

LEMMA StageKept ==
  ASSUME PlanInv, StageInv, Next
  PROVE  StageInv'
<1>1. plan' = plan /\ Steps' = Steps
  BY PlanSteps DEF Steps
<1>2. CASE todo' = todo
  BY <1>1, <1>2 DEF StageInv
<1>3. CASE todo' = DOMAIN Steps
  BY <1>1, <1>3 DEF StageInv, Stages
<1>4. CASE todo # {} /\ todo' = todo \ {Turn}
  <2> DEFINE t == Turn
  <2>1. t \in todo /\ \A i \in todo : ~Precedes(Steps, i, t)
    BY <1>4, TurnIs
  <2>2. \A j \in DOMAIN Steps : ComesFirst(Steps, j, t) => j \notin todo
    BY <1>4, TurnComes
  <2>3. /\ todo \in SUBSET DOMAIN Steps
        /\ \A i \in todo, j \in DOMAIN Steps : Precedes(Steps, i, j) => j \in todo
        /\ \A i \in DOMAIN Steps \ todo, j \in DOMAIN Steps :
             ComesFirst(Steps, j, i) => j \notin todo
    BY DEF StageInv, Stages
  <2>4. todo' = todo \ {t}
    BY <1>4
  <2> HIDE DEF t
  <2>5. todo' \in Stages(Steps)
    BY <2>1, <2>3, <2>4 DEF Stages
  <2>6. \A i \in DOMAIN Steps \ todo', j \in DOMAIN Steps : ComesFirst(Steps, j, i) => j \notin todo'
    BY <2>1, <2>2, <2>3, <2>4
  <2> QED
    BY <1>1, <2>5, <2>6 DEF StageInv
<1> QED
  BY <1>2, <1>3, <1>4, PlanSteps

\* The sources written are the plan's.
LEMMA ListsKept ==
  ASSUME PlanInv, KnownInv, ListsInv, Next
  PROVE  ListsInv'
<1> USE DEF rest, context, machine
<1>1. UNCHANGED <<plan, env>> /\ Steps' = Steps
  BY PlanSteps DEF Steps
<1>2. CASE UNCHANGED lists
  BY <1>1, <1>2 DEF ListsInv
<1>3. ASSUME todo # {}, ~Skipped, Step.kind = "source",
             \A s \in Sources \ Args : lists'[s] = lists[s]
      PROVE  ListsInv'
  <2>1. Turn \in Does(Steps, env, {"source"}) /\ Args = ArgsOf(Steps[Turn])
    BY <1>3, TurnIs DEF Does, Skipped, Args
  <2>2. ASSUME NEW s \in Sources, lists'[s] # "none"
        PROVE  \E i \in Does(Steps, env, {"source"}) : s \in ArgsOf(Steps[i])
    BY <1>3, <2>1, <2>2 DEF ListsInv
  <2> QED
    BY <1>1, <2>2 DEF ListsInv
<1>4. CASE SourceStep
  BY <1>2, <1>3, <1>4 DEF SourceStep, At, AtStep
<1>5. CASE Stop
  <2>1. CASE SourceTorn
    <3>1. /\ todo # {} /\ ~Skipped /\ Step.kind = "source"
          /\ \E s \in Args : \E v : lists' = [lists EXCEPT ![s] = v]
      BY <2>1 DEF SourceTorn, At, AtStep
    <3>2. lists = [s \in Sources |-> lists[s]]
      BY DEF KnownInv
    <3>3. \A s \in Sources \ Args : lists'[s] = lists[s]
      BY <3>1, <3>2
    <3> QED
      BY <1>3, <3>1, <3>3
  <2> QED
    BY <1>2, <1>5, <2>1 DEF Stop, NothingDone, SomeInstalled, SomeWritten, SomeMade
<1>6. CASE \E mode \in {"run", "sim"} : Begin(mode)
  BY <1>2, <1>6 DEF Begin
<1>7. CASE Skip \/ Mention \/ Complete
  BY <1>2, <1>7 DEF Skip, Mention, Complete
<1>8. CASE Select \/ Update \/ Install \/ SimInstall \/ InstallDownloaded
  BY <1>2, <1>8 DEF Select, Update, Install, SimInstall, InstallDownloaded
<1>9. CASE Make \/ Ask \/ Panic \/ WorldMoves
  BY <1>2, <1>9 DEF Make, Ask, Panic, WorldMoves
<1>10. CASE EditFile \/ EditGoesOn \/ EditEnds \/ PowerFails
  BY <1>2, <1>10 DEF EditFile, EditGoesOn, EditEnds, PowerFails
<1> QED
  BY <1>4, <1>5, <1>6, <1>7, <1>8, <1>9, <1>10 DEF Next

\* The distribution changes only to another one there may be, and not during a run.
LEMMA DistroSteps ==
  ASSUME Next
  PROVE  (distro' = distro \/ distro' \in Distros) /\ (proc = "run" => distro' = distro)
<1> USE DEF rest, context, machine
<1>1. CASE \E mode \in {"run", "sim"} : Begin(mode)
  BY <1>1 DEF Begin
<1>2. CASE Skip \/ Mention \/ Complete
  BY <1>2 DEF Skip, Mention, Complete
<1>3. CASE Select \/ SourceStep \/ Update \/ Install \/ SimInstall \/ InstallDownloaded
  BY <1>3 DEF Select, SourceStep, Update, Install, SimInstall, InstallDownloaded
<1>4. CASE Make \/ Ask \/ Panic
  BY <1>4 DEF Make, Ask, Panic
<1>5. CASE EditFile \/ EditGoesOn \/ EditEnds \/ PowerFails
  BY <1>5 DEF EditFile, EditGoesOn, EditEnds, PowerFails
<1>6. CASE Stop
  BY <1>6 DEF Stop, NothingDone, SourceTorn, SomeInstalled, SomeWritten, SomeMade
<1>7. CASE WorldMoves
  BY <1>7 DEF WorldMoves
<1> QED
  BY <1>1, <1>2, <1>3, <1>4, <1>5, <1>6, <1>7 DEF Next

LEMMA AlwaysKept ==
  ASSUME AlwaysInv, Next
  PROVE  AlwaysInv'
<1>1. CASE distro' = distro
  BY <1>1 DEF AlwaysInv
<1>2. CASE distro' \in Distros
  BY <1>2 DEF AlwaysInv, AlwaysOffered
<1> QED
  BY <1>1, <1>2, DistroSteps

\* Only an update changes what apt knows.
LEMMA KnownSteps ==
  ASSUME RunsOn, ~Update
  PROVE  known' = known
<1> USE DEF rest, context, machine
<1>1. CASE Skip \/ Select \/ SourceStep \/ Install \/ InstallDownloaded
  BY <1>1 DEF Skip, Select, SourceStep, Install, InstallDownloaded
<1>2. CASE Make \/ Ask \/ EditFile \/ EditGoesOn \/ EditEnds
  BY <1>2 DEF Make, Ask, EditFile, EditGoesOn, EditEnds
<1> QED
  BY <1>1, <1>2 DEF RunsOn

\* A step of a run that passes the turn on is one of the kind whose turn it is.
LEMMA Passes ==
  ASSUME PhaseInv, RunsOn, todo' # todo
  PROVE  /\ todo # {} /\ todo' = todo \ {Turn}
         /\ ~Skipped /\ Step.kind = "update" => Update
         /\ ~Skipped /\ Step.kind = "install" => Install
         /\ ~Skipped /\ Step.kind = "packages" => Select
<1>1. CASE Select \/ SourceStep
  BY <1>1 DEF Select, SourceStep, At, AtStep, Pass
<1>2. CASE Update \/ Install \/ InstallDownloaded
  BY <1>2 DEF Update, Install, InstallDownloaded, At, AtStep, Pass
<1>3. CASE Make \/ Ask \/ Skip
  BY <1>3 DEF Make, Ask, Skip, At, AtStep, Pass
<1>4. CASE EditFile \/ EditGoesOn
  BY <1>4 DEF EditFile, EditGoesOn
<1>5. CASE EditEnds
  BY <1>5 DEF EditEnds, Pass, PhaseInv
<1> QED
  BY <1>1, <1>2, <1>3, <1>4, <1>5 DEF RunsOn

\* What an update makes known: what the distribution offers, and the sources there are.
LEMMA UpdateKnows ==
  ASSUME PlanInv, StageInv, DoneInv, KnownInv, Update
  PROVE  /\ known' = Offered /\ todo # {} /\ Turn \in Does(Steps, env, {"update"})
         /\ todo' = todo \ {Turn}
         /\ \A j \in Does(Steps, env, {"source"}) :
              ComesFirst(Steps, j, Turn) => OffersOfStep(j) \subseteq known'
<1>1. /\ todo # {} /\ ~Skipped /\ proc = "run" /\ Step.kind = "update"
      /\ todo' = todo \ {Turn}
      /\ known' = Offered \/ (dirty = "no" /\ known' = known)
  BY DEF Update, At, AtStep, Pass
<1>2. known' = Offered
  BY <1>1 DEF KnownInv
<1>3. Turn \in Does(Steps, env, {"update"})
  BY <1>1, TurnIs DEF Does, Skipped
<1>4. ASSUME NEW j \in Does(Steps, env, {"source"}), ComesFirst(Steps, j, Turn)
      PROVE  OffersOfStep(j) \subseteq known'
  <2>1. j \in DOMAIN Steps /\ Steps[j].kind = "source" /\ j \in Does(Steps, env, Kinds)
    BY DEF Does, Kinds
  <2>2. j \notin todo
    BY <1>1, <1>4, <2>1, TurnComes
  <2>3. \A s \in ArgsOf(Steps[j]) : lists[s] = "whole"
    BY <2>1, <2>2 DEF DoneInv, Achieved
  <2>4. ArgsOf(Steps[j]) \subseteq Sources
    BY <2>1, StepsAssumption DEF PlanInv, Steps
  <2> QED
    BY <1>2, <2>3, <2>4 DEF OffersOfStep, Offered
<1> QED
  BY <1>1, <1>2, <1>3, <1>4

LEMMA OfferedKept ==
  ASSUME PlanInv, PhaseInv, StageInv, KnownInv, Next, proc' = "run",
         proc = "run" => DoneInv /\ OfferedInv
  PROVE  OfferedInv'
<1>1. UNCHANGED <<plan, env>> /\ Steps' = Steps
  BY PlanSteps DEF Steps
<1>2. CASE Begin("run")
  <2>1. Does(Steps, env, {"update"}) \ todo' = {}
    BY <1>2 DEF Begin, Does, Steps
  <2> QED
    BY <1>1, <2>1 DEF OfferedInv
<1>3. ASSUME RunsOn, proc = "run"
      PROVE  OfferedInv'
  <2>1. distro' = distro /\ OfferedInv /\ DoneInv
    BY <1>3, DistroSteps
  <2>2. \A j : OffersOfStep(j)' = OffersOfStep(j)
    BY <1>1 DEF OffersOfStep
  <2>3. CASE Update
    <3>1. /\ known' = Offered /\ todo' = todo \ {Turn}
          /\ \A j \in Does(Steps, env, {"source"}) :
               ComesFirst(Steps, j, Turn) => OffersOfStep(j) \subseteq known'
      BY <2>1, <2>3, UpdateKnows
    <3>2. ASSUME NEW u \in Does(Steps, env, {"update"}) \ todo',
                 NEW j \in Does(Steps, env, {"source"}), ComesFirst(Steps, j, u)
          PROVE  OffersOfStep(j) \subseteq known'
      <4>1. CASE u = Turn
        BY <3>1, <3>2, <4>1
      <4>2. CASE u \notin todo
        <5>1. j \in DOMAIN Steps /\ u \in DOMAIN Steps
          BY DEF Does
        <5>2. j \notin todo
          BY <3>2, <4>2, <5>1 DEF StageInv
        <5>3. Steps[j].kind = "source" /\ j \in Does(Steps, env, Kinds)
          BY DEF Does, Kinds
        <5>4. \A s \in ArgsOf(Steps[j]) : lists[s] = "whole"
          BY <2>1, <5>2, <5>3 DEF DoneInv, Achieved
        <5>5. ArgsOf(Steps[j]) \subseteq Sources
          BY <5>1, <5>3, StepsAssumption DEF PlanInv, Steps
        <5> QED
          BY <3>1, <5>4, <5>5 DEF OffersOfStep, Offered
      <4> QED
        BY <3>1, <4>1, <4>2
    <3>3. distro' \subseteq known'
      BY <2>1, <3>1 DEF Offered
    <3> QED
      BY <1>1, <2>2, <3>2, <3>3 DEF OfferedInv
  <2>4. CASE ~Update
    <3>1. known' = known
      BY <1>3, <2>4, KnownSteps
    <3>2. ASSUME NEW u \in Does(Steps, env, {"update"}) \ todo'
          PROVE  u \notin todo
      <4>1. Steps[u].kind = "update" /\ Steps[u].skip \cap env = {}
        BY DEF Does
      <4>2. CASE todo' = todo
        BY <3>2, <4>2
      <4>3. CASE todo' # todo
        <5>1. todo # {} /\ todo' = todo \ {Turn} /\ ~(~Skipped /\ Step.kind = "update")
          BY <1>3, <2>4, <4>3, Passes
        <5>2. u # Turn
          BY <4>1, <5>1, TurnIs DEF Skipped
        <5> QED
          BY <3>2, <5>1, <5>2
      <4> QED
        BY <4>2, <4>3
    <3> QED
      BY <1>1, <2>1, <2>2, <3>1, <3>2 DEF OfferedInv
  <2> QED
    BY <2>3, <2>4
<1> QED
  BY <1>2, <1>3, RunCases

\* Who is done, of the steps that are not skipped, was done before or has just been.
LEMMA JustDone ==
  ASSUME PlanInv, PhaseInv, RunsOn, UNCHANGED <<plan, env>>, NEW kinds,
         NEW i \in Does(Steps, env, kinds) \ todo'
  PROVE  \/ i \notin todo
         \/ /\ i = Turn /\ Step = Steps[i] /\ ~Skipped /\ Step.kind \in kinds /\ todo # {}
            /\ Step.kind = "update" => Update
            /\ Step.kind = "install" => Install
            /\ Step.kind = "packages" => Select
<1>1. Steps[i].kind \in kinds /\ Steps[i].skip \cap env = {}
  BY DEF Does
<1>2. CASE todo' = todo
  BY <1>2
<1>3. CASE todo' # todo /\ i = Turn
  BY <1>1, <1>3, Passes, TurnIs DEF Skipped
<1>4. CASE todo' # todo /\ i # Turn
  BY <1>4, Passes
<1> QED
  BY <1>2, <1>3, <1>4

\* What a step adds to the pending packages.
LEMMA Adds ==
  ASSUME PlanInv, Select, NEW p \in Added', p \notin Added
  PROVE  /\ todo # {} /\ ~Skipped /\ Step.kind \in Selecting /\ p \in Args
         /\ Step.kind \in {"if available", "first available"} => p \in known
<1>1. /\ todo # {} /\ ~Skipped /\ Step.kind \in Selecting \cup {"remove"}
      /\ queued' = queued \cup Selected
  BY DEF Select, At, AtStep, Selecting
<1>2. PICK q \in Selected : q[1] = "+" /\ q[2] = p
  BY <1>1 DEF Added
<1>3. \A k \in DOMAIN Step.args : Step.args[k] \in Args
  BY DEF Args, ArgsOf
<1>4. CASE Step.kind = "packages"
  <2>1. Selected = {<<"+", x>> : x \in Args}
    BY <1>4 DEF Selected
  <2>2. p \in Args
    BY <1>2, <2>1
  <2> QED
    BY <1>1, <1>4, <2>2 DEF Selecting
<1>5. CASE Step.kind = "if available"
  <2>1. Selected = {<<"+", x>> : x \in Args \cap known}
    BY <1>5 DEF Selected
  <2>2. p \in Args \cap known
    BY <1>2, <2>1
  <2> QED
    BY <1>1, <1>5, <2>2 DEF Selecting
<1>6. CASE Step.kind = "first available"
  <2>1. Selected = {<<"+", x>> : x \in FirstKnown(Step)}
    BY <1>6 DEF Selected
  <2>2. p \in FirstKnown(Step)
    BY <1>2, <2>1
  <2>3. p \in Args /\ p \in known
    BY <1>3, <2>2 DEF FirstKnown
  <2> QED
    BY <1>1, <1>6, <2>3 DEF Selecting
<1>7. CASE Step.kind = "remove"
  <2>1. Selected = {<<"-", x>> : x \in Args \cap (known \cup packages)}
    BY <1>7 DEF Selected
  <2>2. q[1] = "-"
    BY <1>2, <2>1
  <2>3. "-" # "+"
    OBVIOUS
  <2> QED
    BY <1>2, <2>2, <2>3
<1> QED
  BY <1>1, <1>4, <1>5, <1>6, <1>7 DEF Selecting

\* Nothing else adds to them.
LEMMA OthersAddNothing ==
  ASSUME RunsOn, ~Select
  PROVE  Added' \subseteq Added
<1> USE DEF rest, context, machine
<1>1. queued' = queued \/ queued' = {}
  <2>1. CASE SourceStep \/ Update
    BY <2>1 DEF SourceStep, Update
  <2>2. CASE Install \/ InstallDownloaded
    BY <2>2 DEF Install, InstallDownloaded, Installs
  <2>3. CASE Make \/ Ask \/ Skip
    BY <2>3 DEF Make, Ask, Skip
  <2>4. CASE EditFile \/ EditGoesOn \/ EditEnds
    BY <2>4 DEF EditFile, EditGoesOn, EditEnds
  <2> QED
    BY <2>1, <2>2, <2>3, <2>4 DEF RunsOn
<1> QED
  BY <1>1 DEF Added

LEMMA NotedKept ==
  ASSUME PlanInv, PhaseInv, Ordered(Steps, env), Next, proc' = "run",
         proc = "run" => NotedInv
  PROVE  NotedInv'
<1>1. UNCHANGED <<plan, env>> /\ Steps' = Steps
  BY PlanSteps DEF Steps
<1>2. CASE Begin("run")
  <2>1. Added' = {}
    BY <1>2 DEF Begin, Added
  <2> QED
    BY <2>1 DEF NotedInv
<1>3. ASSUME RunsOn, proc = "run"
      PROVE  NotedInv'
  <2>1. todo' \subseteq todo /\ (todo' # todo => todo' = todo \ {Turn})
    BY <1>3, Passes
  <2>2. ASSUME NEW p \in Added, p \in Added'
        PROVE  \/ \E i \in Does(Steps, env, {"packages"}) \ todo' : p \in ArgsOf(Steps[i])
               \/ p \in known' /\ Does(Steps, env, {"update"}) \cap todo' = {}
    <3>1. CASE \E i \in Does(Steps, env, {"packages"}) \ todo : p \in ArgsOf(Steps[i])
      BY <2>1, <3>1
    <3>2. CASE p \in known /\ Does(Steps, env, {"update"}) \cap todo = {}
      <4>1. ~Update
        <5>1. ASSUME Update
              PROVE  Turn \in Does(Steps, env, {"update"}) \cap todo
          <6>1. todo # {} /\ ~Skipped /\ Step.kind = "update"
            BY <5>1 DEF Update, At, AtStep
          <6> QED
            BY <6>1, TurnIs DEF Does, Skipped
        <5> QED
          BY <3>2, <5>1
      <4>2. known' = known
        BY <1>3, <4>1, KnownSteps
      <4> QED
        BY <2>1, <3>2, <4>2
    <3> QED
      BY <1>3, <3>1, <3>2 DEF NotedInv
  <2>3. ASSUME NEW p \in Added', p \notin Added
        PROVE  \/ \E i \in Does(Steps, env, {"packages"}) \ todo' : p \in ArgsOf(Steps[i])
               \/ p \in known' /\ Does(Steps, env, {"update"}) \cap todo' = {}
    <3>1. Select
      BY <1>3, <2>3, OthersAddNothing
    <3>2. /\ todo # {} /\ ~Skipped /\ Step.kind \in Selecting /\ p \in Args
          /\ Step.kind \in {"if available", "first available"} => p \in known
      BY <2>3, <3>1, Adds
    <3>3. /\ Turn \in DOMAIN Steps /\ Step = Steps[Turn] /\ Args = ArgsOf(Steps[Turn])
          /\ Steps[Turn].skip \cap env = {}
      BY <3>2, TurnIs DEF Args, Skipped
    <3>4. todo' = todo \ {Turn} /\ known' = known
      BY <3>1 DEF Select, Pass, machine
    <3>5. CASE Step.kind = "packages"
      <4>1. Turn \in Does(Steps, env, {"packages"}) \ todo'
        BY <3>3, <3>4, <3>5 DEF Does
      <4> QED
        BY <3>2, <3>3, <4>1
    <3>6. CASE Step.kind \in {"if available", "first available"}
      <4>1. Turn \in Does(Steps, env, {"if available", "first available"})
        BY <3>3, <3>6 DEF Does
      <4>2. \A u \in Does(Steps, env, {"update"}) : Precedes(Steps, u, Turn)
        BY <4>1 DEF Ordered
      <4>3. Does(Steps, env, {"update"}) \cap todo' = {}
        BY <3>2, <3>4, <4>2, TurnIs
      <4> QED
        BY <3>2, <3>4, <3>6, <4>3
    <3> QED
      BY <3>2, <3>5, <3>6 DEF Selecting
  <2> QED
    BY <1>1, <2>2, <2>3 DEF NotedInv
<1> QED
  BY <1>2, <1>3, RunCases

\* A run never takes away what it wants.
LEMMA WantedStays ==
  ASSUME PlanInv, Tidy(Steps), PackagesInv, RunsOn
  PROVE  \A p \in Wanted : p \in packages => p \in packages'
<1> USE DEF rest, context, machine
<1>1. CASE Select \/ SourceStep \/ Update
  BY <1>1 DEF Select, SourceStep, Update
<1>2. CASE Install \/ InstallDownloaded
  <2>1. packages' = packages \/ packages \ Removed \subseteq packages'
    BY <1>2 DEF Install, InstallDownloaded, Installs
  <2>2. Removed \cap Wanted = {}
    BY Apart DEF PackagesInv
  <2> QED
    BY <2>1, <2>2
<1>3. CASE Make \/ Ask \/ Skip
  BY <1>3 DEF Make, Ask, Skip
<1>4. CASE EditFile \/ EditGoesOn \/ EditEnds
  BY <1>4 DEF EditFile, EditGoesOn, EditEnds
<1> QED
  BY <1>1, <1>2, <1>3, <1>4 DEF RunsOn

LEMMA InstalledKept ==
  ASSUME PlanInv, PhaseInv, StageInv, Tidy(Steps), Next, proc' = "run",
         proc = "run" => PackagesInv /\ DoneInv /\ InstalledInv
  PROVE  InstalledInv'
<1>1. UNCHANGED <<plan, env>> /\ Steps' = Steps
  BY PlanSteps DEF Steps
<1>2. CASE Begin("run")
  <2>1. Does(Steps, env, {"install"}) \ todo' = {}
    BY <1>2 DEF Begin, Does, Steps
  <2> QED
    BY <1>1, <2>1 DEF InstalledInv
<1>3. ASSUME RunsOn, proc = "run"
      PROVE  InstalledInv'
  <2>1. ASSUME NEW k \in Does(Steps, env, {"install"}) \ todo',
               NEW j \in Does(Steps, env, {"packages"}), ComesFirst(Steps, j, k)
        PROVE  ArgsOf(Steps[j]) \subseteq packages'
    <3>1. /\ j \in DOMAIN Steps /\ Steps[j].kind = "packages" /\ j \in Does(Steps, env, Kinds)
          /\ ArgsOf(Steps[j]) \subseteq Wanted
      BY DEF Does, Kinds, Wanted, ArgsIn, Selecting
    <3>2. CASE k \notin todo
      <4>1. ArgsOf(Steps[j]) \subseteq packages
        BY <1>3, <2>1, <3>2 DEF InstalledInv
      <4> QED
        BY <1>3, <3>1, <4>1, WantedStays
    <3>3. CASE k \in todo
      <4>1. k = Turn /\ Install /\ todo # {}
        <5>1. k \in Does(Steps, env, {"install"}) /\ Steps[k].kind = "install"
          BY DEF Does
        <5> QED
          BY <1>1, <1>3, <3>3, <5>1, JustDone
      <4>2. j \notin todo
        BY <2>1, <3>1, <4>1, TurnComes
      <4>3. ArgsOf(Steps[j]) \subseteq packages \cup Added
        BY <1>3, <3>1, <4>2 DEF DoneInv, Achieved
      <4>4. packages' = (packages \ Removed) \cup Added
        BY <4>1 DEF Install, Installs
      <4>5. Removed \cap Wanted = {}
        BY <1>3, Apart DEF PackagesInv
      <4> QED
        BY <3>1, <4>3, <4>4, <4>5
    <3> QED
      BY <3>2, <3>3
  <2> QED
    BY <1>1, <2>1 DEF InstalledInv
<1> QED
  BY <1>2, <1>3, RunCases

LEMMA ReadyBegins == Init => ReadyInv
<1> SUFFICES ASSUME Init PROVE ReadyInv
  OBVIOUS
<1>1. /\ RebootInv /\ IInv /\ proc = "off" /\ todo = {} /\ lists = [s \in Sources |-> "none"]
  BY RunsBegin, Established DEF Init
<1>2. AskedInv /\ KnownInv /\ ListsInv
  BY <1>1 DEF AskedInv, KnownInv, ListsInv
<1>3. todo \in Stages(Steps)
  BY <1>1 DEF Stages
<1>4. StageInv
  BY <1>1, <1>3 DEF StageInv
<1>5. \E s \in Setups : distro = s.distro
  BY DEF Init
<1>6. AlwaysInv
  BY <1>5 DEF AlwaysInv, AlwaysOffered
<1> QED
  BY <1>1, <1>2, <1>4, <1>6 DEF ReadyInv

LEMMA ReadyRests ==
  ASSUME UNCHANGED vars
  PROVE  /\ KnownInv' = KnownInv /\ StageInv' = StageInv /\ ListsInv' = ListsInv
         /\ AlwaysInv' = AlwaysInv
         /\ OfferedInv' = OfferedInv /\ NotedInv' = NotedInv /\ InstalledInv' = InstalledInv
<1> USE DEF vars, machine, context, rest, edit
<1>1. /\ UNCHANGED <<plan, env, todo, packages, known, distro, lists, queued, proc, dirty>>
      /\ Steps' = Steps
  BY DEF Steps
<1>2. Added' = Added /\ Offered' = Offered
  BY <1>1 DEF Added, Offered
<1>3. KnownInv' = KnownInv /\ AlwaysInv' = AlwaysInv
  BY <1>1, <1>2 DEF KnownInv, AlwaysInv
<1>4. StageInv' = StageInv /\ ListsInv' = ListsInv
  BY <1>1 DEF StageInv, ListsInv
<1>5. \A j : OffersOfStep(j)' = OffersOfStep(j)
  BY <1>1 DEF OffersOfStep
<1>6. OfferedInv' = OfferedInv
  BY <1>1, <1>5 DEF OfferedInv
<1>7. NotedInv' = NotedInv /\ InstalledInv' = InstalledInv
  BY <1>1, <1>2 DEF NotedInv, InstalledInv
<1> QED
  BY <1>3, <1>4, <1>6, <1>7

LEMMA ReadyKept == ReadyInv /\ [Next]_vars => ReadyInv'
<1> SUFFICES ASSUME ReadyInv, [Next]_vars PROVE ReadyInv'
  OBVIOUS
<1>1. AskedInv'
  BY AskedKept DEF ReadyInv
<1>2. CASE UNCHANGED vars
  <2>1. /\ proc' = proc /\ Tidy(Steps)' = Tidy(Steps)
        /\ Ordered(Steps, env)' = Ordered(Steps, env)
    BY <1>2, RunsRest, DoneRests
  <2> QED
    BY <1>1, <1>2, <2>1, ReadyRests DEF ReadyInv
<1>3. CASE Next
  <2>1. PlanInv /\ PhaseInv
    BY DEF ReadyInv, AskedInv, RebootInv
  <2>2. KnownInv' /\ StageInv' /\ ListsInv' /\ AlwaysInv'
    BY <1>3, <2>1, KnownKept, StageKept, ListsKept, AlwaysKept DEF ReadyInv
  <2>3. ASSUME proc' = "run", Tidy(Steps)', Ordered(Steps, env)'
        PROVE  OfferedInv' /\ NotedInv' /\ InstalledInv'
    <3>1. Tidy(Steps) /\ Ordered(Steps, env)
      <4>1. UNCHANGED <<plan, env>>
        BY <1>3, PlanSteps
      <4> QED
        BY <2>3, <4>1 DEF Steps
    <3>2. proc = "run" => PackagesInv /\ DoneInv /\ OfferedInv /\ NotedInv /\ InstalledInv
      BY <3>1 DEF ReadyInv, AskedInv, RebootInv
    <3>3. KnownInv /\ StageInv
      BY DEF ReadyInv
    <3> QED
      BY <1>3, <2>1, <2>3, <3>1, <3>2, <3>3, OfferedKept, NotedKept, InstalledKept
  <2> QED
    BY <1>1, <2>2, <2>3 DEF ReadyInv
<1> QED
  BY <1>2, <1>3

\* What holds when a step has its turn in a run of a plan that keeps to the rules.
AtTurn ==
  /\ ReadyInv /\ Tidy(Steps) /\ Ordered(Steps, env) /\ Supplied(Steps, env)
  /\ proc = "run" /\ AtStep /\ ~Skipped

LEMMA AtTurnIs ==
  ASSUME AtTurn
  PROVE  /\ PlanInv /\ StageInv /\ ListsInv /\ AlwaysInv /\ DoneInv /\ PackagesInv
         /\ OfferedInv /\ NotedInv /\ InstalledInv
         /\ todo # {} /\ Turn \in todo /\ Turn \in DOMAIN Steps /\ Step = Steps[Turn]
         /\ \A kinds : Step.kind \in kinds => Turn \in Does(Steps, env, kinds)
         /\ \A j \in DOMAIN Steps : ComesFirst(Steps, j, Turn) => j \notin todo
         /\ Args = ArgsOf(Steps[Turn])
<1>1. /\ PlanInv /\ StageInv /\ ListsInv /\ AlwaysInv /\ DoneInv /\ PackagesInv
      /\ OfferedInv /\ NotedInv /\ InstalledInv /\ todo # {}
  BY DEF AtTurn, ReadyInv, AskedInv, RebootInv, AtStep
<1>2. Turn \in todo /\ Turn \in DOMAIN Steps /\ Step = Steps[Turn]
  BY <1>1, TurnIs
<1>3. \A kinds : Step.kind \in kinds => Turn \in Does(Steps, env, kinds)
  BY <1>2 DEF AtTurn, Does, Skipped
<1>4. \A j \in DOMAIN Steps : ComesFirst(Steps, j, Turn) => j \notin todo
  BY <1>1, TurnComes
<1> QED
  BY <1>1, <1>2, <1>3, <1>4 DEF Args

\* An update finds the sources anyone can read whole, and their keys.
LEMMA UpdateReady ==
  ASSUME AtTurn, Step.kind = "update", ~CanUpdate
  PROVE  \E s \in Sources : lists[s] # "none" /\ Needs[s] # {} /\ ~Readable(s)
<1>1. PICK s \in Sources : lists[s] # "none" /\ ~Readable(s)
  BY DEF CanUpdate
<1>2. ASSUME Needs[s] = {}
      PROVE  FALSE
  <2>1. PICK i \in Does(Steps, env, {"source"}) : s \in ArgsOf(Steps[i])
    BY <1>1, AtTurnIs DEF ListsInv
  <2>2. Turn \in Does(Steps, env, {"update"})
    BY AtTurnIs
  <2>3. ComesFirst(Steps, i, Turn)
    BY <1>2, <2>1, <2>2 DEF AtTurn, Supplied
  <2>4. i \in DOMAIN Steps /\ Steps[i].kind = "source" /\ i \in Does(Steps, env, Kinds)
    BY <2>1 DEF Does, Kinds
  <2>5. i \notin todo
    BY <2>3, <2>4, AtTurnIs
  <2>6. lists[s] = "whole" /\ KeyOf[s] \in keys
    BY <2>1, <2>4, <2>5, AtTurnIs DEF DoneInv, Achieved
  <2> QED
    BY <1>1, <1>2, <2>6 DEF Readable
<1> QED
  BY <1>1, <1>2

\* apt knows the packages that are pending when some are installed.
LEMMA InstallReady ==
  ASSUME AtTurn, Step.kind \in {"install", "deb"}
  PROVE  Unknown \subseteq Removed
<1> SUFFICES ASSUME NEW p \in Added, p \notin known
             PROVE  FALSE
  BY DEF Unknown
<1>1. PICK i \in Does(Steps, env, {"packages"}) \ todo : p \in ArgsOf(Steps[i])
  BY AtTurnIs DEF NotedInv
<1>2. Turn \in Does(Steps, env, {"install", "deb"}) /\ i \in DOMAIN Steps
  BY AtTurnIs DEF Does
<1>3. CASE ComesFirst(Steps, Turn, i)
  <2>1. Turn \notin todo
    BY <1>1, <1>2, <1>3, AtTurnIs DEF StageInv
  <2> QED
    BY <2>1, AtTurnIs
<1>4. CASE ~ComesFirst(Steps, Turn, i)
  <2>1. PICK u \in Does(Steps, env, {"update"}) :
          /\ ComesFirst(Steps, u, Turn)
          /\ \/ AlwaysOffered(p)
             \/ \E j \in Does(Steps, env, {"source"}) :
                  ComesFirst(Steps, j, u) /\ p \in OffersOfStep(j)
    BY <1>1, <1>2, <1>4 DEF AtTurn, Supplied, OffersOfStep
  <2>2. u \in Does(Steps, env, {"update"}) \ todo
    BY <2>1, AtTurnIs DEF Does
  <2>3. CASE AlwaysOffered(p)
    <3>1. p \in distro
      BY <2>3, AtTurnIs DEF AlwaysInv
    <3> QED
      BY <2>2, <3>1, AtTurnIs DEF OfferedInv
  <2>4. CASE ~AlwaysOffered(p)
    BY <2>1, <2>2, <2>4, AtTurnIs DEF OfferedInv
  <2> QED
    BY <2>3, <2>4
<1> QED
  BY <1>3, <1>4

\* What a command needs is there.
LEMMA CommandReady ==
  ASSUME AtTurn, Step.kind \in {"make", "join"}
  PROVE  Step.needs \subseteq Have
<1> SUFFICES ASSUME NEW n \in Step.needs
             PROVE  n \in Have
  OBVIOUS
<1>1. Turn \in Does(Steps, env, {"make", "join"}) /\ Step = Steps[Turn]
  BY AtTurnIs
<1>2. \/ \E j \in Does(Steps, env, {"make", "join", "deb"}) :
           ComesFirst(Steps, j, Turn) /\ n \in ArgsOf(Steps[j])
      \/ \E j \in Does(Steps, env, {"packages"}), k \in Does(Steps, env, {"install"}) :
           ComesFirst(Steps, j, k) /\ ComesFirst(Steps, k, Turn) /\ n \in ArgsOf(Steps[j])
  BY <1>1 DEF AtTurn, Supplied
<1>3. ASSUME NEW j \in Does(Steps, env, {"make", "join", "deb"}),
             ComesFirst(Steps, j, Turn), n \in ArgsOf(Steps[j])
      PROVE  n \in Have
  <2>1. /\ j \in DOMAIN Steps /\ Steps[j].kind \in {"make", "join", "deb"}
        /\ j \in Does(Steps, env, Kinds)
    BY DEF Does, Kinds
  <2>2. Achieved(Steps[j])
    BY <1>3, <2>1, AtTurnIs DEF DoneInv
  <2> QED
    BY <1>3, <2>1, <2>2 DEF Achieved, Have
<1>4. ASSUME NEW j \in Does(Steps, env, {"packages"}), NEW k \in Does(Steps, env, {"install"}),
             ComesFirst(Steps, j, k), ComesFirst(Steps, k, Turn), n \in ArgsOf(Steps[j])
      PROVE  n \in Have
  <2>1. k \in Does(Steps, env, {"install"}) \ todo
    BY <1>4, AtTurnIs DEF Does
  <2> QED
    BY <1>4, <2>1, AtTurnIs DEF InstalledInv, Have
<1> QED
  BY <1>2, <1>3, <1>4

\* When a run comes to a step, all it needs has been done, whatever earlier runs left behind
\* and others did between: apt can read the sources it is to read, unless they ask for a
\* login that was skipped or taken back, knows the packages it is to install, and commands
\* find what they are run for, when the plan puts what supplies something before what needs
\* it (plan.go:86-109, apt/steps-packages.go:40-195, gcloud/addon.go).
THEOREM ReadyWhenReachedCorrect ==
  Spec => [](Tidy(Steps) /\ Ordered(Steps, env) /\ Supplied(Steps, env) => ReadyWhenReached)
<1>1. ReadyInv =>
        (Tidy(Steps) /\ Ordered(Steps, env) /\ Supplied(Steps, env) => ReadyWhenReached)
  <2> SUFFICES ASSUME AtTurn, Doomed
               PROVE  \/ /\ Step.kind = "update"
                         /\ \E s \in Sources : lists[s] # "none" /\ Needs[s] # {} /\ ~Readable(s)
                      \/ Step.kind \in {"install", "deb"} /\ Unknown \subseteq Removed
    BY DEF AtTurn, ReadyWhenReached
  <2>1. CASE Step.kind = "update"
    BY <2>1, UpdateReady DEF Doomed
  <2>2. CASE Step.kind \in {"install", "deb"}
    BY <2>2, InstallReady
  <2>3. CASE Step.kind \in {"make", "join"}
    BY <2>3, CommandReady DEF Doomed
  <2> QED
    BY <2>1, <2>2, <2>3 DEF Doomed
<1> QED
  BY <1>1, ReadyBegins, ReadyKept, PTL DEF Spec
=============================================================================
