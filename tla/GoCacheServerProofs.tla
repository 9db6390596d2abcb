------------------------- MODULE GoCacheServerProofs -------------------------
(***************************************************************************)
(* Proofs about GoCacheServer, for any number of requests, any input and a *)
(* channel of any size: the orders of the answers and of the close.        *)
(*                                                                         *)
(* The argument follows an answer on its way, through the channel and the  *)
(* writer to the output: each is at one place at most, only what a         *)
(* goroutine has sent is on the way, and what it has sent stays there as   *)
(* long as the process runs.  The answer to a close is sent when no        *)
(* goroutine is left, and nothing comes behind it.                         *)
(***************************************************************************)
EXTENDS GoCacheServer, SequenceTheorems, TLAPS

USE DEF Ids, Idle, Ended

InRespCh(i) == \E k \in 1 .. Len(respCh) : respCh[k] = i
OnItsWay(i) == InRespCh(i) \/ writer = i \/ Answered(i)

TaskStates == {"none", "call", "using", "refuse", "send", "ended", "failed"}

TypeOK ==
  /\ input \in Seq(Commands) /\ Len(input) <= MaxRequests
  /\ \A i \in 1 .. Len(input) - 1 : input[i] \notin {"close", "garbled"}
  /\ writable \in BOOLEAN /\ client \in BOOLEAN /\ closed \in BOOLEAN
  /\ interrupted \in BOOLEAN /\ eg2Ctx \in BOOLEAN
  /\ process \in {"running", "exited", "killed"}
  /\ reader \in {"start", "read", "wait", "close", "answer", "join", "returned"}
  /\ next \in 1 .. Len(input) + 1
  /\ task \in [Ids -> TaskStates]
  /\ respCh \in Seq(Ids) /\ writer \in Ids \cup {Idle, Ended}
  /\ output \in Seq(Ids \cup {0})
  /\ storage \in {"open", "closing", "closed"}

\* Where the reader is, by what it has read; and what it has closed.
ReaderInv ==
  /\ reader \in {"wait", "close", "answer", "join"} => CloseRead # {}
  /\ CloseRead # {} => reader \notin {"start", "read"}
  /\ reader = "start" => next = 1
  /\ reader \in {"close", "answer", "join"} => Outstanding = {}
  /\ CloseRead # {} /\ reader = "returned" => Outstanding = {}
  /\ storage # "open" => CloseRead # {} /\ reader \notin {"start", "read", "wait"}
  /\ reader = "close" => storage = "closing"
  /\ reader \in {"answer", "join"} => storage = "closed"
  /\ closed => reader \in {"join", "returned"} /\ storage = "closed"

\* The goroutines: one for each request read but a close, or what ended the reading;
\* they fail only when the context is done.
TaskInv ==
  /\ \A i \in Ids : i >= next => task[i] = "none"
  /\ \A i \in CloseRead : task[i] = "none"
  /\ reader \in {"start", "read"} => \A i \in Ids : i < next => task[i] # "none"
  /\ \A i \in Ids : i < next /\ task[i] = "none" /\ CloseRead # {} => i \in CloseRead
  /\ \A i \in Ids : task[i] = "failed" => CtxDone
  /\ \A i \in Ids : task[i] = "failed" /\ CloseRead # {} => interrupted
  /\ eg2Ctx => CtxDone

\* An answer is at one place, and there because it was sent.
WayInv ==
  /\ \A j, k \in 1 .. Len(respCh) : respCh[j] = respCh[k] => j = k
  /\ \A j, k \in 1 .. Len(output) : output[j] = output[k] => j = k
  /\ \A i \in Ids : ~(InRespCh(i) /\ writer = i) /\ ~(InRespCh(i) /\ Answered(i))
                      /\ ~(writer = i /\ Answered(i))
  /\ \A i \in Ids : OnItsWay(i) => task[i] = "ended" \/ (i \in CloseRead /\ closed)
  /\ process # "killed" => \A i \in Ids : task[i] = "ended" => OnItsWay(i)
  /\ output # << >> => output[1] = 0
  /\ reader = "start" => output = << >> /\ respCh = << >> /\ writer = Idle
  /\ process = "running" /\ reader # "start" => output # << >>

\* Behind the answer to a close there is none.
LastInv ==
  \A i \in CloseRead :
    /\ InRespCh(i) => respCh[Len(respCh)] = i
    /\ writer = i => respCh = << >>
    /\ Answered(i) => /\ respCh = << >> /\ writer \notin Ids
                      /\ output[Len(output)] = i
                      /\ interrupted \/ \A j \in 1 .. i - 1 : Answered(j)

IInv == TypeOK /\ ReaderInv /\ TaskInv /\ WayInv /\ LastInv /\ (process = "killed" => ~client)

-----------------------------------------------------------------------------
(***************************************************************************)
(* Appending to a sequence, and taking its first element.                  *)
(***************************************************************************)

LEMMA Appended ==
  ASSUME NEW S, NEW s \in Seq(S), NEW e \in S
  PROVE  /\ Append(s, e) \in Seq(S) /\ Len(Append(s, e)) = Len(s) + 1
         /\ Append(s, e) # << >>
         /\ \A k \in 1 .. Len(s) : Append(s, e)[k] = s[k]
         /\ Append(s, e)[Len(s) + 1] = e
         /\ \A i : (\E k \in 1 .. Len(Append(s, e)) : Append(s, e)[k] = i)
                     <=> (\E k \in 1 .. Len(s) : s[k] = i) \/ i = e
<1>1. /\ Append(s, e) \in Seq(S) /\ Len(Append(s, e)) = Len(s) + 1
      /\ Append(s, e) # << >>
      /\ \A k \in 1 .. Len(s) : Append(s, e)[k] = s[k]
      /\ Append(s, e)[Len(s) + 1] = e
  BY AppendProperties
<1>2. Len(s) \in Nat
  OBVIOUS
<1>3. ASSUME NEW i
      PROVE  (\E k \in 1 .. Len(Append(s, e)) : Append(s, e)[k] = i)
               <=> (\E k \in 1 .. Len(s) : s[k] = i) \/ i = e
  <2>1. ASSUME NEW k \in 1 .. Len(Append(s, e)), Append(s, e)[k] = i
        PROVE  (\E j \in 1 .. Len(s) : s[j] = i) \/ i = e
    <3>1. k \in 1 .. Len(s) \/ k = Len(s) + 1
      BY <1>1, <1>2
    <3>2. QED
      BY <3>1, <2>1, <1>1
  <2>2. ASSUME NEW k \in 1 .. Len(s), s[k] = i
        PROVE  \E j \in 1 .. Len(Append(s, e)) : Append(s, e)[j] = i
    <3>1. k \in 1 .. Len(Append(s, e))
      BY <1>1, <1>2
    <3>2. QED
      BY <3>1, <2>2, <1>1
  <2>3. i = e => \E j \in 1 .. Len(Append(s, e)) : Append(s, e)[j] = i
    <3>1. Len(s) + 1 \in 1 .. Len(Append(s, e))
      BY <1>1, <1>2
    <3>2. QED
      BY <3>1, <1>1
  <2>4. QED
    BY <2>1, <2>2, <2>3
<1>4. QED
  BY <1>1, <1>3

LEMMA Shortened ==
  ASSUME NEW S, NEW s \in Seq(S), s # << >>
  PROVE  /\ Tail(s) \in Seq(S) /\ Len(Tail(s)) = Len(s) - 1 /\ Len(s) \in Nat \ {0}
         /\ Head(s) = s[1] /\ Head(s) \in S
         /\ \A k \in 1 .. Len(Tail(s)) : Tail(s)[k] = s[k + 1]
         /\ \A i : (\E k \in 1 .. Len(s) : s[k] = i)
                     <=> (\E k \in 1 .. Len(Tail(s)) : Tail(s)[k] = i) \/ i = Head(s)
<1>1. /\ Head(s) \in S /\ Tail(s) \in Seq(S) /\ Len(Tail(s)) = Len(s) - 1
      /\ \A k \in 1 .. Len(Tail(s)) : Tail(s)[k] = s[k + 1]
  BY HeadTailProperties
<1>2. Head(s) = s[1] /\ Len(s) \in Nat \ {0}
  BY EmptySeq
<1>3. ASSUME NEW i
      PROVE  (\E k \in 1 .. Len(s) : s[k] = i)
                     <=> (\E k \in 1 .. Len(Tail(s)) : Tail(s)[k] = i) \/ i = Head(s)
  <2>1. ASSUME NEW k \in 1 .. Len(s), s[k] = i, k # 1
        PROVE  \E j \in 1 .. Len(Tail(s)) : Tail(s)[j] = i
    <3>1. k - 1 \in 1 .. Len(Tail(s)) /\ s[k - 1 + 1] = i
      BY <2>1, <1>1, <1>2
    <3>2. QED
      BY <3>1, <1>1
  <2>2. ASSUME NEW k \in 1 .. Len(Tail(s)), Tail(s)[k] = i
        PROVE  \E j \in 1 .. Len(s) : s[j] = i
    <3>1. k + 1 \in 1 .. Len(s) /\ s[k + 1] = i
      BY <2>2, <1>1, <1>2
    <3>2. QED
      BY <3>1
  <2>3. i = Head(s) => \E j \in 1 .. Len(s) : s[j] = i
    BY <1>2
  <2>4. QED
    BY <2>1, <2>2, <2>3, <1>2
<1>4. QED
  BY <1>1, <1>2, <1>3

-----------------------------------------------------------------------------
(***************************************************************************)
(* The initial states.                                                     *)
(***************************************************************************)

LEMMA InputsAreSequences ==
  ASSUME NEW s \in Inputs
  PROVE  /\ s \in Seq(Commands) /\ Len(s) <= MaxRequests
         /\ \A i \in 1 .. Len(s) - 1 : s[i] \notin {"close", "garbled"}
<1>1. PICK m \in 0 .. MaxRequests : s \in [1 .. m -> Commands]
  BY DEF Inputs, SeqOf
<1>2. s \in Seq(Commands) /\ Len(s) = m
  BY <1>1, MaxRequestsAssumption
<1>3. QED
  BY <1>1, <1>2, MaxRequestsAssumption DEF Inputs

LEMMA InitIInv == Init => IInv
<1> SUFFICES ASSUME Init PROVE IInv
  OBVIOUS
<1>1. TypeOK
  <2>1. /\ input \in Seq(Commands) /\ Len(input) <= MaxRequests
        /\ \A i \in 1 .. Len(input) - 1 : input[i] \notin {"close", "garbled"}
    BY InputsAreSequences DEF Init
  <2>2. next \in 1 .. Len(input) + 1
    BY <2>1 DEF Init
  <2>3. respCh \in Seq(Ids) /\ output \in Seq(Ids \cup {0})
    BY DEF Init
  <2>4. task \in [Ids -> TaskStates]
    BY DEF Init, TaskStates
  <2>5. QED
    BY <2>1, <2>2, <2>3, <2>4 DEF Init, TypeOK
<1>2. CloseRead = {} /\ Outstanding = {}
  BY DEF Init, CloseRead, Outstanding, Running
<1>3. ReaderInv
  BY <1>2 DEF Init, ReaderInv
<1>4. TaskInv
  BY <1>2 DEF Init, TaskInv
<1>5. \A i \in Ids : ~OnItsWay(i)
  BY DEF Init, OnItsWay, InRespCh, Answered, Contains
<1>6. WayInv
  BY <1>5 DEF Init, WayInv, OnItsWay
<1>7. LastInv
  BY <1>2 DEF LastInv
<1>8. QED
  BY <1>1, <1>3, <1>4, <1>6, <1>7 DEF IInv, Init

-----------------------------------------------------------------------------
(***************************************************************************)
(* The steps of Run.                                                       *)
(***************************************************************************)

\* A step that leaves the input read, the channel, the writer and the output alone moves
\* no answer.
LEMMA NoAnswerMoves ==
  ASSUME UNCHANGED <<respCh, writer, output>>
  PROVE  \A i : /\ InRespCh(i)' = InRespCh(i) /\ Answered(i)' = Answered(i)
                /\ OnItsWay(i)' = OnItsWay(i)
BY DEF InRespCh, Answered, OnItsWay, Contains

LEMMA CapsStep ==
  ASSUME IInv, process = "running", Caps
  PROVE  IInv'
<1> USE DEF Caps
<1>1. TypeOK'
  <2>1. output' \in Seq(Ids \cup {0}) /\ process' \in {"running", "killed"}
    <3>1. output \in Seq(Ids \cup {0}) /\ 0 \in Ids \cup {0}
      BY DEF IInv, TypeOK
    <3>2. Append(output, 0) \in Seq(Ids \cup {0})
      BY <3>1, AppendProperties
    <3>3. QED
      BY <3>1, <3>2 DEF WriteResp
  <2>2. QED
    BY <2>1 DEF IInv, TypeOK
<1>2. CloseRead = {} /\ CloseRead' = {} /\ Outstanding' = Outstanding
  BY DEF IInv, TypeOK, ReaderInv, CloseRead, Outstanding, Running
<1>3. ReaderInv'
  BY <1>2 DEF IInv, ReaderInv
<1>4. TaskInv'
  BY <1>2 DEF IInv, TypeOK, ReaderInv, TaskInv, CtxDone
<1>5. WayInv' /\ (process' = "killed" => ~client')
  <2>1. respCh = << >> /\ writer = 0 /\ output = << >> /\ next = 1
    BY DEF IInv, ReaderInv, WayInv
  <2>2. \/ client /\ output' = <<0>> /\ process' = "running"
        \/ ~client /\ output' = << >> /\ process' = "killed"
    BY <2>1 DEF WriteResp
  <2>3. \A i \in Ids : ~OnItsWay(i)'
    BY <2>1, <2>2, MaxRequestsAssumption DEF OnItsWay, InRespCh, Answered, Contains
  <2>4. \A i \in Ids : task[i] # "ended"
    BY <2>1 DEF IInv, TaskInv, TypeOK
  <2>5. QED
    BY <2>1, <2>2, <2>3, <2>4 DEF WayInv, OnItsWay
<1>6. LastInv'
  BY <1>2 DEF LastInv
<1>7. QED
  BY <1>1, <1>3, <1>4, <1>5, <1>6 DEF IInv

LEMMA ReadStep ==
  ASSUME IInv, process = "running", Read
  PROVE  IInv'
<1> USE DEF OnlyReads, Return
<1>1. /\ reader = "read" /\ next \in 1 .. Len(input) /\ next' = next + 1 /\ next \in Ids
      /\ Len(input) \in Nat /\ input[next] \in Commands
  BY MaxRequestsAssumption DEF Read, IInv, TypeOK
<1>2. CASE input[next] = "close" /\ reader' = "wait" /\ UNCHANGED task
  <2>1. CloseRead = {} /\ CloseRead' = {next}
    BY <1>1, <1>2 DEF Read, IInv, ReaderInv, CloseRead
  <2>2. TypeOK'
    BY <1>1, <1>2 DEF Read, IInv, TypeOK
  <2>3. ReaderInv'
    BY <1>1, <1>2, <2>1 DEF Read, IInv, ReaderInv, Outstanding, Running
  <2>4. TaskInv'
    BY <1>1, <1>2, <2>1 DEF Read, IInv, TypeOK, TaskInv, CtxDone
  <2>5. WayInv'
    BY <1>1, <1>2, <2>1, NoAnswerMoves DEF Read, IInv, WayInv
  <2>6. LastInv'
    BY <1>1, <1>2, <2>1, NoAnswerMoves DEF Read, IInv, WayInv, TaskInv, LastInv, OnItsWay
  <2>7. QED
    BY <2>2, <2>3, <2>4, <2>5, <2>6 DEF Read, IInv
<1>3. ASSUME input[next] # "close",
             \/ UNCHANGED task /\ reader' = "returned"
             \/ \E pc \in {"call", "refuse"} :
                   task' = [task EXCEPT ![next] = pc] /\ UNCHANGED reader
      PROVE  IInv'
  <2>1. CloseRead = {} /\ CloseRead' = {}
    BY <1>1, <1>3 DEF Read, IInv, ReaderInv, CloseRead
  <2>2. TypeOK'
    BY <1>1, <1>3 DEF Read, IInv, TypeOK, TaskStates
  <2>3. ReaderInv'
    BY <1>1, <1>3, <2>1 DEF Read, IInv, ReaderInv
  <2>4. \A i \in Ids : \/ task'[i] = task[i]
                       \/ i = next /\ task[i] = "none" /\ task'[i] \in {"call", "refuse"}
    <3>1. task[next] = "none" /\ task \in [Ids -> TaskStates]
      BY <1>1 DEF IInv, TypeOK, TaskInv
    <3>2. QED
      BY <1>1, <1>3, <3>1
  <2>5. TaskInv'
    <3>1. \A i \in Ids : i >= next' => task'[i] = "none"
      BY <1>1, <2>4 DEF IInv, TypeOK, TaskInv
    <3>2. reader' \in {"start", "read"} => \A i \in Ids : i < next' => task'[i] # "none"
      <4> SUFFICES ASSUME reader' \in {"start", "read"}, NEW i \in Ids, i < next'
                   PROVE  task'[i] # "none"
        OBVIOUS
      <4>1. CASE i = next
        BY <4>1, <1>1, <1>3 DEF IInv, TypeOK
      <4>2. CASE i # next
        BY <4>2, <1>1, <2>4 DEF IInv, TypeOK, TaskInv
      <4>3. QED
        BY <4>1, <4>2
    <3>3. /\ \A i \in Ids : task'[i] = "failed" => CtxDone' 
          /\ eg2Ctx' => CtxDone'
      BY <1>1, <1>3, <2>4 DEF Read, IInv, TaskInv, CtxDone
    <3>4. QED
      BY <2>1, <3>1, <3>2, <3>3 DEF TaskInv
  <2>6. WayInv'
    BY <1>1, <1>3, <2>1, <2>4, NoAnswerMoves DEF Read, IInv, WayInv
  <2>7. LastInv'
    BY <2>1 DEF LastInv
  <2>8. QED
    BY <2>2, <2>3, <2>5, <2>6, <2>7 DEF Read, IInv
<1>4. QED
  BY <1>1, <1>2, <1>3 DEF Read, Commands, Storing, Refused, Unreadable

\* The steps that change no more than the reader and what it closes.
LEMMA OnlyReaderFrame ==
  ASSUME IInv, OnlyReader
  PROVE  /\ CloseRead' = CloseRead /\ Outstanding' = Outstanding
         /\ interrupted' = interrupted /\ process' = process /\ client' = client
BY DEF OnlyReader, CloseRead, Outstanding, Running

LEMMA ReadEndStep ==
  ASSUME IInv, process = "running", ReadEnd
  PROVE  IInv'
<1> USE DEF ReadEnd, OnlyReads, Return
<1>1. CloseRead = {} /\ CloseRead' = {} /\ Outstanding' = Outstanding
  BY DEF IInv, ReaderInv, CloseRead, Outstanding, Running
<1>2. TypeOK'
  BY DEF IInv, TypeOK
<1>3. ReaderInv'
  BY <1>1 DEF IInv, ReaderInv
<1>4. TaskInv'
  BY <1>1 DEF IInv, TaskInv, CtxDone
<1>5. WayInv' /\ LastInv'
  BY <1>1, NoAnswerMoves DEF IInv, WayInv, LastInv
<1>6. QED
  BY <1>2, <1>3, <1>4, <1>5 DEF IInv

LEMMA AwaitRequestsStep ==
  ASSUME IInv, process = "running", AwaitRequests
  PROVE  IInv'
<1> USE DEF AwaitRequests
<1>1. CloseRead' = CloseRead /\ Outstanding' = {} /\ CloseRead # {}
  BY OnlyReaderFrame DEF IInv, ReaderInv
<1>2. TypeOK'
  BY DEF IInv, TypeOK, OnlyReader
<1>3. ReaderInv'
  BY <1>1 DEF IInv, ReaderInv, OnlyReader
<1>4. TaskInv'
  BY <1>1 DEF IInv, TaskInv, CtxDone, OnlyReader
<1>5. WayInv' /\ LastInv'
  BY <1>1, NoAnswerMoves DEF IInv, WayInv, LastInv, OnlyReader
<1>6. QED
  BY <1>2, <1>3, <1>4, <1>5 DEF IInv, OnlyReader

LEMMA CloseStorageStep ==
  ASSUME IInv, process = "running", CloseStorage
  PROVE  IInv'
<1> USE DEF CloseStorage
<1>1. CloseRead' = CloseRead /\ Outstanding' = {} /\ CloseRead # {}
  BY OnlyReaderFrame DEF IInv, ReaderInv
<1>2. TypeOK'
  BY DEF IInv, TypeOK, OnlyReader
<1>3. ReaderInv'
  BY <1>1 DEF IInv, ReaderInv, OnlyReader
<1>4. TaskInv'
  BY <1>1 DEF IInv, TaskInv, CtxDone, OnlyReader
<1>5. WayInv' /\ LastInv'
  BY <1>1, NoAnswerMoves DEF IInv, WayInv, LastInv, OnlyReader
<1>6. QED
  BY <1>2, <1>3, <1>4, <1>5 DEF IInv, OnlyReader

\* A close is the last of the input, so that the one read is the request before the next.
LEMMA CloseIsLast ==
  ASSUME TypeOK, NEW i \in CloseRead
  PROVE  i = Len(input) /\ next = i + 1
<1>1. /\ i \in 1 .. MaxRequests /\ i < next /\ input[i] = "close"
      /\ next \in 1 .. Len(input) + 1 /\ Len(input) \in Nat
      /\ \A j \in 1 .. Len(input) - 1 : input[j] \notin {"close", "garbled"}
  BY DEF CloseRead, TypeOK
<1>2. i \notin 1 .. Len(input) - 1
  BY <1>1
<1>3. QED
  BY <1>1, <1>2, MaxRequestsAssumption

\* An answer that is on its way nowhere goes into the channel.
LEMMA Offered ==
  ASSUME IInv, NEW i \in Ids, ~OnItsWay(i), Offer(i), UNCHANGED <<writer, output>>
  PROVE  /\ respCh' \in Seq(Ids) /\ respCh' # << >> /\ respCh'[Len(respCh')] = i
         /\ \A j, k \in 1 .. Len(respCh') : respCh'[j] = respCh'[k] => j = k
         /\ \A j \in Ids : /\ InRespCh(j)' <=> InRespCh(j) \/ j = i
                           /\ Answered(j)' <=> Answered(j)
                           /\ OnItsWay(j)' <=> OnItsWay(j) \/ j = i
<1>1. respCh \in Seq(Ids) /\ Len(respCh) \in Nat /\ respCh' = Append(respCh, i)
  BY DEF IInv, TypeOK, Offer
<1>2. /\ respCh' \in Seq(Ids) /\ Len(respCh') = Len(respCh) + 1 /\ respCh' # << >>
      /\ \A k \in 1 .. Len(respCh) : respCh'[k] = respCh[k]
      /\ respCh'[Len(respCh) + 1] = i
      /\ \A j : InRespCh(j)' <=> InRespCh(j) \/ j = i
  BY <1>1, Appended DEF InRespCh
<1>3. ASSUME NEW j \in 1 .. Len(respCh'), NEW k \in 1 .. Len(respCh'),
             respCh'[j] = respCh'[k]
      PROVE  j = k
  <2>1. \A l \in 1 .. Len(respCh) : respCh[l] # i
    BY DEF OnItsWay, InRespCh
  <2>2. (j \in 1 .. Len(respCh) \/ j = Len(respCh) + 1)
        /\ (k \in 1 .. Len(respCh) \/ k = Len(respCh) + 1)
    BY <1>1, <1>2
  <2>3. CASE j \in 1 .. Len(respCh) /\ k \in 1 .. Len(respCh)
    BY <2>3, <1>2, <1>3 DEF IInv, WayInv
  <2>4. QED
    BY <2>1, <2>2, <2>3, <1>2, <1>3
<1>4. QED
  BY <1>2, <1>3 DEF OnItsWay, Answered, Contains

LEMMA AnswerCloseStep ==
  ASSUME IInv, process = "running", AnswerClose
  PROVE  IInv'
<1> DEFINE c == next - 1
<1>1. /\ reader = "answer" /\ closed = FALSE /\ storage = "closed"
      /\ CloseRead # {} /\ Outstanding = {}
  BY DEF AnswerClose, IInv, TypeOK, ReaderInv
<1>2. /\ CloseRead' = CloseRead /\ Outstanding' = {} /\ closed' = TRUE /\ reader' = "join"
  BY <1>1, OnlyReaderFrame DEF AnswerClose
<1>3. CloseRead = {c} /\ c \in Ids
  <2>1. PICK i \in CloseRead : TRUE
    BY <1>1
  <2>2. \A j \in CloseRead : j = Len(input) /\ next = j + 1
    BY CloseIsLast DEF IInv
  <2>3. QED
    BY <2>1, <2>2 DEF CloseRead
<1>4. ~OnItsWay(c) /\ task[c] = "none"
  BY <1>1, <1>3 DEF IInv, TaskInv, WayInv
<1>5. /\ respCh' \in Seq(Ids) /\ respCh' # << >> /\ respCh'[Len(respCh')] = c
      /\ \A j, k \in 1 .. Len(respCh') : respCh'[j] = respCh'[k] => j = k
      /\ \A j \in Ids : /\ InRespCh(j)' <=> InRespCh(j) \/ j = c
                        /\ Answered(j)' <=> Answered(j)
                        /\ OnItsWay(j)' <=> OnItsWay(j) \/ j = c
  BY <1>3, <1>4, Offered DEF AnswerClose, OnlyReader
<1> HIDE DEF c
<1>6. TypeOK'
  BY <1>2, <1>5 DEF AnswerClose, OnlyReader, IInv, TypeOK
<1>7. ReaderInv'
  BY <1>1, <1>2 DEF AnswerClose, OnlyReader, ReaderInv
<1>8. TaskInv'
  BY <1>1, <1>2 DEF AnswerClose, OnlyReader, IInv, TaskInv, CtxDone
<1>9. WayInv'
  BY <1>1, <1>2, <1>3, <1>4, <1>5 DEF AnswerClose, OnlyReader, IInv, WayInv, OnItsWay
<1>10. LastInv'
  BY <1>2, <1>3, <1>4, <1>5 DEF AnswerClose, OnlyReader, LastInv, OnItsWay
<1>11. QED
  BY <1>6, <1>7, <1>8, <1>9, <1>10 DEF AnswerClose, OnlyReader, IInv

LEMMA CloseReturnStep ==
  ASSUME IInv, process = "running", CloseCancelled \/ JoinWriter
  PROVE  IInv'
<1> USE DEF CloseCancelled, JoinWriter, Return
<1>1. CloseRead' = CloseRead /\ Outstanding' = {} /\ CloseRead # {}
  BY OnlyReaderFrame DEF IInv, ReaderInv
<1>2. TypeOK'
  BY DEF IInv, TypeOK, OnlyReader
<1>3. ReaderInv'
  BY <1>1 DEF IInv, ReaderInv, OnlyReader
<1>4. TaskInv'
  BY <1>1 DEF IInv, TaskInv, CtxDone, OnlyReader
<1>5. WayInv' /\ LastInv'
  BY <1>1, NoAnswerMoves DEF IInv, WayInv, LastInv, OnlyReader
<1>6. QED
  BY <1>2, <1>3, <1>4, <1>5 DEF IInv, OnlyReader

\* The steps that leave the goroutines, the reader and the answers alone: the end of the
\* process, a signal, the end of the go command.
LEMMA OutsideStep ==
  ASSUME IInv, process = "running", Exit \/ Interrupt \/ ClientEnds
  PROVE  IInv'
<1> USE DEF Exit, Interrupt, ClientEnds
<1>1. CloseRead' = CloseRead /\ Outstanding' = Outstanding /\ (CtxDone => CtxDone')
  BY DEF CloseRead, Outstanding, Running, CtxDone
<1>2. TypeOK'
  BY ZenonT(40) DEF IInv, TypeOK
<1>3. ReaderInv'
  BY <1>1 DEF IInv, ReaderInv
<1>4. TaskInv'
  BY <1>1 DEF IInv, TaskInv
<1>5. WayInv' /\ LastInv'
  BY <1>1, NoAnswerMoves DEF IInv, WayInv, LastInv
<1>6. QED
  BY <1>2, <1>3, <1>4, <1>5 DEF IInv

-----------------------------------------------------------------------------
(***************************************************************************)
(* The steps of the goroutine of a request.                                *)
(***************************************************************************)

\* A close does not go on, and closes nothing, while a request is under way.
LEMMA RunningHoldsClose ==
  ASSUME IInv, NEW i \in Ids, Running(i)
  PROVE  /\ storage = "open" /\ closed = FALSE /\ ~OnItsWay(i)
         /\ reader \notin {"close", "answer", "join"}
         /\ CloseRead # {} => reader = "wait"
         /\ \A j \in CloseRead : ~OnItsWay(j)
<1>1. i \in Outstanding
  BY DEF Outstanding
<1>2. /\ reader \notin {"close", "answer", "join"}
      /\ CloseRead # {} => reader = "wait"
      /\ storage = "open" /\ closed = FALSE
  BY <1>1 DEF IInv, TypeOK, ReaderInv
<1>3. ~OnItsWay(i) /\ \A j \in CloseRead : ~OnItsWay(j)
  BY <1>2 DEF IInv, TaskInv, WayInv, Running, CloseRead
<1>4. QED
  BY <1>2, <1>3

\* What such a step does to all but the answers.
LEMMA RequestFrame ==
  ASSUME IInv, NEW i \in Ids, Running(i), NEW pc \in TaskStates \ {"none"}, Now(i, pc),
         OnlyTask, (UNCHANGED eg2Ctx /\ pc # "failed") \/ (eg2Ctx' = TRUE /\ CtxDone),
         respCh' \in Seq(Ids), process' = process
  PROVE  /\ TypeOK' /\ ReaderInv' /\ TaskInv'
         /\ CloseRead' = CloseRead /\ task'[i] = pc
         /\ \A j \in Ids \ {i} : task'[j] = task[j]
<1> USE DEF OnlyTask, Now
<1>1. /\ task' \in [Ids -> TaskStates] /\ task'[i] = pc
      /\ \A j \in Ids \ {i} : task'[j] = task[j]
  BY DEF IInv, TypeOK
<1>2. CloseRead' = CloseRead /\ i \in Outstanding /\ CtxDone' = CtxDone
  BY DEF CloseRead, Outstanding, CtxDone
<1>3. TypeOK'
  <2>1. eg2Ctx' \in BOOLEAN
    BY DEF IInv, TypeOK
  <2>2. QED
    BY <1>1, <1>2, <2>1 DEF IInv, TypeOK
<1>4. ReaderInv'
  BY <1>2, RunningHoldsClose DEF IInv, ReaderInv, Outstanding
<1>5. TaskInv'
  <2>1. i < next /\ i \notin CloseRead
    BY SMTT(40) DEF IInv, TaskInv, Running, TypeOK
  <2>2. CtxDone /\ CloseRead # {} => interrupted
    BY RunningHoldsClose DEF CtxDone
  <2>3. \A j \in Ids : /\ j >= next => task'[j] = "none"
                       /\ j < next /\ task'[j] = "none" => task[j] = "none"
                       /\ j \in CloseRead => task'[j] = "none"
    BY <1>1, <2>1 DEF IInv, TypeOK, TaskInv, CloseRead
  <2>4. \A j \in Ids : task'[j] = "failed" => CtxDone /\ (CloseRead # {} => interrupted)
    BY <1>1, <2>2 DEF IInv, TaskInv
  <2>5. eg2Ctx' => CtxDone
    BY DEF IInv, TaskInv
  <2>6. QED
    BY <1>1, <1>2, <2>1, <2>3, <2>4, <2>5 DEF IInv, TaskInv, CloseRead
<1>6. QED
  BY <1>1, <1>2, <1>3, <1>4, <1>5

LEMMA UseStep ==
  ASSUME IInv, process = "running", NEW i \in Ids, Use(i) \/ Called(i)
  PROVE  IInv'
<1>1. Running(i)
  BY DEF Use, Called, Running
<1>2. PICK pc \in {"using", "send"} :
         Now(i, pc) /\ OnlyTask /\ UNCHANGED <<eg2Ctx, respCh, process>>
  BY <1>1, RunningHoldsClose DEF Use, Called
<1>3. /\ TypeOK' /\ ReaderInv' /\ TaskInv'
      /\ CloseRead' = CloseRead /\ task'[i] = pc
      /\ \A j \in Ids \ {i} : task'[j] = task[j]
  <2>1. respCh' \in Seq(Ids) /\ pc \in TaskStates \ {"none"}
    BY <1>2 DEF IInv, TypeOK, TaskStates
  <2>2. UNCHANGED eg2Ctx /\ pc # "failed" /\ process' = process
    BY <1>2
  <2>3. QED
    BY <1>1, <1>2, <2>1, <2>2, RequestFrame
<1>4. UNCHANGED <<respCh, writer, output, closed, process, client, reader, interrupted>>
  BY <1>2 DEF OnlyTask
<1>5. WayInv'
  BY <1>1, <1>3, <1>4, NoAnswerMoves, RunningHoldsClose DEF IInv, WayInv, Running
<1>6. LastInv'
  BY <1>3, <1>4, NoAnswerMoves DEF IInv, LastInv
<1>7. QED
  BY <1>3, <1>4, <1>5, <1>6 DEF IInv

LEMMA SendStep ==
  ASSUME IInv, process = "running", NEW i \in Ids, Send(i)
  PROVE  IInv'
<1>1. Running(i)
  BY DEF Send, Running
<1>2. /\ Offer(i) /\ Now(i, "ended") /\ OnlyTask
      /\ UNCHANGED <<eg2Ctx, process, writer, output, closed, reader, client>>
  BY <1>1, RunningHoldsClose DEF Send, OnlyTask
<1>3. /\ respCh' \in Seq(Ids) /\ respCh' # << >> /\ respCh'[Len(respCh')] = i
      /\ \A j, k \in 1 .. Len(respCh') : respCh'[j] = respCh'[k] => j = k
      /\ \A j \in Ids : /\ InRespCh(j)' <=> InRespCh(j) \/ j = i
                        /\ Answered(j)' <=> Answered(j)
                        /\ OnItsWay(j)' <=> OnItsWay(j) \/ j = i
  BY <1>1, <1>2, Offered, RunningHoldsClose
<1>4. /\ TypeOK' /\ ReaderInv' /\ TaskInv'
      /\ CloseRead' = CloseRead /\ task'[i] = "ended"
      /\ \A j \in Ids \ {i} : task'[j] = task[j]
  <2>1. "ended" \in TaskStates \ {"none"} /\ process' = process /\ UNCHANGED eg2Ctx
    BY <1>2 DEF TaskStates
  <2>2. QED
    BY <1>1, <1>2, <1>3, <2>1, RequestFrame
<1>5. reader # "start"
  BY <1>1 DEF IInv, ReaderInv, TaskInv, TypeOK, Running
<1>6. WayInv'
  BY ZenonT(40), <1>1, <1>2, <1>3, <1>4, <1>5, RunningHoldsClose DEF IInv, WayInv, OnItsWay
<1>7. LastInv'
  <2>1. \A j \in CloseRead : j # i /\ ~OnItsWay(j)
    BY <1>1, RunningHoldsClose DEF IInv, TaskInv, Running
  <2>2. QED
    BY <2>1, <1>3, <1>4 DEF LastInv, OnItsWay, CloseRead
<1>8. QED
  BY <1>2, <1>4, <1>6, <1>7 DEF IInv

LEMMA SendCancelledStep ==
  ASSUME IInv, process = "running", NEW i \in Ids, SendCancelled(i)
  PROVE  IInv'
<1>1. Running(i)
  BY DEF SendCancelled, Running
<1>2. /\ Now(i, "failed") /\ eg2Ctx' = TRUE /\ CtxDone /\ OnlyTask
      /\ UNCHANGED <<respCh, process>>
  BY DEF SendCancelled, Fail, Cancelled, IInv, TaskInv
<1>3. /\ TypeOK' /\ ReaderInv' /\ TaskInv'
      /\ CloseRead' = CloseRead /\ task'[i] = "failed"
      /\ \A j \in Ids \ {i} : task'[j] = task[j]
  <2>1. respCh' \in Seq(Ids) /\ "failed" \in TaskStates \ {"none"}
    BY <1>2 DEF IInv, TypeOK, TaskStates
  <2>2. QED
    BY <1>1, <1>2, <2>1, RequestFrame
<1>4. UNCHANGED <<respCh, writer, output, closed, process, client, reader, interrupted>>
  BY <1>2 DEF OnlyTask
<1>5. WayInv'
  BY <1>1, <1>3, <1>4, NoAnswerMoves, RunningHoldsClose DEF IInv, WayInv, Running
<1>6. LastInv'
  BY <1>3, <1>4, NoAnswerMoves DEF IInv, LastInv
<1>7. QED
  BY <1>3, <1>4, <1>5, <1>6 DEF IInv

-----------------------------------------------------------------------------
(***************************************************************************)
(* The steps of the writer.                                                *)
(***************************************************************************)

\* They leave all but the answers as it is.
LEMMA WriterFrame ==
  ASSUME IInv, OnlyWriter, process' \in {process, "killed"},
         respCh' \in Seq(Ids), writer' \in Ids \cup {Idle, Ended},
         output' \in Seq(Ids \cup {0})
  PROVE  TypeOK' /\ ReaderInv' /\ TaskInv' /\ CloseRead' = CloseRead
<1> USE DEF OnlyWriter
<1>1. CloseRead' = CloseRead /\ Outstanding' = Outstanding
  BY DEF CloseRead, Outstanding, Running
<1>2. TypeOK'
  BY DEF IInv, TypeOK
<1>3. ReaderInv'
  BY <1>1 DEF IInv, ReaderInv
<1>4. TaskInv'
  BY <1>1 DEF IInv, TaskInv, CtxDone
<1>5. QED
  BY <1>1, <1>2, <1>3, <1>4

LEMMA TakeStep ==
  ASSUME IInv, process = "running", Take
  PROVE  IInv'
<1> USE DEF OnlyWriter
<1>1. respCh \in Seq(Ids) /\ respCh # << >> /\ writer = Idle
  BY DEF Take, IInv, TypeOK
<1>2. PICK w \in Ids : w = respCh[1] /\ writer' = w
  BY <1>1, Shortened DEF Take
<1>3. /\ respCh' \in Seq(Ids) /\ Len(respCh') = Len(respCh) - 1 /\ Len(respCh) \in Nat \ {0}
      /\ \A k \in 1 .. Len(respCh') : respCh'[k] = respCh[k + 1]
      /\ \A i : InRespCh(i) <=> InRespCh(i)' \/ i = w
  <2>1. respCh' = Tail(respCh) /\ w = Head(respCh)
    BY <1>1, <1>2, Shortened DEF Take
  <2>2. /\ respCh' \in Seq(Ids) /\ Len(respCh') = Len(respCh) - 1 /\ Len(respCh) \in Nat \ {0}
        /\ \A k \in 1 .. Len(respCh') : respCh'[k] = respCh[k + 1]
    BY <1>1, <2>1, Shortened
  <2>3. \A i : (\E k \in 1 .. Len(respCh) : respCh[k] = i)
                  <=> (\E k \in 1 .. Len(respCh') : respCh'[k] = i) \/ i = w
    <3>1. \A i : (\E k \in 1 .. Len(respCh) : respCh[k] = i)
                    <=> \/ \E k \in 1 .. Len(Tail(respCh)) : Tail(respCh)[k] = i
                        \/ i = Head(respCh)
      BY <1>1, Shortened
    <3>2. QED
      BY <2>1, <3>1
  <2>4. QED
    BY <2>2, <2>3 DEF InRespCh
<1>4. UNCHANGED <<process, output, closed, client, reader, task, interrupted>>
  BY DEF Take
<1>5. TypeOK' /\ ReaderInv' /\ TaskInv' /\ CloseRead' = CloseRead
  <2>1. output' \in Seq(Ids \cup {0})
    BY <1>4 DEF IInv, TypeOK
  <2>2. QED
    BY <1>2, <1>3, <1>4, <2>1, WriterFrame DEF Take
<1>6. \A i \in Ids : /\ Answered(i)' <=> Answered(i)
                     /\ OnItsWay(i)' <=> OnItsWay(i)
  BY <1>1, <1>2, <1>3, <1>4 DEF OnItsWay, Answered, Contains
<1>7. \A j \in 1 .. Len(respCh), k \in 1 .. Len(respCh) : respCh[j] = respCh[k] => j = k
  BY DEF IInv, WayInv
<1>8. ~InRespCh(w)' /\ \A j, k \in 1 .. Len(respCh') : respCh'[j] = respCh'[k] => j = k
  <2>1. \A k \in 1 .. Len(respCh') : k + 1 \in 1 .. Len(respCh) /\ k + 1 # 1
    BY <1>3
  <2>2. 1 \in 1 .. Len(respCh)
    BY <1>3
  <2>3. \A k \in 1 .. Len(respCh') : respCh'[k] # w
    BY <2>1, <2>2, <1>2, <1>3, <1>7
  <2>4. ASSUME NEW j \in 1 .. Len(respCh'), NEW k \in 1 .. Len(respCh'),
               respCh'[j] = respCh'[k]
        PROVE  j = k
    <3>1. j + 1 = k + 1
      BY <2>1, <2>4, <1>3, <1>7
    <3>2. QED
      BY <3>1, <1>3
  <2>5. QED
    BY <2>3, <2>4 DEF InRespCh
<1>9. WayInv'
  <2>1. \A i \in Ids : /\ ~(InRespCh(i)' /\ writer' = i) /\ ~(InRespCh(i)' /\ Answered(i)')
                       /\ ~(writer' = i /\ Answered(i)')
    BY <1>2, <1>3, <1>6, <1>8 DEF IInv, WayInv
  <2>2. reader # "start"
    BY DEF Take
  <2>3. QED
    BY <1>4, <1>5, <1>6, <1>8, <2>1, <2>2 DEF IInv, WayInv
<1>10. LastInv'
  <2> SUFFICES ASSUME NEW i \in CloseRead
               PROVE  /\ InRespCh(i)' => respCh'[Len(respCh')] = i
                      /\ writer' = i => respCh' = << >>
                      /\ ~Answered(i)'
    BY <1>5 DEF LastInv
  <2>1. i \in Ids
    BY DEF CloseRead
  <2>2. InRespCh(i)' => respCh'[Len(respCh')] = i
    <3>1. SUFFICES ASSUME InRespCh(i)' PROVE respCh'[Len(respCh')] = i
      OBVIOUS
    <3>2. respCh[Len(respCh)] = i /\ Len(respCh') \in 1 .. Len(respCh')
      BY <3>1, <1>3 DEF IInv, LastInv, InRespCh
    <3>3. QED
      BY <3>2, <1>3
  <2>3. writer' = i => respCh' = << >>
    <3>1. SUFFICES ASSUME writer' = i PROVE respCh' = << >>
      OBVIOUS
    <3>2. respCh[Len(respCh)] = i /\ respCh[1] = i
      BY <3>1, <1>2, <1>3 DEF IInv, LastInv
    <3>3. Len(respCh) = 1
      BY <3>2, <1>3, <1>7
    <3>4. QED
      BY <3>3, <1>3
  <2>4. ~Answered(i)'
    BY <2>1, <1>1, <1>6 DEF IInv, LastInv
  <2>5. QED
    BY <2>2, <2>3, <2>4
<1>11. QED
  BY <1>4, <1>5, <1>9, <1>10 DEF IInv

\* The output gets an answer that is not in it.
LEMMA Written ==
  ASSUME IInv, NEW w \in Ids, ~Answered(w), output' = Append(output, w)
  PROVE  /\ output' \in Seq(Ids \cup {0}) /\ output' # << >> /\ output'[Len(output')] = w
         /\ output # << >> => output'[1] = output[1]
         /\ \A j, k \in 1 .. Len(output') : output'[j] = output'[k] => j = k
         /\ \A i \in Ids : Answered(i)' <=> Answered(i) \/ i = w
<1>1. output \in Seq(Ids \cup {0}) /\ w \in Ids \cup {0} /\ Len(output) \in Nat
  BY DEF IInv, TypeOK
<1>2. /\ Append(output, w) \in Seq(Ids \cup {0}) /\ Len(Append(output, w)) = Len(output) + 1
      /\ Append(output, w) # << >>
      /\ \A k \in 1 .. Len(output) : Append(output, w)[k] = output[k]
      /\ Append(output, w)[Len(output) + 1] = w
  BY <1>1, Appended
<1>3. \A i : (\E k \in 1 .. Len(Append(output, w)) : Append(output, w)[k] = i)
               <=> (\E k \in 1 .. Len(output) : output[k] = i) \/ i = w
  BY <1>1, Appended
<1>4. ASSUME NEW j \in 1 .. Len(output'), NEW k \in 1 .. Len(output'),
             output'[j] = output'[k]
      PROVE  j = k
  <2>1. \A l \in 1 .. Len(output) : output[l] # w
    BY DEF Answered, Contains
  <2>2. (j \in 1 .. Len(output) \/ j = Len(output) + 1)
        /\ (k \in 1 .. Len(output) \/ k = Len(output) + 1)
    BY <1>1, <1>2
  <2>3. CASE j \in 1 .. Len(output) /\ k \in 1 .. Len(output)
    BY <2>3, <1>2, <1>4 DEF IInv, WayInv
  <2>4. QED
    BY <2>1, <2>2, <2>3, <1>2, <1>4
<1>5. output # << >> => output'[1] = output[1]
  BY <1>1, <1>2, EmptySeq
<1>6. \A i \in Ids : Answered(i)' <=> Answered(i) \/ i = w
  BY <1>3 DEF Answered, Contains
<1>7. QED
  BY <1>2, <1>4, <1>5, <1>6

LEMMA WriteStep ==
  ASSUME IInv, process = "running", Write
  PROVE  IInv'
<1>1. PICK w \in Ids : writer = w
  BY DEF Write
<1>2. /\ writer' = 0 /\ WriteResp(w)
      /\ UNCHANGED <<respCh, closed, client, reader, next, task, interrupted>>
  BY <1>1 DEF Write, OnlyWriter
<1>3. ~Answered(w) /\ ~InRespCh(w) /\ reader # "start"
  BY <1>1 DEF IInv, WayInv
<1>4. \A i \in Ids : InRespCh(i)' = InRespCh(i) /\ writer' # i
  BY <1>2 DEF InRespCh
<1>5. CASE ~client
  <2>1. process' = "killed" /\ UNCHANGED output
    BY <1>2, <1>5 DEF WriteResp
  <2>2. TypeOK' /\ ReaderInv' /\ TaskInv' /\ CloseRead' = CloseRead
    <3>1. respCh' \in Seq(Ids) /\ output' \in Seq(Ids \cup {0}) /\ OnlyWriter
      BY <1>2, <2>1 DEF IInv, TypeOK, Write
    <3>2. QED
      BY <1>2, <2>1, <3>1, WriterFrame
  <2>3. \A i \in Ids : Answered(i)' = Answered(i)
    BY <2>1 DEF Answered, Contains
  <2>4. WayInv'
    BY <1>2, <1>3, <1>4, <2>1, <2>2, <2>3 DEF IInv, WayInv, OnItsWay
  <2>5. LastInv'
    <3>1. ASSUME NEW i \in CloseRead, NEW j \in 1 .. i - 1
          PROVE  j \in Ids
      BY MaxRequestsAssumption DEF CloseRead
    <3>2. \A i \in CloseRead : i \in Ids
      BY DEF CloseRead
    <3>3. QED
      BY <1>2, <1>4, <2>1, <2>2, <2>3, <3>1, <3>2 DEF IInv, LastInv
  <2>6. QED
    BY <1>2, <1>5, <2>2, <2>4, <2>5 DEF IInv
<1>6. CASE client
  <2>1. UNCHANGED process /\ output' = Append(output, w)
    BY <1>2, <1>6 DEF WriteResp
  <2>2. /\ output' \in Seq(Ids \cup {0}) /\ output' # << >> /\ output'[Len(output')] = w
        /\ output # << >> => output'[1] = output[1]
        /\ \A j, k \in 1 .. Len(output') : output'[j] = output'[k] => j = k
        /\ \A i \in Ids : Answered(i)' <=> Answered(i) \/ i = w
    BY <1>3, <2>1, Written
  <2>3. TypeOK' /\ ReaderInv' /\ TaskInv' /\ CloseRead' = CloseRead
    <3>1. respCh' \in Seq(Ids) /\ OnlyWriter
      BY <1>2 DEF IInv, TypeOK, Write
    <3>2. QED
      BY <1>2, <2>1, <2>2, <3>1, WriterFrame
  <2>4. WayInv'
    <3>1. \A i \in Ids : OnItsWay(i)' <=> OnItsWay(i)
      BY <1>1, <1>4, <2>2 DEF OnItsWay
    <3>2. \A i \in Ids : /\ ~(InRespCh(i)' /\ writer' = i) /\ ~(InRespCh(i)' /\ Answered(i)')
                         /\ ~(writer' = i /\ Answered(i)')
      BY <1>3, <1>4, <2>2 DEF IInv, WayInv
    <3>3. output'[1] = 0
      BY <1>3, <2>2 DEF IInv, WayInv
    <3>4. QED
      BY <1>2, <1>3, <2>1, <2>2, <2>3, <3>1, <3>2, <3>3 DEF IInv, WayInv
  <2>5. LastInv'
    <3> SUFFICES ASSUME NEW i \in CloseRead
                 PROVE  /\ InRespCh(i)' => respCh'[Len(respCh')] = i
                        /\ writer' # i
                        /\ Answered(i)' => /\ respCh' = << >> /\ writer' \notin Ids
                                           /\ output'[Len(output')] = i
                                           /\ \/ interrupted
                                              \/ \A j \in 1 .. i - 1 : Answered(j)'
      BY <1>2, <1>4, <2>3 DEF LastInv, CloseRead
    <3>1. i \in Ids /\ (InRespCh(i)' => respCh'[Len(respCh')] = i) /\ writer' # i
      BY <1>2, <1>4 DEF IInv, LastInv, CloseRead
    <3>2. CASE i # w
      <4>1. ~Answered(i)
        BY <1>1 DEF IInv, LastInv
      <4>2. QED
        BY <3>1, <3>2, <4>1, <2>2
    <3>3. CASE i = w
      <4>1. respCh = << >> /\ writer' \notin Ids /\ output'[Len(output')] = i
        BY <3>3, <1>1, <1>2, <2>2 DEF IInv, LastInv
      <4>2. ASSUME ~interrupted, NEW j \in 1 .. i - 1
            PROVE  Answered(j)
        <5>1. i = Len(input) /\ next = i + 1
          BY CloseIsLast DEF IInv
        <5>2. j \in Ids /\ j < next /\ j # i
          BY <3>1, <5>1, MaxRequestsAssumption
        <5>3. j \notin CloseRead
          BY <5>1, <5>2, CloseIsLast DEF IInv
        <5>4. closed /\ CloseRead # {}
          BY <3>3, <1>1 DEF IInv, WayInv, TaskInv, OnItsWay
        <5>5. task[j] = "ended"
          <6>1. ~Running(j)
            BY <5>2, <5>4 DEF IInv, ReaderInv, Outstanding
          <6>2. task[j] # "none" /\ task[j] # "failed" /\ task[j] \in TaskStates
            BY <4>2, <5>2, <5>3, <5>4 DEF IInv, TaskInv, TypeOK
          <6>3. QED
            BY <6>1, <6>2 DEF Running, TaskStates
        <5>6. OnItsWay(j)
          BY <5>2, <5>5 DEF IInv, WayInv
        <5>7. ~InRespCh(j) /\ writer # j
          BY <3>3, <4>1, <5>2, <1>1 DEF InRespCh
        <5>8. QED
          BY <5>6, <5>7 DEF OnItsWay
      <4>3. \A j \in 1 .. i - 1 : j \in Ids
        BY <3>1, MaxRequestsAssumption
      <4>4. QED
        BY <3>1, <4>1, <4>2, <4>3, <1>2, <2>2
    <3>4. QED
      BY <3>2, <3>3
  <2>6. QED
    BY <1>2, <1>6, <2>1, <2>3, <2>4, <2>5 DEF IInv
<1>7. QED
  BY <1>5, <1>6

LEMMA WriterEndsStep ==
  ASSUME IInv, process = "running", WriterEnds
  PROVE  IInv'
<1>1. /\ writer = 0 /\ writer' = -1 /\ reader # "start"
      /\ UNCHANGED <<process, output, respCh, closed, client, reader, next, task, interrupted>>
  BY DEF WriterEnds, OnlyWriter
<1>2. TypeOK' /\ ReaderInv' /\ TaskInv' /\ CloseRead' = CloseRead
  <2>1. respCh' \in Seq(Ids) /\ output' \in Seq(Ids \cup {0}) /\ OnlyWriter
    BY <1>1 DEF IInv, TypeOK, WriterEnds
  <2>2. QED
    BY <1>1, <2>1, WriterFrame
<1>3. \A i \in Ids : /\ InRespCh(i)' = InRespCh(i) /\ Answered(i)' = Answered(i)
                     /\ OnItsWay(i)' = OnItsWay(i) /\ writer # i /\ writer' # i
  BY <1>1 DEF InRespCh, Answered, OnItsWay, Contains
<1>4. WayInv'
  BY <1>1, <1>2, <1>3 DEF IInv, WayInv
<1>5. LastInv'
  <2>1. ASSUME NEW i \in CloseRead, NEW j \in 1 .. i - 1
        PROVE  j \in Ids
    BY MaxRequestsAssumption DEF CloseRead
  <2>2. QED
    BY <1>1, <1>2, <1>3, <2>1 DEF IInv, LastInv, CloseRead
<1>6. QED
  BY <1>1, <1>2, <1>4, <1>5 DEF IInv

-----------------------------------------------------------------------------
(***************************************************************************)
(* The theorems.                                                           *)
(***************************************************************************)

\* Every step of the server keeps the inductive invariant.
LEMMA NextIInv == IInv /\ [Next]_vars => IInv'
<1> SUFFICES ASSUME IInv, [Next]_vars PROVE IInv'
  OBVIOUS
<1>1. CASE UNCHANGED vars
  <2>1. CloseRead' = CloseRead /\ Outstanding' = Outstanding /\ CtxDone' = CtxDone
    BY <1>1 DEF vars, CloseRead, Outstanding, Running, CtxDone
  <2>2. TypeOK' /\ ReaderInv' /\ TaskInv'
    BY <1>1, <2>1 DEF vars, IInv, TypeOK, ReaderInv, TaskInv
  <2>3. WayInv' /\ LastInv'
    BY <1>1, <2>1, NoAnswerMoves DEF vars, IInv, WayInv, LastInv
  <2>4. QED
    BY <1>1, <2>2, <2>3 DEF vars, IInv
<1>2. CASE process = "running" /\ Reader
  BY <1>2, CapsStep, ReadStep, ReadEndStep, AwaitRequestsStep, CloseStorageStep,
     AnswerCloseStep, CloseReturnStep, OutsideStep DEF Reader
<1>3. CASE process = "running" /\ Writer
  BY <1>3, TakeStep, WriteStep, WriterEndsStep DEF Writer
<1>4. CASE process = "running" /\ (Interrupt \/ ClientEnds)
  BY <1>4, OutsideStep
<1>5. CASE process = "running" /\ \E i \in Ids : Request(i)
  <2>1. PICK i \in Ids : Request(i)
    BY <1>5
  <2>2. QED
    BY <1>5, <2>1, UseStep, SendStep, SendCancelledStep DEF Request
<1>6. QED
  BY <1>1, <1>2, <1>3, <1>4, <1>5 DEF Next, Over

\* IInv holds in every state the server reaches.
THEOREM Inductive == Spec => []IInv
BY InitIInv, NextIInv, PTL DEF Spec

\* The types: among them that an answer in the channel or in the writer's hand is that of
\* a request, and that Run has read no more than there is.
THEOREM TypeCorrect == Spec => []TypeOK
<1>1. IInv => TypeOK
  BY DEF IInv
<1>2. QED
  BY Inductive, <1>1, PTL

\* The orders of the answers (server.go:55-187, protocol.go:40-44,94-96): no request is
\* answered before it is read, or twice, and the answer to a close comes last, when the
\* storage is closed, no request is under way and, unless the server was interrupted, all
\* requests before it are answered.
THEOREM AnswersInOrderCorrect == Spec => []AnswersInOrder
<1>1. IInv => AnswersInOrder
  <2> SUFFICES ASSUME IInv PROVE AnswersInOrder
    OBVIOUS
  <2>1. output \in Seq(Ids \cup {0}) /\ Len(output) \in Nat
    BY DEF IInv, TypeOK
  <2>2. output # << >> => Head(output) = 0
    BY <2>1, EmptySeq DEF IInv, WayInv
  <2>3. IsInjective(output)
    <3>1. DOMAIN output = 1 .. Len(output)
      BY <2>1
    <3>2. QED
      BY <3>1 DEF IInv, WayInv, IsInjective
  <2>4. ASSUME NEW i \in Ids, Answered(i) PROVE i < next
    BY <2>4 DEF IInv, TypeOK, WayInv, TaskInv, OnItsWay, CloseRead
  <2>5. ASSUME NEW i \in CloseRead, Answered(i)
        PROVE  /\ Last(output) = i /\ storage = "closed" /\ Outstanding = {}
               /\ interrupted \/ \A j \in 1 .. i - 1 : Answered(j)
    <3>1. i \in Ids
      BY DEF CloseRead
    <3>2. closed
      BY <2>5, <3>1 DEF IInv, WayInv, TaskInv, OnItsWay
    <3>3. storage = "closed" /\ Outstanding = {}
      BY <3>2 DEF IInv, ReaderInv
    <3>4. QED
      BY <2>5, <3>3 DEF IInv, LastInv, Last
  <2>6. QED
    BY <2>2, <2>3, <2>4, <2>5 DEF AnswersInOrder
<1>2. QED
  BY Inductive, <1>1, PTL

\* What a close may not do to the requests before it (server.go:120-187): the storage is
\* not closed under one that uses it, none is refused by a closing storage, and none sends
\* to a channel that is closed, which would be a panic: the process is killed only by
\* writing to a go command that has gone.
THEOREM RequestsBeforeCloseCorrect == Spec => []RequestsBeforeClose
<1>1. IInv => RequestsBeforeClose
  <2> SUFFICES ASSUME IInv PROVE RequestsBeforeClose
    OBVIOUS
  <2>1. ASSUME NEW i \in Ids, task[i] = "using"
        PROVE  storage # "closed"
    <3>1. Running(i)
      BY <2>1 DEF Running
    <3>2. QED
      BY <3>1, RunningHoldsClose
  <2>2. QED
    BY <2>1 DEF IInv, TaskInv, RequestsBeforeClose
<1>2. QED
  BY Inductive, <1>1, PTL
=============================================================================
