---------------------------- MODULE GoCacheServer ----------------------------
(***************************************************************************)
(* The loop of the build cache server (addons/gocache/server.go) between   *)
(* the go command and the front end of the storage: a reader, which starts *)
(* a goroutine for each request, and a writer, to which they hand their    *)
(* answers through a channel.  What a request does with the storage is in  *)
(* GoCacheStore; here it takes some time.                                  *)
(*                                                                         *)
(* Requests are numbered in the order the go command wrote them.           *)
(***************************************************************************)
EXTENDS Integers, Sequences, FiniteSets, SequencesExt

CONSTANTS
  MaxRequests,   \* bounds the requests of a connection
  Buffer         \* the answers the channel holds

ASSUME MaxRequestsAssumption == MaxRequests \in Nat
ASSUME BufferAssumption == Buffer \in Nat \ {0}

\* What may be on the input: "empty" is a put of no bytes, which has no body after it,
\* "bad body" one whose body cannot be read, and "garbled" what is no request.
Commands == {"get", "put", "empty", "bad body", "close", "unknown", "garbled"}
WithBody == {"put", "bad body"}
Ids == 1 .. MaxRequests
Idle  == 0
Ended == -1

VARIABLES
  input,     \* what the go command writes, until it closes its end
  writable,  \* whether the storage takes puts
  process,   \* "running", "exited", or "killed"
  client,    \* whether the go command is there
  reader,    \* where Run is
  next,      \* the request it reads next
  task,      \* the goroutine of each request
  respCh,    \* the channel to the writer
  closed,    \* whether it is closed
  writer,    \* the request whose answer the writer has in hand, Idle, or Ended
  output,    \* the answers written
  interrupted, \* whether a signal has cancelled the context
  eg2Ctx,    \* whether the context of the requests is
  storage    \* the front end: "open", "closing" or "closed"

vars == <<input, writable, process, client, reader, next, task, respCh, closed,
          writer, output, interrupted, eg2Ctx, storage>>

\* What comes after a close, or after what is no request, is never read.
Inputs ==
  {s \in SeqOf(Commands, MaxRequests) :
     \A i \in 1 .. Len(s) - 1 : s[i] \notin {"close", "garbled"}}

Init ==
  /\ input \in Inputs
  /\ writable \in BOOLEAN
  /\ process = "running" /\ client = TRUE /\ reader = "start" /\ next = 1
  /\ task = [i \in Ids |-> "none"]
  /\ respCh = << >> /\ closed = FALSE /\ writer = Idle /\ output = << >>
  /\ interrupted = FALSE /\ eg2Ctx = FALSE /\ storage = "open"

\* What becomes of the commands, by what the storage takes.
Storing    == IF writable THEN {"put", "empty"} ELSE {}
Refused    == IF writable THEN {} ELSE {"put", "empty", "bad body"}
Unreadable == IF writable THEN {"garbled", "bad body"} ELSE {"garbled"}

Running(i) == task[i] \in {"call", "using", "refuse", "send"}
Outstanding == {i \in Ids : Running(i)}

\* The context of Run, which it cancels as it returns, and that of the requests.
CtxDone   == interrupted \/ reader = "returned"
Cancelled == CtxDone \/ eg2Ctx

\* An answer goes to stdout, which is a pipe: when nobody reads it any more the
\* process is killed (SIGPIPE).
WriteResp(id) ==
  IF client THEN output' = Append(output, id) /\ UNCHANGED process
            ELSE process' = "killed" /\ UNCHANGED output

\* The channel takes an answer, if it has room.
Offer(id) == Len(respCh) < Buffer /\ respCh' = Append(respCh, id)

-----------------------------------------------------------------------------
(***************************************************************************)
(* Run.                                                                    *)
(***************************************************************************)

\* The commands known are written first, as the answer to request 0; the writer is
\* started after that.
Caps ==
  /\ reader = "start" /\ reader' = "read" /\ WriteResp(0)
  /\ UNCHANGED <<input, writable, client, next, task, respCh, closed, writer, interrupted,
                 eg2Ctx, storage>>

Return == reader' = "returned"

OnlyReads == UNCHANGED <<input, writable, process, client, respCh, closed, writer, output,
                         interrupted, eg2Ctx, storage>>

\* The body of a put that was refused is still to be read, and is no request.
BodyLeft == next > 1 /\ input[next - 1] \in WithBody /\ ~writable

\* A request is read: a goroutine takes it on, a close stops the reading, and what
\* cannot be read ends it.
Read ==
  LET cmd == input[next]
      Spawn(pc) == task' = [task EXCEPT ![next] = pc] /\ UNCHANGED reader IN
  /\ reader = "read" /\ client /\ next <= Len(input) /\ ~BodyLeft
  /\ next' = next + 1
  /\ \/ cmd \in Storing \cup {"get"} /\ Spawn("call")
     \/ cmd \in Refused \cup {"unknown"} /\ Spawn("refuse")
     \/ cmd = "close" /\ reader' = "wait" /\ UNCHANGED task
     \/ cmd \in Unreadable /\ Return /\ UNCHANGED task
  /\ OnlyReads

\* At the end of the input, or at something else than a request, Run returns, whatever
\* is under way.
ReadEnd ==
  /\ reader = "read" /\ (next > Len(input) \/ ~client \/ BodyLeft)
  /\ Return
  /\ UNCHANGED <<next, task>> /\ OnlyReads

OnlyReader == UNCHANGED <<input, writable, process, client, next, task, writer, output,
                          interrupted, eg2Ctx>>

\* Mutant of AwaitRequests: a close does not wait for the requests.
AwaitNothing ==
  /\ reader = "wait" /\ reader' = "close" /\ storage' = "closing"
  /\ UNCHANGED <<respCh, closed>> /\ OnlyReader

\* A close waits for the requests, and closes the storage: from now on it refuses calls,
AwaitRequests ==
  /\ reader = "wait" /\ Outstanding = {}
  /\ reader' = "close" /\ storage' = "closing"
  /\ UNCHANGED <<respCh, closed>> /\ OnlyReader

\* and it is closed once the calls it has let in are through.
CloseStorage ==
  /\ reader = "close" /\ \A i \in Ids : task[i] # "using"
  /\ reader' = "answer" /\ storage' = "closed"
  /\ UNCHANGED <<respCh, closed>> /\ OnlyReader

\* Mutant of AnswerClose: the writer is not told that there is no more to come.
AnswerOpen ==
  /\ reader = "answer" /\ Offer(next - 1)
  /\ reader' = "join" /\ UNCHANGED <<closed, storage>> /\ OnlyReader

\* Then it is answered, as the last one.
AnswerClose ==
  /\ reader = "answer" /\ Offer(next - 1)
  /\ closed' = TRUE
  /\ reader' = "join" /\ UNCHANGED storage /\ OnlyReader

CloseCancelled ==
  /\ reader = "answer" /\ CtxDone
  /\ Return /\ UNCHANGED <<respCh, closed, storage>> /\ OnlyReader

JoinWriter ==
  /\ reader = "join" /\ writer = Ended
  /\ Return /\ UNCHANGED <<respCh, closed, storage>> /\ OnlyReader

Exit ==
  /\ reader = "returned" /\ process' = "exited"
  /\ UNCHANGED <<input, writable, client, reader, next, task, respCh, closed, writer, output,
                 interrupted, eg2Ctx, storage>>

Reader == \/ Caps \/ Read \/ ReadEnd \/ AwaitRequests \/ CloseStorage
          \/ AnswerClose \/ CloseCancelled \/ JoinWriter \/ Exit

-----------------------------------------------------------------------------
(***************************************************************************)
(* The goroutine of a request.                                             *)
(***************************************************************************)

OnlyTask == UNCHANGED <<input, writable, client, reader, next, closed, writer, output,
                        interrupted, storage>>
Now(i, pc) == task' = [task EXCEPT ![i] = pc]

\* The first goroutine that fails cancels the context of all.
Fail(i) == Now(i, "failed") /\ eg2Ctx' = TRUE

\* The front end lets a call in, or refuses it as it is closing.
Use(i) ==
  /\ task[i] = "call"
  /\ IF storage = "open" THEN Now(i, "using") /\ UNCHANGED eg2Ctx ELSE Fail(i)
  /\ UNCHANGED <<respCh, process>> /\ OnlyTask

\* The call is through: found, missed, stored, or failed, which is an answer too.
Called(i) ==
  /\ task[i] = "using" /\ Now(i, "send")
  /\ UNCHANGED <<respCh, process, eg2Ctx>> /\ OnlyTask

\* Mutant of Send: after a put was refused the case is not left.
SendTwice(i) ==
  /\ task[i] \in {"send", "refuse"} /\ Offer(i)
  /\ Now(i, IF task[i] = "refuse" THEN "call" ELSE "ended")
  /\ UNCHANGED <<process, eg2Ctx>> /\ OnlyTask

\* The answer goes to the writer; if its channel were closed, that would be a panic.
Send(i) ==
  /\ task[i] \in {"send", "refuse"}
  /\ IF closed THEN process' = "killed" /\ UNCHANGED <<task, respCh>>
               ELSE Offer(i) /\ Now(i, "ended") /\ UNCHANGED process
  /\ UNCHANGED eg2Ctx /\ OnlyTask

SendCancelled(i) ==
  /\ task[i] \in {"send", "refuse"} /\ Cancelled
  /\ Fail(i) /\ UNCHANGED <<respCh, process>> /\ OnlyTask

Request(i) == Use(i) \/ Called(i) \/ Send(i) \/ SendCancelled(i)

-----------------------------------------------------------------------------
(***************************************************************************)
(* The writer, which starts when the commands are written.                 *)
(***************************************************************************)

OnlyWriter == UNCHANGED <<input, writable, client, reader, next, task, closed, interrupted,
                          eg2Ctx, storage>>

Take ==
  /\ reader # "start" /\ writer = Idle /\ respCh # << >>
  /\ writer' = Head(respCh) /\ respCh' = Tail(respCh)
  /\ UNCHANGED <<process, output>> /\ OnlyWriter

Write ==
  /\ writer \in Ids /\ writer' = Idle
  /\ WriteResp(writer) /\ UNCHANGED respCh /\ OnlyWriter

\* Mutant of WriterEnds: what is in a closed channel is not written any more.
WriterStops ==
  /\ reader # "start" /\ writer = Idle /\ (CtxDone \/ closed)
  /\ writer' = Ended
  /\ UNCHANGED <<process, output, respCh>> /\ OnlyWriter

WriterEnds ==
  /\ reader # "start" /\ writer = Idle
  /\ CtxDone \/ (closed /\ respCh = << >>)
  /\ writer' = Ended
  /\ UNCHANGED <<process, output, respCh>> /\ OnlyWriter

Writer == Take \/ Write \/ WriterEnds

-----------------------------------------------------------------------------

\* A signal cancels the context.
Interrupt ==
  /\ interrupted' = TRUE
  /\ UNCHANGED <<input, writable, process, client, reader, next, task, respCh, closed, writer,
                 output, eg2Ctx, storage>>

\* The go command ends: nothing more comes from it, and nobody reads the answers.
ClientEnds ==
  /\ client /\ client' = FALSE
  /\ UNCHANGED <<input, writable, process, reader, next, task, respCh, closed, writer, output,
                 interrupted, eg2Ctx, storage>>

\* The process has ended.
Over == process # "running" /\ UNCHANGED vars

Next ==
  \/ /\ process = "running"
     /\ \/ Reader \/ Writer \/ Interrupt \/ ClientEnds
        \/ \E i \in Ids : Request(i)
  \/ Over

\* Goroutines run, and calls of the storage come to an end.
Fairness ==
  /\ WF_vars(process = "running" /\ Reader)
  /\ WF_vars(process = "running" /\ Writer)
  /\ \A i \in Ids : WF_vars(process = "running" /\ Request(i))

Spec == Init /\ [][Next]_vars
FairSpec == Spec /\ Fairness

-----------------------------------------------------------------------------
(***************************************************************************)
(* Properties.                                                             *)
(***************************************************************************)

Answered(i) == Contains(output, i)

\* The request a close is, among those read.
CloseRead == {i \in Ids : i < next /\ input[i] = "close"}

\* "these are only sent in response to a Request" but for the first (protocol.go:94-96):
\* the commands known are written before all else, and no request is answered twice or
\* before it is read; "reply to this request and then exit" (line 44): the answer to a
\* close is the last, and comes after the storage is closed and, unless the server was
\* interrupted, after the answers to all requests before it.
AnswersInOrder ==
  /\ output # << >> => Head(output) = 0
  /\ IsInjective(output)
  /\ \A i \in Ids : Answered(i) => i < next
  /\ \A i \in CloseRead : Answered(i) =>
       /\ Last(output) = i /\ storage = "closed" /\ Outstanding = {}
       /\ interrupted \/ \A j \in 1 .. i - 1 : Answered(j)

\* A request that was read is not refused by a closing storage, does not use one that is
\* closed, and never sends to a channel that is closed.
RequestsBeforeClose ==
  /\ process = "killed" => ~client
  /\ \A i \in Ids : /\ task[i] = "failed" => CtxDone
                    /\ task[i] = "using" => storage # "closed"

\* A request that was read is answered, unless the server is interrupted, the go command
\* has gone, or Run returns without having seen a close.
RequestsAnswered ==
  \A i \in Ids :
    (Running(i) \/ i \in CloseRead) ~>
      \/ Answered(i) \/ interrupted \/ ~client
      \/ reader = "returned" /\ CloseRead = {}

\* The server comes to an end when its input does, or with a close: the reader, the
\* requests and the writer never all wait for each other.
ServerEnds == <>(process # "running")
=============================================================================
