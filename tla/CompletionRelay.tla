--------------------------- MODULE CompletionRelay ---------------------------
(***************************************************************************)
(* One completion request of the backend: the HTTP handler                 *)
(* (backend/handler/completion.go, file.go), the goroutine that            *)
(* CompletionService starts for it (CreateChatCompletion, ...Multi and     *)
(* ...File), the bounded channel between them, the request's context, the  *)
(* SSE stream of the conversation engine and the events that are written.  *)
(*                                                                         *)
(* The n-th chunk of the engine is the set of the parts it carries, and an *)
(* accumulated part is the number of chunks that carried it, so an event   *)
(* is the column and version that module EventConsumer has in its Script.  *)
(***************************************************************************)
EXTENDS Integers, Sequences, FiniteSets, SequencesExt

CONSTANTS
  Chunk,      \* the chunks the engine may send: sets of parts
  Capacity,   \* of the completion channel (10 in the code)
  MaxChunks,  \* bound: how many chunks the engine sends
  MaxRefused, \* bound: of how many columns the last event may be refused while the
              \* context is live
  None        \* no message

Part == {"TokenCount", "Answer", "References", "Keywords", "RelatedQueries"}

\* A file request has its own endpoint of the engine and its own events. One
\* word gets a canned answer; a session may ask for an error.
Request == [file : BOOLEAN, question : {"words", "oneWord", "stream-error-test"}]

ASSUME ConstantsAssumption ==
  /\ Chunk \subseteq SUBSET Part
  /\ Capacity \in Nat \ {0} /\ MaxChunks \in Nat /\ MaxRefused \in Nat

Kind == {"chunk", "fileReferences", "canned", "error", "done"}

\* What goes through the channel, n being the number of the chunk or 0, and
\* what the client is shown of it: the text of the chunks n to upTo.
Result == [kind : Kind, n : 0 .. MaxChunks]
Shows  == [kind : Kind, n : 0 .. MaxChunks, upTo : 0 .. MaxChunks]

ASSUME NoneAssumption == None \notin Shows

\* The columns that the events of a chunk set.
ChunkColumn == Part \union {"FileReferences"}

Event == [column : ChunkColumn \union {"Question"}, value : Nat]

VARIABLES
  request,    \* what the client asked (it never changes)
  handler,    \* the HTTP handler: "creating", "relaying" or "returned"
  taken,      \* the result the handler is writing to the client
  output,     \* what the client was shown, in order
  ctxDone,    \* whether the context of the request is cancelled
  left,       \* history: whether the client left before the handler returned
  relay,      \* where the goroutine is
  pending,    \* the results it has to send before it goes on
  channel,    \* the completion channel
  closed,     \* whether it is closed
  received,   \* the chunks received from the engine
  tokenCount, \* tokenCount of the goroutine
  complete,   \* history: whether the engine sent [DONE]
  events,     \* the events written for the QA, in order
  refused     \* history: the columns whose last event the writer refused

handlerVars == <<handler, taken, output>>
relayVars   == <<relay, pending, received, tokenCount, complete>>
vars == <<request, handlerVars, ctxDone, left, relayVars, channel, closed, events, refused>>

Message(kind) == [kind |-> kind, n |-> 0]
ErrorResult == Message("error")

\* How many of the chunks carried the part: what Merge has accumulated.
Count(part, chunks) == Cardinality({i \in DOMAIN chunks : part \in chunks[i]})

Merged(part) == Count(part, received)

Init ==
  /\ request \in Request
  /\ handler = "creating"
  /\ taken = None
  /\ output = <<>>
  /\ ctxDone = FALSE /\ left = FALSE
  /\ relay = "idle"
  /\ pending = <<>>
  /\ channel = <<>>
  /\ closed = FALSE
  /\ received = <<>>
  /\ tokenCount = 0
  /\ complete = FALSE
  /\ events = <<>>
  /\ refused = {}

---------------------------------------------------------------------------
(* The handler.                                                            *)

\* QuestionCreated is written, then the goroutine starts; for a file the
\* references to it are its first result.
CreateCompletion ==
  /\ handler = "creating"
  /\ handler' = "relaying"
  /\ events' = <<[column |-> "Question", value |-> 1]>>
  /\ relay' = "started"
  /\ pending' = IF request.file THEN <<Message("fileReferences")>> ELSE <<>>
  /\ UNCHANGED <<request, left, taken, output, ctxDone, received, tokenCount, complete,
                 channel, closed, refused>>

\* The return of a handler cancels the context of its request.
Return == handler' = "returned" /\ ctxDone' = TRUE

\* The event cannot be written, or the body is bad: an HTTP error.
CreateFails ==
  /\ handler = "creating"
  /\ Return
  /\ UNCHANGED <<request, left, taken, output, relayVars, channel, closed, events, refused>>

\* A result as the client sees it: which chunks its text has. The Delta of the
\* first chunk is the one that the stream merges all later chunks into.
Shown(result) ==
  [kind |-> result.kind, n |-> result.n,
   upTo |-> IF result.n = 1 THEN Len(received) ELSE result.n]

\* Text read while it was being merged into: any bytes.
Torn == 0

\* The handler receives. After an error or Done it returns.
Take ==
  /\ handler = "relaying" /\ taken = None
  /\ channel # <<>>
  /\ channel' = Tail(channel)
  /\ \/ /\ Head(channel).kind \in {"error", "done"}
        /\ output' = Append(output, Shown(Head(channel)))
        /\ Return /\ UNCHANGED taken
     \/ /\ Head(channel).kind \notin {"error", "done"}
        /\ taken' = Shown(Head(channel))
        /\ UNCHANGED <<handler, output, ctxDone>>
  /\ UNCHANGED <<request, left, relayVars, closed, events, refused>>

\* json.Marshal and the write to the client: what was there when it was taken,
\* or, for the first chunk, what is merged into it meanwhile, without a lock.
Write ==
  /\ taken # None
  /\ \E upTo \in IF taken.n = 1 /\ taken.upTo < Len(received)
                 THEN {Torn} \union (taken.upTo .. Len(received)) ELSE {taken.upTo} :
       output' = Append(output, [taken EXCEPT !.upTo = upTo])
  /\ taken' = None
  /\ UNCHANGED <<request, left, handler, ctxDone, relayVars, channel, closed, events, refused>>

ChannelClosed ==
  /\ handler = "relaying" /\ taken = None
  /\ channel = <<>> /\ closed
  /\ Return
  /\ UNCHANGED <<request, left, taken, output, relayVars, channel, closed, events, refused>>

ContextDone ==
  /\ handler = "relaying" /\ taken = None
  /\ ctxDone
  /\ Return
  /\ UNCHANGED <<request, left, taken, output, relayVars, channel, closed, events, refused>>

ClientLeaves ==
  /\ handler = "relaying"
  /\ ~ctxDone
  /\ ctxDone' = TRUE /\ left' = TRUE
  /\ UNCHANGED <<request, handlerVars, relayVars, channel, closed, events, refused>>

---------------------------------------------------------------------------
(* The goroutine.                                                          *)

\* Faulty variant: the channel has no bound.
SendUnbounded ==
  /\ pending # <<>>
  /\ channel' = Append(channel, Head(pending))
  /\ pending' = Tail(pending)
  /\ UNCHANGED <<request, left, handlerVars, ctxDone, relay, received, tokenCount, complete,
                 closed, events, refused>>

\* Faulty variant: what finds the channel full is dropped.
SendOrDrop ==
  /\ pending # <<>>
  /\ channel' = IF Len(channel) < Capacity THEN Append(channel, Head(pending)) ELSE channel
  /\ pending' = Tail(pending)
  /\ UNCHANGED <<request, left, handlerVars, ctxDone, relay, received, tokenCount, complete,
                 closed, events, refused>>

\* Every send blocks while the channel is full, whoever is still receiving.
Send ==
  /\ pending # <<>>
  /\ Len(channel) < Capacity
  /\ channel' = Append(channel, Head(pending))
  /\ pending' = Tail(pending)
  /\ UNCHANGED <<request, left, handlerVars, ctxDone, relay, received, tokenCount, complete,
                 closed, events, refused>>

At(place) == relay = place /\ pending = <<>>

Finish(results) == relay' = "closing" /\ pending' = results

Start ==
  /\ At("started")
  /\ CASE request.question = "stream-error-test" -> Finish(<<ErrorResult>>)
       [] request.question = "oneWord" -> Finish(<<Message("canned"), Message("done")>>)
       [] request.question = "words" -> relay' = "connecting" /\ UNCHANGED pending
  /\ UNCHANGED <<request, left, handlerVars, ctxDone, received, tokenCount, complete, channel,
                 closed, events, refused>>

\* CreateChatStream: fails with the context, the connection or the status.
Connect ==
  /\ At("connecting")
  /\ \/ ~ctxDone /\ relay' = "looping" /\ UNCHANGED pending
     \/ Finish(<<ErrorResult>>)
  /\ UNCHANGED <<request, left, handlerVars, ctxDone, received, tokenCount, complete, channel,
                 closed, events, refused>>

\* Faulty variant: the break leaves the select only, not the loop.
CheckContextSpins ==
  /\ At("looping")
  /\ ~ctxDone
  /\ relay' = "receiving"
  /\ UNCHANGED <<request, left, handlerVars, ctxDone, pending, received, tokenCount, complete,
                 channel, closed, events, refused>>

CheckContext ==
  /\ At("looping")
  /\ \/ ctxDone /\ Finish(<<ErrorResult>>)
     \/ ~ctxDone /\ relay' = "receiving" /\ UNCHANGED pending
  /\ UNCHANGED <<request, left, handlerVars, ctxDone, received, tokenCount, complete, channel,
                 closed, events, refused>>

ReceiveChunk ==
  /\ At("receiving")
  /\ Len(received) < MaxChunks
  /\ \E chunk \in Chunk : received' = Append(received, chunk)
  /\ pending' = <<[kind |-> "chunk", n |-> Len(received')]>>
  /\ relay' = "recording"
  /\ UNCHANGED <<request, left, handlerVars, ctxDone, tokenCount, complete, channel, closed,
                 events, refused>>

\* [DONE] is io.EOF: the goroutine returns without a Done of its own.
ReceiveDone ==
  /\ At("receiving")
  /\ Finish(<<>>)
  /\ complete' = TRUE
  /\ UNCHANGED <<request, left, handlerVars, ctxDone, received, tokenCount, channel, closed,
                 events, refused>>

\* An error of the engine, a broken line, EOF before [DONE], the context.
ReceiveError ==
  /\ At("receiving")
  /\ Finish(<<ErrorResult>>)
  /\ UNCHANGED <<request, left, handlerVars, ctxDone, received, tokenCount, complete, channel,
                 closed, events, refused>>

Usage == IF "TokenCount" \in Last(received) THEN 1 ELSE 0

\* The columns of an answer: for a file, the references are those to the file,
\* and there are no keywords.
StoredColumns ==
  IF request.file THEN {"TokenCount", "Answer", "FileReferences"} ELSE Part

\* The version of a column that the chunks make.
VersionOf(column, chunks) ==
  IF column = "FileReferences" THEN IF chunks = <<>> THEN 0 ELSE 1 ELSE Count(column, chunks)

\* The columns that the chunk has an event of: its tokens, the references to the
\* file if it is the first (fr is nil behind it), and the parts that are not empty.
Due ==
  {column \in StoredColumns :
     CASE column = "TokenCount"     -> TRUE
       [] column = "FileReferences" -> Len(received) = 1
       [] OTHER                     -> Merged(column) > 0}

EventOf(column, value, accepted) ==
  IF column \in accepted THEN <<[column |-> column, value |-> value]>> ELSE <<>>

\* The events of a chunk, in order.
ChunkEvents(tokens, accepted) ==
  EventOf("TokenCount", tokens, accepted) \o EventOf("Answer", Merged("Answer"), accepted)
  \o EventOf("FileReferences", 1, accepted)
  \o EventOf("References", Merged("References"), accepted)
  \o EventOf("Keywords", Merged("Keywords"), accepted)
  \o EventOf("RelatedQueries", Merged("RelatedQueries"), accepted)

\* The writer may refuse any of them: the context is done, no broker is there,
\* the message is too large. Nobody looks at its error.
WriteEvents(tokens) ==
  \E accepted \in SUBSET Due :
    /\ events' = events \o ChunkEvents(tokens, accepted)
    /\ refused' = (refused \ accepted) \union (Due \ accepted)
    /\ ctxDone \/ Cardinality(refused') <= MaxRefused

\* Faulty variant: the usage of the chunk is written, not the sum.
RecordUsage ==
  /\ At("recording")
  /\ tokenCount' = Usage
  /\ WriteEvents(tokenCount')
  /\ relay' = "looping"
  /\ UNCHANGED <<request, left, handlerVars, ctxDone, pending, received, complete, channel, closed>>

Record ==
  /\ At("recording")
  /\ tokenCount' = tokenCount + Usage
  /\ WriteEvents(tokenCount')
  /\ relay' = "looping"
  /\ UNCHANGED <<request, left, handlerVars, ctxDone, pending, received, complete, channel, closed>>

\* The deferred close.
Close ==
  /\ At("closing")
  /\ relay' = "exited"
  /\ closed' = TRUE
  /\ UNCHANGED <<request, left, handlerVars, ctxDone, pending, received, tokenCount, complete,
                 channel, events, refused>>

---------------------------------------------------------------------------
Handler == CreateCompletion \/ CreateFails \/ Take \/ Write \/ ChannelClosed \/ ContextDone

Relay ==
  \/ Send \/ Start \/ Connect \/ CheckContext
  \/ ReceiveChunk \/ ReceiveDone \/ ReceiveError
  \/ Record \/ Close

Next == Handler \/ Relay \/ ClientLeaves

Spec == Init /\ [][Next]_vars

\* Both goroutines run: the handler writes to the client, the goroutine does what
\* does not wait for the engine, and a cancelled context ends what does, as the
\* request to the engine carries it. The engine need not send anything, and the
\* client need not leave.
Work == Send \/ Start \/ CheckContext \/ Record \/ Close

Cancel == ctxDone /\ (Connect \/ ReceiveError)

FairSpec == Spec /\ WF_vars(Handler) /\ WF_vars(Work \/ Cancel)
---------------------------------------------------------------------------
(* Properties.                                                             *)

TypeOK ==
  /\ request \in Request
  /\ handler \in {"creating", "relaying", "returned"}
  /\ taken \in Shows \union {None}
  /\ output \in Seq(Shows)
  /\ ctxDone \in BOOLEAN /\ left \in BOOLEAN
  /\ relay \in {"idle", "started", "connecting", "looping", "receiving", "recording",
                "closing", "exited"}
  /\ pending \in Seq(Result)
  /\ channel \in Seq(Result)
  /\ closed \in BOOLEAN
  /\ received \in Seq(Chunk)
  /\ tokenCount \in 0 .. MaxChunks
  /\ complete \in BOOLEAN
  /\ events \in Seq(Event)
  /\ refused \subseteq ChunkColumn

\* Whatever happens to the request, its events are a script as EventConsumer
\* assumes it: the question first and once, and no column ever goes back. The
\* consumer's overwriting UPDATEs rest on that.
EventsFormScript ==
  /\ \A i \in DOMAIN events : events[i].column = "Question" <=> i = 1
  /\ \A i, j \in DOMAIN events :
       i < j /\ events[i].column = events[j].column => events[i].value <= events[j].value

\* The version of the column that the events leave in the row.
Stored(column) ==
  LET values == {events[i].value : i \in {j \in DOMAIN events : events[j].column = column}}
  IN  IF values = {} THEN 0 ELSE CHOOSE v \in values : \A w \in values : w <= v

\* An answer, whole or cut off by an error or by the client's leaving, is stored
\* as far as it was received, but for the columns whose last event the writer
\* refused. An event that was refused before is made up for by the next of its
\* column, which has all that was received; only the references to a file have
\* no next one.
PartialAnswerIsStored ==
  relay \in {"looping", "receiving", "closing", "exited"} =>
    \A column \in StoredColumns \ refused : Stored(column) = VersionOf(column, received)

\* What the consumer makes a row of is the answer as far as it was received.
StoredAsReceived == EventsFormScript /\ PartialAnswerIsStored

\* The first message may repeat text of the messages behind it, but never of
\* more than the channel holds, one in the goroutine's hands and itself.
RepeatedTextIsBounded ==
  \A i \in DOMAIN output : output[i].n # 0 => output[i].upTo - output[i].n <= Capacity + 1

\* The state is well-formed, what was written to the client included.
RelayInvariant == TypeOK /\ RepeatedTextIsBounded

\* The goroutine waits for the engine, and nothing ends the wait: the response
\* header is timed out, but not the body, that of an error status included.
Waiting == ~ctxDone /\ (At("connecting") \/ At("receiving"))

\* The goroutine is abandoned: it sends, the channel is full, nobody receives.
Abandoned == handler = "returned" /\ pending # <<>> /\ Len(channel) = Capacity

Ended == relay \in {"idle", "exited"} /\ handler = "returned"

\* The handler returns and the goroutine ends, or it is abandoned for ever, unless
\* an engine that neither goes on with the answer nor ends it has them wait for
\* ever, which they do only for a client that stays.
RelayExitsUnlessAbandoned == <>(Ended \/ Abandoned) \/ <>[]Waiting

\* What AnswerStream calls the source is the engine's stream, or the canned answer.
SourceOf ==
  IF complete \/ (request.question = "oneWord" /\ relay \in {"closing", "exited"})
  THEN "complete" ELSE IF relay \in {"closing", "exited"} THEN "failed" ELSE "open"

EndOf ==
  IF handler # "returned" THEN "none"
  ELSE IF relay = "idle" \/ (output # <<>> /\ Last(output).kind = "error") THEN "error"
  ELSE IF left THEN "left" ELSE "complete"

Promised == INSTANCE AnswerStream WITH
  Restarts  <- FALSE,
  Orderly   <- TRUE,
  received  <- Len(received),
  delivered <- Cardinality({i \in DOMAIN output : output[i].n # 0}),
  source    <- SourceOf,
  end       <- EndOf

\* The relay implements AnswerStream: each chunk of the engine is written to the
\* client once and in turn, an error comes behind all that was received before
\* it, and an answer ends without one only if the engine completed it.
DeliversAnswerStream == Promised!Spec
=============================================================================
