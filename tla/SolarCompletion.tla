--------------------------- MODULE SolarCompletion ---------------------------
(***************************************************************************)
(* The two endpoints of the conversation engine that ask solar-pro and     *)
(* nobody else, /chat/completions/file and /chat/completions/multi, and    *)
(* the goroutine of the backend that asks them:                            *)
(*                                                                         *)
(*   relay (backend/internal/http/request/stream.go, and its loop in       *)
(*     backend/service/completion.go)                                      *)
(*     | POST                            ^ status, lines, end              *)
(*     v                                 |                                 *)
(*   handler  <-- channel --  goroutine  <-- stream --  LLM                *)
(*                                                                         *)
(* Either end of the connection may be the one that waits for the other,   *)
(* so the question is who ends it. The backend only sends well-formed      *)
(* requests whose last message is the user's. A result of the channel, and *)
(* a line of the response, is its kind.                                    *)
(***************************************************************************)
EXTENDS Integers, Sequences, FiniteSets, SequencesExt

CONSTANTS
  Capacity,   \* of the result channel (20 in the code)
  FaultKind,  \* what may go wrong in the environment
  MaxChunks   \* bound: how many chunks of text the LLM streams

Endpoint == {"file", "multi"}

\* The choice of a function is refused, is no JSON, has no choices; the call
\* of the function fails; the stream is refused, has a line that is not JSON,
\* ends before [DONE]; the engine is stopped.
Fault == {"choice", "noChoices", "call", "stream", "badLine", "broken", "stop"}

ASSUME ConstantsAssumption ==
  /\ Capacity \in Nat \ {0} /\ MaxChunks \in Nat
  /\ FaultKind \subseteq Fault

Kind == {"usage", "keywords", "references", "text", "error", "done"}

\* null is what a result without a completion becomes.
Line == Kind \union {"null"}

VARIABLES
  endpoint, \* which endpoint is asked (it never changes)
  relay,    \* the backend: posting, draining, receiving, complete, failed, left
  received, \* the lines it has taken, in order
  status,   \* of the response: none, ok or error
  sent,     \* whether the status has left the handler's buffer
  lines,    \* the lines that are on their way
  handler,  \* choosing, reading, returned, panicked, killed
  ctxDone,  \* whether the context of the request is cancelled
  engine,   \* where the goroutine is
  pending,  \* the results it has to send before it goes on
  searches, \* whether the LLM has chosen the search function
  chunks,   \* how many chunks of text it has streamed
  broken,   \* whether its stream has ended or failed before [DONE]
  stopped,  \* history: whether it has streamed [DONE]
  channel,  \* the result channel; nil and empty are the same to a reader
  closed    \* whether it is closed

relayVars    == <<relay, received>>
responseVars == <<status, sent, lines>>
engineVars   == <<engine, pending, searches>>
llmVars      == <<chunks, broken, stopped>>
channelVars  == <<channel, closed>>
vars == <<endpoint, relayVars, responseVars, handler, ctxDone, engineVars, llmVars, channelVars>>

Init ==
  /\ endpoint \in Endpoint
  /\ relay = "posting" /\ received = <<>>
  /\ status = "none" /\ sent = FALSE /\ lines = <<>>
  /\ handler = "choosing" /\ ctxDone = FALSE
  /\ engine = "idle" /\ pending = <<>> /\ searches = FALSE
  /\ chunks = 0 /\ broken = FALSE /\ stopped = FALSE
  /\ channel = <<>> /\ closed = FALSE

\* The response ends with the handler.
Ended == handler \in {"returned", "panicked", "killed"}

\* The backend has closed the connection.
Gone == relay \in {"complete", "failed", "left"}

---------------------------------------------------------------------------
(* The handler.                                                            *)

\* Files need no choice. Otherwise solar-pro chooses a function, or none,
\* before there is a channel, and what it chose is sent as usage.
StartGoroutine ==
  /\ handler = "choosing"
  /\ handler' = "reading"
  /\ IF endpoint = "file"
     THEN engine' = "connecting" /\ UNCHANGED <<pending, searches>>
     ELSE /\ ~ctxDone
          /\ pending' = <<"usage">>
          /\ \/ engine' = "calling" /\ searches' \in BOOLEAN
             \/ engine' = "connecting" /\ UNCHANGED searches
  /\ UNCHANGED <<endpoint, relayVars, responseVars, ctxDone, llmVars, channelVars>>

\* The error is written, but not flushed, and the handler goes on to read from
\* a nil channel.
ChoiceFails ==
  /\ handler = "choosing" /\ endpoint = "multi"
  /\ "choice" \in FaultKind \/ ctxDone
  /\ handler' = "reading"
  /\ status' = "error"
  /\ UNCHANGED <<endpoint, relayVars, sent, lines, ctxDone, engineVars, llmVars, channelVars>>

\* Choices[0] of none: the server recovers the panic and drops the connection.
ChoiceIsEmpty ==
  /\ handler = "choosing" /\ endpoint = "multi"
  /\ "noChoices" \in FaultKind
  /\ handler' = "panicked" /\ ctxDone' = TRUE
  /\ UNCHANGED <<endpoint, relayVars, responseVars, engineVars, llmVars, channelVars>>

\* The lines of a result. After an error or Done the handler does not return:
\* it writes the completion, which is nil then, too.
Written(result) == IF result \in {"error", "done"} THEN <<result, "null">> ELSE <<result>>

\* Every line is flushed, and the first one fixes the status.
WriteLines(result) ==
  /\ lines' = lines \o Written(result)
  /\ status' = IF status # "none" THEN status ELSE IF result = "error" THEN "error" ELSE "ok"
  /\ sent' = TRUE

Take ==
  /\ handler = "reading"
  /\ channel # <<>>
  /\ channel' = Tail(channel)
  /\ WriteLines(Head(channel))
  /\ UNCHANGED <<endpoint, relayVars, handler, ctxDone, engineVars, llmVars, closed>>

\* Faulty variant: the handler does not look at the context.
HandlerStopsAtClose ==
  /\ handler = "reading"
  /\ closed /\ channel = <<>>
  /\ handler' = "returned" /\ ctxDone' = TRUE
  /\ UNCHANGED <<endpoint, relayVars, responseVars, engineVars, llmVars, channelVars>>

HandlerStops ==
  /\ handler = "reading"
  /\ ctxDone \/ (closed /\ channel = <<>>)
  /\ handler' = "returned" /\ ctxDone' = TRUE
  /\ UNCHANGED <<endpoint, relayVars, responseVars, engineVars, llmVars, channelVars>>

\* The server notices that the connection is closed and cancels the context.
NoticeGone ==
  /\ Gone /\ ~ctxDone
  /\ ctxDone' = TRUE
  /\ UNCHANGED <<endpoint, relayVars, responseVars, handler, engineVars, llmVars, channelVars>>

---------------------------------------------------------------------------
(* The goroutine.                                                          *)

At(place) == engine = place /\ pending = <<>>

\* The goroutine for a file does not close its channel.
Finish(results) ==
  /\ engine' = IF endpoint = "file" THEN "exited" ELSE "closing"
  /\ pending' = results

\* Faulty variant: nobody waits for room in the channel.
SendUnbounded ==
  /\ pending # <<>>
  /\ channel' = Append(channel, Head(pending))
  /\ pending' = Tail(pending)
  /\ UNCHANGED <<endpoint, relayVars, responseVars, handler, ctxDone, engine, searches, llmVars,
                 closed>>

Send ==
  /\ pending # <<>>
  /\ Len(channel) < Capacity
  /\ channel' = Append(channel, Head(pending))
  /\ pending' = Tail(pending)
  /\ UNCHANGED <<endpoint, relayVars, responseVars, handler, ctxDone, engine, searches, llmVars,
                 closed>>

\* The keywords, empty if they cannot be had, are waited for before the
\* references are sent.
CallSearch ==
  /\ At("calling")
  /\ searches /\ ~ctxDone
  /\ engine' = "connecting"
  /\ pending' = <<"keywords", "references">>
  /\ UNCHANGED <<endpoint, relayVars, responseVars, handler, ctxDone, searches, llmVars,
                 channelVars>>

\* No function but search can be called at all.
CallFails ==
  /\ At("calling")
  /\ ~searches \/ "call" \in FaultKind \/ ctxDone
  /\ Finish(<<"error">>)
  /\ UNCHANGED <<endpoint, relayVars, responseVars, handler, ctxDone, searches, llmVars,
                 channelVars>>

Connect ==
  /\ At("connecting")
  /\ \/ ~ctxDone /\ engine' = "looping" /\ UNCHANGED pending
     \/ ("stream" \in FaultKind \/ ctxDone) /\ Finish(<<"error">>)
  /\ UNCHANGED <<endpoint, relayVars, responseVars, handler, ctxDone, searches, llmVars,
                 channelVars>>

CheckContext ==
  /\ At("looping")
  /\ \/ ctxDone /\ Finish(<<"error">>)
     \/ ~ctxDone /\ engine' = "receiving" /\ UNCHANGED pending
  /\ UNCHANGED <<endpoint, relayVars, responseVars, handler, ctxDone, searches, llmVars,
                 channelVars>>

ReceiveText ==
  /\ At("receiving")
  /\ ~broken /\ chunks < MaxChunks
  /\ chunks' = chunks + 1
  /\ pending' = <<"text">>
  /\ engine' = "looping"
  /\ UNCHANGED <<endpoint, relayVars, responseVars, handler, ctxDone, searches, broken, stopped,
                 channelVars>>

ReceiveStop ==
  /\ At("receiving")
  /\ ~broken
  /\ stopped' = TRUE
  /\ Finish(<<"done">>)
  /\ UNCHANGED <<endpoint, relayVars, responseVars, handler, ctxDone, searches, chunks, broken,
                 channelVars>>

\* Faulty variant: whatever Recv returns is taken for the end.
ReceiveBadLineAsEnd ==
  /\ At("receiving")
  /\ ~broken /\ "badLine" \in FaultKind
  /\ Finish(<<"done">>)
  /\ UNCHANGED <<endpoint, relayVars, responseVars, handler, ctxDone, searches, llmVars,
                 channelVars>>

ReceiveBadLine ==
  /\ At("receiving")
  /\ ~broken /\ "badLine" \in FaultKind
  /\ Finish(<<"error">>)
  /\ UNCHANGED <<endpoint, relayVars, responseVars, handler, ctxDone, searches, llmVars,
                 channelVars>>

\* The connection to the LLM is lost, or the cancelled context ends it. Recv
\* ignores the errors of the reader for upstage: it never returns.
BreakStream ==
  /\ engine \in {"looping", "receiving"} /\ ~broken
  /\ "broken" \in FaultKind \/ ctxDone
  /\ broken' = TRUE
  /\ UNCHANGED <<endpoint, relayVars, responseVars, handler, ctxDone, engineVars, chunks, stopped,
                 channelVars>>

Close ==
  /\ At("closing")
  /\ engine' = "exited"
  /\ closed' = TRUE
  /\ UNCHANGED <<endpoint, relayVars, responseVars, handler, ctxDone, pending, searches, llmVars,
                 channel>>

\* A request that outlasts the grace period of a shutdown dies with the process.
Terminate ==
  /\ "stop" \in FaultKind
  /\ ~Ended
  /\ handler' = "killed" /\ ctxDone' = TRUE
  /\ engine' = "exited" /\ pending' = <<>> /\ channel' = <<>>
  /\ UNCHANGED <<endpoint, relayVars, responseVars, searches, llmVars, closed>>

---------------------------------------------------------------------------
(* The relay.                                                              *)

\* client.Do returns with the status; that of an error makes the relay read
\* the body to its end before it gives up.
ReceiveStatus ==
  /\ relay = "posting"
  /\ sent
  /\ relay' = IF status = "error" THEN "draining" ELSE "receiving"
  /\ UNCHANGED <<endpoint, received, responseVars, handler, ctxDone, engineVars, llmVars,
                 channelVars>>

\* The status does not come in time (ResponseHeaderTimeout), or never will.
PostFails ==
  /\ relay = "posting"
  /\ ~sent
  /\ relay' = "failed"
  /\ UNCHANGED <<endpoint, received, responseVars, handler, ctxDone, engineVars, llmVars,
                 channelVars>>

Drain ==
  /\ relay = "draining"
  /\ Ended
  /\ relay' = "failed"
  /\ UNCHANGED <<endpoint, received, responseVars, handler, ctxDone, engineVars, llmVars,
                 channelVars>>

\* An error and [DONE] are the last lines it reads: it closes the connection.
ReceiveLine ==
  /\ relay = "receiving"
  /\ lines # <<>>
  /\ lines' = Tail(lines)
  /\ received' = Append(received, Head(lines))
  /\ relay' = CASE Head(lines) = "error" -> "failed"
                [] Head(lines) = "done"  -> "complete"
                [] OTHER                 -> "receiving"
  /\ UNCHANGED <<endpoint, status, sent, handler, ctxDone, engineVars, llmVars, channelVars>>

\* EOF comes before [DONE].
ReceiveEnd ==
  /\ relay = "receiving"
  /\ lines = <<>> /\ Ended
  /\ relay' = "failed"
  /\ UNCHANGED <<endpoint, received, responseVars, handler, ctxDone, engineVars, llmVars,
                 channelVars>>

\* The user leaves the backend.
Leave ==
  /\ ~Gone
  /\ relay' = "left"
  /\ UNCHANGED <<endpoint, received, responseVars, handler, ctxDone, engineVars, llmVars,
                 channelVars>>

---------------------------------------------------------------------------
Handler == StartGoroutine \/ ChoiceFails \/ ChoiceIsEmpty \/ Take \/ HandlerStops \/ NoticeGone

Receive == ReceiveText \/ ReceiveStop \/ ReceiveBadLine

Engine == Send \/ CallSearch \/ CallFails \/ Connect \/ CheckContext \/ Receive \/ Close

Relay == ReceiveStatus \/ PostFails \/ Drain \/ ReceiveLine \/ ReceiveEnd

Next == Handler \/ Engine \/ BreakStream \/ Terminate \/ Relay \/ Leave

Spec == Init /\ [][Next]_vars

\* What the goroutine does without waiting for the search service, whose call a
\* cancelled context ends; a call of another function fails at once.
Work ==
  \/ Send \/ Connect \/ CheckContext \/ Receive \/ Close
  \/ (ctxDone \/ ~searches) /\ CallFails

\* Both programs run, a status that does not come is timed out, and an LLM answers
\* and ends every stream that does not break. The search service need not answer:
\* its call has no timeout. No user need leave.
FairSpec == Spec /\ WF_vars(Handler) /\ WF_vars(Work) /\ WF_vars(Relay)
---------------------------------------------------------------------------
(* Properties.                                                             *)

TypeOK ==
  /\ endpoint \in Endpoint
  /\ relay \in {"posting", "draining", "receiving", "complete", "failed", "left"}
  /\ received \in Seq(Line)
  /\ status \in {"none", "ok", "error"}
  /\ sent \in BOOLEAN
  /\ lines \in Seq(Line)
  /\ handler \in {"choosing", "reading", "returned", "panicked", "killed"}
  /\ ctxDone \in BOOLEAN
  /\ engine \in {"idle", "calling", "connecting", "looping", "receiving", "closing", "exited"}
  /\ pending \in Seq(Kind)
  /\ searches \in BOOLEAN
  /\ chunks \in 0 .. MaxChunks
  /\ broken \in BOOLEAN
  /\ stopped \in BOOLEAN
  /\ channel \in Seq(Kind)
  /\ Len(channel) <= Capacity
  /\ closed \in BOOLEAN

\* The lines of an answer that ended well, in order.
WholeAnswer ==
  (IF endpoint = "file" THEN <<>> ELSE <<"usage">>)
  \o (IF searches THEN <<"keywords", "references">> ELSE <<>>)
  \o [i \in 1 .. chunks |-> "text"]
  \o <<"done">>

\* The backend takes an answer for complete only if the LLM has finished it, and
\* then it has all of it, the keywords and references of a search included.
CompleteMeansWhole == relay = "complete" => stopped /\ received = WholeAnswer

\* The null after an error or [DONE] never becomes a chunk of the backend, which
\* would dereference its missing Delta.
NullIsNeverReceived == ~Contains(received, "null")

\* What the backend has received is an answer, whole if it is complete.
ReceivedIsAnswer == CompleteMeansWhole /\ NullIsNeverReceived

\* Recv spins on a stream that broke.
Spinning == broken /\ At("receiving")

\* When the stream for a file begins with an error, its handler waits for its
\* client to leave while the backend waits for the end of the error's body.
Deadlock ==
  /\ endpoint = "file" /\ At("exited")
  /\ handler = "reading" /\ relay = "draining" /\ ~ctxDone

\* The search service does not answer. The status of the request was sent with the
\* usage before, so the backend does not time out.
Unanswered == At("calling") /\ searches

\* But for these three cases the request of the backend ends, with an answer or an
\* error, though no user leaves.
RelayEndsUnlessStuck == <>(Gone \/ Spinning \/ Deadlock) \/ <>[]Unanswered

\* A goroutine blocks on a channel that nobody reads any more.
Abandoned == pending # <<>> /\ Len(channel) = Capacity

\* Once the backend is gone, however it ended, nothing of the request stays
\* behind, unless the goroutine spins or is abandoned.
Released == Ended /\ (At("idle") \/ At("exited") \/ Spinning \/ Abandoned)

GoneIsReleased == Gone ~> Released

\* The request of the backend ends, and the engine is done with it.
RequestIsReleased == RelayEndsUnlessStuck /\ GoneIsReleased

Promised == INSTANCE AnswerStream WITH
  Restarts  <- FALSE,
  Orderly   <- FALSE,
  received  <- chunks,
  delivered <- Cardinality({i \in DOMAIN received : received[i] = "text"}),
  source    <- IF stopped THEN "complete"
               ELSE IF engine \in {"closing", "exited"} THEN "failed" ELSE "open",
  end       <- CASE relay = "complete" -> "complete"
                 [] relay = "failed"   -> "error"
                 [] relay = "left"     -> "left"
                 [] OTHER              -> "none"

\* The engine and the relay together implement AnswerStream, but for errors that
\* overtake text: no line is lost, repeated or counted before it was streamed,
\* and what the relay takes for complete is what the LLM completed.
DeliversAnswerStream == Promised!Spec
=============================================================================
