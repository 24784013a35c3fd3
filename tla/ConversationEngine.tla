-------------------------- MODULE ConversationEngine --------------------------
(***************************************************************************)
(* One request of the conversation engine                                  *)
(* (conversation/service/completion.go, CreateChatCompletion): the loop    *)
(* that falls back from one LLM to the next, the loop of function calls,   *)
(* the loop that receives a stream, the goroutine that generates keywords  *)
(* and related queries, and the HTTP handler at the other end of the       *)
(* channel. The LLMs and the search service are the environment.           *)
(*                                                                         *)
(* A result is its kind. The functions are offered until one call has      *)
(* succeeded, and an LLM calls only what it is offered. Of the functions   *)
(* only search ever succeeds: the others are placeholders that fail.       *)
(***************************************************************************)
EXTENDS Integers, Sequences, FiniteSets

CONSTANTS
  ModelLists, \* UPSTAGE_LLM_MODEL may be one of these lists of [provider, retries]
  AzureKeys,  \* how many keys UPSTAGE_AZURE_ENDPOINT_KEY_MAP has
  Capacity,   \* of the result channel (10 in the code)
  FaultKind,  \* what may go wrong in the environment
  MaxChunks   \* bound: how many chunks of text a stream has

Provider == {"openai", "azure", "upstage"}

\* A stream is refused, refused with status 429, has a line that is not JSON,
\* ends before [DONE], or has nothing but [DONE].
Fault == {"create", "rateLimit", "badLine", "broken", "empty"}

ASSUME ConstantsAssumption ==
  /\ ModelLists \subseteq Seq([provider : Provider, retries : Nat]) /\ <<>> \notin ModelLists
  /\ AzureKeys \in Nat /\ MaxChunks \in Nat
  /\ Capacity \in Nat \ {0}
  /\ FaultKind \subseteq Fault

Kind == {"usage", "text", "references", "keywords", "error", "done"}

LoopError == {"none", "searchFailed", "rateLimit", "other"}

VARIABLES
  models,        \* the list, in order of preference (it never changes)
  engine,        \* where the goroutine is
  pending,       \* the results it has to send before it goes on
  modelIndex,    \* 1 for the first model
  keyIndex,      \* 0 for the first key
  fallbackCount, \* as in the code
  loopError,     \* what ended the last attempt
  tries,         \* history: tries[m], the attempts with model m
  chunks,        \* how many chunks the current stream has sent
  broken,        \* whether the body of the current stream has ended or failed
  searched,      \* whether a search has succeeded
  keywords,      \* the goroutine for keywords: none, generating, sending, ended
  sendKeywords,  \* whether the current attempt has started it
  channel,       \* the result channel
  closed,        \* whether it is closed
  handler,       \* the HTTP handler
  output,        \* what the client was sent
  ctxDone,       \* whether the request is cancelled
  panicked       \* whether the process has died

loopVars   == <<models, modelIndex, keyIndex, fallbackCount, tries>>
streamVars == <<chunks, broken>>
handlerVars == <<handler, output, ctxDone>>
keywordVars == <<keywords, sendKeywords>>
vars == <<engine, pending, loopVars, loopError, streamVars, searched, keywordVars, channel,
          closed, handlerVars, panicked>>

Init ==
  /\ models \in ModelLists
  /\ engine = "choosing" /\ pending = <<>>
  /\ modelIndex = 1 /\ keyIndex = 0 /\ fallbackCount = 0
  /\ loopError = "none"
  /\ tries = [m \in DOMAIN models |-> 0]
  /\ chunks = 0 /\ broken = FALSE
  /\ searched = FALSE
  /\ keywords = "none" /\ sendKeywords = FALSE
  /\ channel = <<>> /\ closed = FALSE
  /\ handler = "reading" /\ output = <<>> /\ ctxDone = FALSE
  /\ panicked = FALSE

Model == models[modelIndex]

At(place) == engine = place /\ pending = <<>> /\ ~panicked

Finish(result) == engine' = "closing" /\ pending' = <<result>>

\* The attempt is given up: the outer loop starts again.
GiveUp(error) == engine' = "choosing" /\ loopError' = error /\ UNCHANGED pending

---------------------------------------------------------------------------
(* The fallback loop.                                                      *)

\* After a refusal for its rate, azure goes on with the next key.
NextKey == IF loopError = "rateLimit" /\ modelIndex <= Len(models)
              /\ Model.provider = "azure" /\ keyIndex < AzureKeys
           THEN keyIndex + 1 ELSE keyIndex

SearchFailed ==
  /\ At("choosing")
  /\ loopError = "searchFailed"
  /\ Finish("error")
  /\ UNCHANGED <<loopVars, loopError, streamVars, searched, keywordVars, channel, closed,
                 handlerVars, panicked>>

AllFallbackFailed ==
  /\ At("choosing")
  /\ loopError # "searchFailed"
  /\ modelIndex > Len(models)
  /\ Finish("error")
  /\ UNCHANGED <<loopVars, loopError, streamVars, searched, keywordVars, channel, closed,
                 handlerVars, panicked>>

\* Faulty variant: the count is not reset for the next model.
NextModelKeepsCount ==
  /\ At("choosing")
  /\ loopError # "searchFailed"
  /\ modelIndex <= Len(models) /\ fallbackCount + 1 > Model.retries
  /\ modelIndex' = modelIndex + 1
  /\ keyIndex' = 0
  /\ fallbackCount' = fallbackCount + 1
  /\ loopError' = "none"
  /\ UNCHANGED <<engine, pending, models, tries, streamVars, searched, keywordVars, channel, closed,
                 handlerVars, panicked>>

NextModel ==
  /\ At("choosing")
  /\ loopError # "searchFailed"
  /\ modelIndex <= Len(models) /\ fallbackCount + 1 > Model.retries
  /\ modelIndex' = modelIndex + 1
  /\ keyIndex' = 0
  /\ fallbackCount' = 0
  /\ loopError' = "none"
  /\ UNCHANGED <<engine, pending, models, tries, streamVars, searched, keywordVars, channel, closed,
                 handlerVars, panicked>>

\* Faulty variant: one attempt more than the list says.
TryModelOnceMore ==
  /\ At("choosing")
  /\ loopError # "searchFailed"
  /\ modelIndex <= Len(models) /\ fallbackCount <= Model.retries
  /\ fallbackCount' = fallbackCount + 1
  /\ tries' = [tries EXCEPT ![modelIndex] = @ + 1]
  /\ engine' = "connecting" /\ loopError' = "none" /\ sendKeywords' = FALSE
  /\ UNCHANGED <<pending, models, modelIndex, keyIndex, streamVars, searched, keywords, channel,
                 closed, handlerVars, panicked>>

\* NewClient fails when azure has run out of keys.
TryModel ==
  /\ At("choosing")
  /\ loopError # "searchFailed"
  /\ modelIndex <= Len(models) /\ fallbackCount + 1 <= Model.retries
  /\ fallbackCount' = fallbackCount + 1
  /\ keyIndex' = NextKey
  /\ tries' = [tries EXCEPT ![modelIndex] = @ + 1]
  /\ IF Model.provider = "azure" /\ keyIndex' >= AzureKeys
     THEN GiveUp("other")
     ELSE engine' = "connecting" /\ loopError' = "none" /\ UNCHANGED pending
  /\ sendKeywords' = FALSE
  /\ UNCHANGED <<models, modelIndex, streamVars, searched, keywords, channel, closed,
                 handlerVars, panicked>>

---------------------------------------------------------------------------
(* One stream.                                                             *)

\* CreateChatStream builds no request for azure, and sends it.
ConnectAzure ==
  /\ At("connecting")
  /\ Model.provider = "azure"
  /\ panicked' = TRUE
  /\ UNCHANGED <<engine, pending, loopVars, loopError, streamVars, searched, keywordVars, channel,
                 closed, handlerVars>>

Connect ==
  /\ At("connecting")
  /\ Model.provider # "azure"
  /\ ~ctxDone
  /\ engine' = "looping"
  /\ pending' = <<"usage">>
  /\ chunks' = 0 /\ broken' = FALSE
  /\ UNCHANGED <<loopVars, loopError, searched, keywordVars, channel, closed, handlerVars, panicked>>

ConnectFails ==
  /\ At("connecting")
  /\ Model.provider # "azure"
  /\ \/ ("create" \in FaultKind \/ ctxDone) /\ GiveUp("other")
     \/ "rateLimit" \in FaultKind /\ GiveUp("rateLimit")
  /\ UNCHANGED <<loopVars, streamVars, searched, keywordVars, channel, closed, handlerVars, panicked>>

CheckContext ==
  /\ At("looping")
  /\ \/ ctxDone /\ Finish("error")
     \/ ~ctxDone /\ engine' = "receiving" /\ UNCHANGED pending
  /\ UNCHANGED <<loopVars, loopError, streamVars, searched, keywordVars, channel, closed,
                 handlerVars, panicked>>

\* The connection is lost, or the cancelled context ends it.
BreakStream ==
  /\ engine \in {"looping", "receiving"} /\ ~broken /\ ~panicked
  /\ "broken" \in FaultKind \/ ctxDone
  /\ broken' = TRUE
  /\ UNCHANGED <<engine, pending, loopVars, loopError, chunks, searched, keywordVars, channel,
                 closed, handlerVars, panicked>>

ReceiveText ==
  /\ At("receiving")
  /\ ~broken
  /\ chunks < MaxChunks
  /\ chunks' = chunks + 1
  /\ engine' = "looping"
  /\ pending' = <<"text">>
  /\ UNCHANGED <<loopVars, loopError, broken, searched, keywordVars, channel, closed, handlerVars,
                 panicked>>

\* An error, but break leaves the select only: the stream is read on.
ReceiveBadLine ==
  /\ At("receiving")
  /\ ~broken
  /\ "badLine" \in FaultKind
  /\ loopError' = "other"
  /\ engine' = "looping"
  /\ UNCHANGED <<pending, loopVars, streamVars, searched, keywordVars, channel, closed, handlerVars,
                 panicked>>

\* Recv fails again and again on a stream that is gone. For upstage it does not
\* return at all: it ignores the errors of the reader.
ReceiveBroken ==
  /\ At("receiving")
  /\ broken
  /\ Model.provider # "upstage"
  /\ loopError' = "other"
  /\ engine' = "looping"
  /\ UNCHANGED <<pending, loopVars, streamVars, searched, keywordVars, channel, closed, handlerVars,
                 panicked>>

\* [DONE], after at least one chunk, and no error before it: the answer is
\* complete once the keywords are sent.
ReceiveStop ==
  /\ At("receiving")
  /\ ~broken
  /\ chunks > 0 /\ loopError = "none"
  /\ engine' = "waiting"
  /\ UNCHANGED <<pending, loopVars, loopError, streamVars, searched, keywordVars, channel, closed,
                 handlerVars, panicked>>

\* [DONE] after an error: the attempt failed.
ReceiveStopAfterError ==
  /\ At("receiving")
  /\ ~broken
  /\ loopError # "none"
  /\ GiveUp(loopError)
  /\ UNCHANGED <<loopVars, streamVars, searched, keywordVars, channel, closed, handlerVars, panicked>>

\* [DONE] and no chunk: ReadUntilNow is nil.
ReceiveNothing ==
  /\ At("receiving")
  /\ ~broken
  /\ "empty" \in FaultKind
  /\ chunks = 0 /\ loopError = "none"
  /\ panicked' = TRUE
  /\ UNCHANGED <<engine, pending, loopVars, loopError, streamVars, searched, keywordVars, channel,
                 closed, handlerVars>>

ReceiveFunctionCall ==
  /\ At("receiving")
  /\ ~broken
  /\ ~searched /\ loopError = "none"
  /\ engine' = "calling"
  /\ pending' = <<"usage">>
  /\ UNCHANGED <<loopVars, loopError, streamVars, searched, keywordVars, channel, closed,
                 handlerVars, panicked>>

---------------------------------------------------------------------------
(* The function call and the keywords.                                     *)

\* A search starts the goroutine for the keywords and sends the references.
CallSucceeds ==
  /\ At("calling")
  /\ engine' = "connecting"
  /\ searched' = TRUE
  /\ pending' = <<"references">>
  /\ keywords' = "generating" /\ sendKeywords' = TRUE
  /\ UNCHANGED <<loopVars, loopError, streamVars, channel, closed, handlerVars, panicked>>

\* The search service answers with another status than 200, or the call fails,
\* as that of any other function does.
CallFails ==
  /\ At("calling")
  /\ GiveUp("searchFailed") \/ GiveUp("other")
  /\ UNCHANGED <<loopVars, streamVars, searched, keywordVars, channel, closed, handlerVars, panicked>>

GenerateKeywords ==
  /\ keywords = "generating" /\ ~panicked
  /\ keywords' = "sending"
  /\ UNCHANGED sendKeywords
  /\ UNCHANGED <<engine, pending, loopVars, loopError, streamVars, searched, channel, closed,
                 handlerVars, panicked>>

\* Sent whether or not the generation worked: the keywords may be empty.
SendKeywords ==
  /\ keywords = "sending" /\ ~panicked
  /\ Len(channel) < Capacity
  /\ channel' = Append(channel, "keywords")
  /\ keywords' = "ended"
  /\ UNCHANGED sendKeywords
  /\ UNCHANGED <<engine, pending, loopVars, loopError, streamVars, searched, closed, handlerVars,
                 panicked>>

\* Faulty variant: what finds the channel full is dropped.
SendOrDrop ==
  /\ pending # <<>> /\ ~panicked
  /\ channel' = IF Len(channel) < Capacity THEN Append(channel, Head(pending)) ELSE channel
  /\ pending' = Tail(pending)
  /\ UNCHANGED <<engine, loopVars, loopError, streamVars, searched, keywordVars, closed, handlerVars,
                 panicked>>

Send ==
  /\ pending # <<>> /\ ~panicked
  /\ Len(channel) < Capacity
  /\ channel' = Append(channel, Head(pending))
  /\ pending' = Tail(pending)
  /\ UNCHANGED <<engine, loopVars, loopError, streamVars, searched, keywordVars, closed, handlerVars,
                 panicked>>

KeywordsEnded == keywords \in {"none", "ended"}

\* Faulty variant: Done does not wait for the keywords.
SendDoneAtOnce ==
  /\ At("waiting")
  /\ Finish("done")
  /\ UNCHANGED <<loopVars, loopError, streamVars, searched, keywordVars, channel, closed,
                 handlerVars, panicked>>

\* Faulty variant: Done waits for keywords that nobody generates.
SendDoneNeedsKeywords ==
  /\ At("waiting")
  /\ keywords = "ended"
  /\ Finish("done")
  /\ UNCHANGED <<loopVars, loopError, streamVars, searched, keywordVars, channel, closed,
                 handlerVars, panicked>>

\* The wait group belongs to the attempt: keywords that an earlier attempt has
\* started are not waited for.
SendDone ==
  /\ At("waiting")
  /\ sendKeywords => KeywordsEnded
  /\ Finish("done")
  /\ UNCHANGED <<loopVars, loopError, streamVars, searched, keywordVars, channel, closed,
                 handlerVars, panicked>>

\* Faulty variant: the deferred wait is missing.
CloseAtOnce ==
  /\ At("closing")
  /\ engine' = "exited"
  /\ closed' = TRUE
  /\ UNCHANGED <<pending, loopVars, loopError, streamVars, searched, keywordVars, channel,
                 handlerVars, panicked>>

\* The deferred waits of all the attempts come before the deferred close.
Close ==
  /\ At("closing")
  /\ KeywordsEnded
  /\ engine' = "exited"
  /\ closed' = TRUE
  /\ UNCHANGED <<pending, loopVars, loopError, streamVars, searched, keywordVars, channel,
                 handlerVars, panicked>>

---------------------------------------------------------------------------
(* The handler.                                                            *)

Return == handler' = "returned" /\ ctxDone' = TRUE

Take ==
  /\ handler = "reading" /\ ~panicked
  /\ channel # <<>>
  /\ channel' = Tail(channel)
  /\ output' = Append(output, Head(channel))
  /\ IF Head(channel) \in {"error", "done"} THEN Return ELSE UNCHANGED <<handler, ctxDone>>
  /\ UNCHANGED <<engine, pending, loopVars, loopError, streamVars, searched, keywordVars, closed,
                 panicked>>

HandlerStops ==
  /\ handler = "reading" /\ ~panicked
  /\ ctxDone \/ (closed /\ channel = <<>>)
  /\ Return
  /\ UNCHANGED <<engine, pending, loopVars, loopError, streamVars, searched, keywordVars, channel,
                 closed, output, panicked>>

ClientLeaves ==
  /\ handler = "reading" /\ ~ctxDone /\ ~panicked
  /\ ctxDone' = TRUE
  /\ UNCHANGED <<engine, pending, loopVars, loopError, streamVars, searched, keywordVars, channel,
                 closed, handler, output, panicked>>

---------------------------------------------------------------------------
Choose == SearchFailed \/ AllFallbackFailed \/ NextModel \/ TryModel

Stream ==
  \/ ConnectAzure \/ Connect \/ ConnectFails \/ CheckContext
  \/ ReceiveText \/ ReceiveBadLine \/ ReceiveBroken
  \/ ReceiveStop \/ ReceiveStopAfterError \/ ReceiveNothing \/ ReceiveFunctionCall

\* What the goroutine does without waiting for the answer of a function.
Work == Choose \/ Stream \/ Send \/ SendDone \/ Close

Call == CallSucceeds \/ CallFails

Engine == Work \/ Call

Keywords == GenerateKeywords \/ SendKeywords

Handler == Take \/ HandlerStops

Next == Engine \/ Keywords \/ Handler \/ BreakStream \/ ClientLeaves

Spec == Init /\ [][Next]_vars

\* The goroutines run, and an LLM answers and ends every stream that is not broken;
\* no client need leave and no stream need break. The call of a function need not
\* return: that of search has no timeout, only the context of the request.
FairSpec ==
  /\ Spec
  /\ WF_vars(Work) /\ WF_vars(ctxDone /\ CallFails)
  /\ WF_vars(Keywords) /\ WF_vars(Handler)
  /\ SF_vars(ReceiveStop \/ ReceiveStopAfterError)
---------------------------------------------------------------------------
(* Properties.                                                             *)

TypeOK ==
  /\ engine \in {"choosing", "connecting", "looping", "receiving", "calling", "waiting",
                 "closing", "exited"}
  /\ models \in ModelLists
  /\ pending \in Seq(Kind)
  /\ modelIndex \in 1 .. Len(models) + 1
  /\ keyIndex \in 0 .. AzureKeys
  /\ fallbackCount \in Nat
  /\ modelIndex <= Len(models) => fallbackCount <= Model.retries
  /\ loopError \in LoopError
  /\ tries \in [DOMAIN models -> Nat]
  /\ chunks \in 0 .. MaxChunks
  /\ broken \in BOOLEAN
  /\ searched \in BOOLEAN
  /\ keywords \in {"none", "generating", "sending", "ended"}
  /\ sendKeywords \in BOOLEAN
  /\ channel \in Seq(Kind)
  /\ Len(channel) <= Capacity
  /\ closed \in BOOLEAN
  /\ handler \in {"reading", "returned"}
  /\ output \in Seq(Kind)
  /\ ctxDone \in BOOLEAN
  /\ panicked \in BOOLEAN

\* Every model gets the attempts that UPSTAGE_LLM_MODEL gives it, never one
\* more, and the next one is tried only when they are used up.
TriesFollowTheList ==
  \A m \in DOMAIN models :
    /\ tries[m] <= models[m].retries
    /\ m < modelIndex => tries[m] = models[m].retries
    /\ m > modelIndex => tries[m] = 0

\* Nothing is sent on the closed channel: that would end the process.
NoSendAfterClose == closed => pending = <<>> /\ KeywordsEnded

Shown(kind) == \E i \in DOMAIN output : output[i] = kind

\* An answer that ends well after a search shows the references and, never
\* twice, the keywords; they come before [DONE], however slow they are, unless
\* the attempt that made the search failed later.
SearchAnswerIsWhole ==
  Shown("done") /\ searched =>
    LET shownKeywords == Cardinality({i \in DOMAIN output : output[i] = "keywords"})
    IN /\ Shown("references")
       /\ shownKeywords <= 1
       /\ sendKeywords => shownKeywords = 1

\* The client is answered unless the stream of an LLM breaks, the process dies, or
\* the search service never answers a call, as MSearch does not after two errors.
AnswersUnlessBroken ==
  <>(handler = "returned" \/ broken \/ panicked) \/ <>[]At("calling")

\* "Several models can be used as fallback" (README.md:23): when the stream of a
\* model breaks, another attempt, or an error, follows.
BrokenStreamFallsBack == <>(handler = "returned")

\* An attempt whose text counts: its stream is open, or it was the last one.
Counts ==
  /\ engine \notin {"choosing", "connecting", "calling"}
  /\ modelIndex <= Len(models) /\ loopError # "searchFailed"

InFlight == channel \o pending

\* The text in flight that belongs to the current attempt: its usage comes first.
TextInFlight ==
  {i \in DOMAIN InFlight :
     /\ InFlight[i] = "text"
     /\ \A j \in DOMAIN InFlight : InFlight[j] = "usage" => j < i}

SomewhereIs(kind) == \E i \in DOMAIN (output \o InFlight) : (output \o InFlight)[i] = kind

Promised == INSTANCE AnswerStream WITH
  Restarts  <- TRUE,
  Orderly   <- TRUE,
  received  <- IF Counts THEN chunks ELSE 0,
  delivered <- IF Counts THEN chunks - Cardinality(TextInFlight) ELSE 0,
  source    <- IF engine = "waiting" \/ SomewhereIs("done") THEN "complete"
               ELSE IF SomewhereIs("error") \/ panicked THEN "failed" ELSE "open",
  end       <- IF handler # "returned" THEN "none"
               ELSE IF Shown("done") THEN "complete"
               ELSE IF Shown("error") THEN "error" ELSE "left"

\* The engine implements AnswerStream: whatever attempts failed before, after
\* however much text, the text behind the last usage is that of the last attempt,
\* all of it and in order, and an error or Done comes behind it.
DeliversAnswerStream == Promised!Spec
=============================================================================
