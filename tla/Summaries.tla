------------------------------- MODULE Summaries -------------------------------
(***************************************************************************)
(* Summaries of the issues of a topic and of a news: the backend asks the  *)
(* conversation engine (backend/service/issue.go and news.go,              *)
(* internal/http/request/json.go), which asks one LLM, with no other to    *)
(* fall back to, and for a topic the search function in between            *)
(* (conversation/handler and conversation/service, topic.go, summary.go).  *)
(*                                                                         *)
(* The handlers of the engine do not return after an error: they write it, *)
(* go on, and write a response of success as well.                         *)
(***************************************************************************)
EXTENDS ArticleSearch

CONSTANTS
  TopicCalls,   \* the arguments that an LLM may make of a topic
  Llms,         \* the providers that UPSTAGE_LLM_MODEL may name
  MockTime,     \* what the plugin of the topics takes for the current time
  MaxContents   \* how many contents are summarised: 5 in the code

ASSUME SummariesAssumption ==
  /\ MaxContents \in Nat \ {0}
  /\ \A q \in TopicCalls :
       LET call == CallAt(q, MockTime, "topic")
       IN  IsCall(call) /\ IsThere(call)

VARIABLES
  ask,       \* the request, None before there is one
  engine,    \* "idle", "choosing", "searching", "summarising", "returned" or
             \* "panicked"
  written,   \* the statuses that its handler has written, in order
  told,      \* the articles the LLM was given to summarise
  listed,    \* the news of a topic, in order
  answer     \* the status that the user got, None before there is one

summaryVars == <<ask, engine, written, told, listed, answer>>
vars == <<searchVars, summaryVars>>

Init ==
  /\ SearchInit
  /\ ask = None
  /\ engine = "idle"
  /\ written = <<>>
  /\ told = <<>> /\ listed = <<>>
  /\ answer = None

---------------------------------------------------------------------------
(* The handler of the engine. Its response is kept until it returns.       *)

Return200(more) == written' = written \o more \o <<200>> /\ engine' = "returned"

\* Faulty variant: an error is only logged.
FailsQuietly == Return200(<<>>)

\* The error is a status 400, after which the result is written too, null.
Fails == Return200(<<400>>)

\* net/http recovers the panic and closes the connection.
Panics == engine' = "panicked" /\ UNCHANGED written

\* The client of an LLM: azure has no case in CreateChat, which then does a nil
\* request; a provider that NewClient does not know is an error.
Chat(ready) ==
  CASE ask.llm = "azure" -> Panics
    [] ask.llm \notin {"openai", "azure", "upstage"} -> Fails
    [] OTHER -> ready

\* A request of the backend, which is well-formed, or a malformed one of another
\* client. The error of an empty topic is nil, and its text is asked for.
Request ==
  [op : {"topic"}, body : {"full", "empty", "malformed"}, llm : Llms]
    \union [op : {"summary"}, body : {"full", "malformed"}, llm : Llms]

ASSUME RequestAssumption == None \notin Request /\ None # 200

FromBackend == ask.body # "malformed"

\* Bound: a summary is asked for where nothing else is, of a service with the
\* deployed configuration.
Begin(r) ==
  /\ IsDeployed
  /\ ask = None /\ question = None /\ request = None /\ process = "serving"
  /\ ask' = r
  /\ IF r.body = "empty" THEN Panics
     ELSE /\ engine' = IF r.op = "topic" THEN "choosing" ELSE "summarising"
          /\ written' = IF r.body = "malformed" THEN <<400>> ELSE <<>>
  /\ UNCHANGED <<told, listed, answer, searchVars>>

\* The LLM turns the topic into arguments; the call may fail, and the reply may
\* have no choice, not be finished, be empty or no JSON.
Choose ==
  /\ engine = "choosing"
  /\ \/ Chat(Fails) /\ UNCHANGED searchVars
     \/ \E q \in TopicCalls :
          /\ ask.llm \in {"openai", "upstage"}
          /\ Call(CallAt(q, MockTime, "topic"))
          /\ engine' = "searching" /\ UNCHANGED written
  /\ UNCHANGED <<ask, told, listed, answer>>

\* The news of all references, and the contents of the first ones.
Search ==
  /\ engine = "searching"
  /\ \/ /\ plugin = "done"
        /\ engine' = "summarising"
        /\ listed' = [i \in DOMAIN references |-> references[i].news]
        /\ told' = FlattenSeq([i \in 1 .. Min({MaxContents, Len(references)}) |-> references[i].text])
        /\ UNCHANGED written
     \/ plugin = "failed" /\ Fails /\ UNCHANGED <<told, listed>>
  /\ UNCHANGED <<ask, answer, searchVars>>

\* Faulty variant: the context is looked at when the service has answered.
SearchCancelledByReply ==
  /\ engine = "searching" /\ plugin = "calling" /\ answer # None /\ reply # None
  /\ plugin' = "failed"
  /\ UNCHANGED <<question, references, serviceVars, keywordsVars, summaryVars>>

\* What the user was waiting for is gone: the cancelled context ends the call.
SearchCancelled ==
  /\ engine = "searching" /\ plugin = "calling" /\ answer # None
  /\ plugin' = "failed"
  /\ UNCHANGED <<question, references, serviceVars, keywordsVars, summaryVars>>

Summarise ==
  /\ engine = "summarising"
  /\ Chat(Fails) \/ Chat(Return200(<<>>))
  /\ UNCHANGED <<ask, told, listed, answer, searchVars>>

---------------------------------------------------------------------------
(* The backend, or the other client.                                       *)

\* The middleware records what the handler writes: the first status is the one
\* that is sent, when it has returned.
Status == Head(written)

\* The backend makes 500 of any error and of a connection that was closed.
Deliver ==
  /\ answer = None /\ engine \in {"returned", "panicked"}
  /\ answer' = IF engine = "returned" /\ Status < 300 THEN 200 ELSE 500
  /\ UNCHANGED <<ask, engine, written, told, listed, searchVars>>

\* Its ResponseHeaderTimeout passes, or its own client leaves.
GiveUp ==
  /\ ask # None /\ FromBackend
  /\ answer = None /\ engine \notin {"returned", "panicked"}
  /\ answer' = 500
  /\ UNCHANGED <<ask, engine, written, told, listed, searchVars>>

---------------------------------------------------------------------------
Engine == Choose \/ Search \/ SearchCancelled \/ Summarise

Next ==
  \/ \E r \in Request : Begin(r)
  \/ Engine \/ Deliver \/ GiveUp
  \/ ask = None /\ Arrive /\ UNCHANGED summaryVars
  \/ SearchNext /\ UNCHANGED summaryVars

\* The LLMs reply or are timed out, and so is the engine by the backend; of the
\* search service nothing is assumed. A model that is asked for keywords replies.
Spec ==
  /\ Init /\ [][Next]_vars
  /\ WF_vars(Engine) /\ WF_vars(Deliver \/ GiveUp)
  /\ WF_vars(KeywordsNext /\ UNCHANGED <<pluginVars, serviceVars, summaryVars>>)
---------------------------------------------------------------------------
(* Properties.                                                             *)

TypeOK ==
  /\ config \in ConfigFiles
  /\ process \in {"starting", "refused", "serving", "crashed"}
  /\ now \in FirstNow .. MaxNow
  /\ request = None \/ Len(searched) = Len(request.requests)
  /\ \A i \in DOMAIN searched : searched[i] \in 0 .. now
  /\ \A l \in DOMAIN itemsList : itemsList[l].id \in DOMAIN searched
  /\ errors \in Seq({"config error", "request error", "external"})
  /\ plugin \in {"idle", "calling", "done", "failed"}
  /\ \A i \in DOMAIN references : Text(references[i]) \subseteq Article
  /\ mode \in Modes \union {"none"} /\ provider \in Providers \union {"none"}
  /\ goroutine \in {"waiting", "trying", "sending", "ended", "panicked"}
  /\ attempts \in Seq(Outcome) /\ Len(attempts) <= maxRetries
  /\ found \in BOOLEAN
  /\ sent \in {<<>>, <<"empty">>, <<"full">>}
  /\ ask \in Request \union {None}
  /\ engine \in {"idle", "choosing", "searching", "summarising", "returned", "panicked"}
  /\ written \in Seq({200, 400})
  /\ \A i \in DOMAIN told : told[i] \in Article
  /\ answer \in {None, 200, 500}

\* A user that is answered with success got what was asked for: the handler met
\* no error, though it would have written success after it, and for a topic the
\* LLM summarised articles of the news that are listed, each of which is listed
\* once, and of the dates of the topic, unless these begin after the mock time.
SummaryIsOfItsNews ==
  answer = 200 =>
    /\ written = <<200>> /\ FromBackend
    /\ ask.op = "topic" =>
         /\ plugin = "done"
         /\ \A i, j \in DOMAIN listed : i # j => listed[i] # listed[j]
         /\ listed # <<>> => told # <<>>
         /\ {Index[told[i]].news : i \in DOMAIN told} \subseteq ToSet(listed)
         /\ IsDeployed /\ DatesAsked =>
              \A i \in DOMAIN told :
                InRange(Index[told[i]], RangeFilter("published_at", Bounds(question.range)), now)

\* Every request of the backend is answered and leaves nothing behind in the
\* engine, even when the search service, which has no timeout of its own, crashes
\* or waits for ever on the errors of two searches.
SummariesEnd ==
  ask # None /\ FromBackend ~> answer # None /\ engine \in {"returned", "panicked"}

\* A request of a summary ends, and so does the search for keywords of a completion.
CallsEnd == KeywordsAreSent /\ SummariesEnd
=============================================================================
