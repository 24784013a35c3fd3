----------------------------- MODULE ArticleSearch -----------------------------
(***************************************************************************)
(* The search function of the conversation engine (SearchPlugin of         *)
(* conversation/service/function/search.go) against the search service: it *)
(* turns the arguments that an LLM chose into an MSearch, and the articles *)
(* of the reply into references. For a completion keywords are looked for  *)
(* once it has succeeded; module Summaries is its other caller. Other      *)
(* clients call the service as they like.                                  *)
(*                                                                         *)
(* A date is a natural number; 0 is a date that is not given and -1 one    *)
(* that cannot be parsed. An article of the index is a chunk of the news   *)
(* Index[a].news, and its text is Index[a].units long.                     *)
(***************************************************************************)
EXTENDS SearchService, Keywords

CONSTANTS
  Deployed,         \* the configuration files of the repository
  Questions,        \* the calls of a completion, with their ExtraArgs
  ClientRequests    \* the requests of other clients

\* The arguments that an LLM chose, and the settings of the engine; the time and
\* the caller are those of the call.
IsCall(q) ==
  /\ q = [malformed |-> q.malformed, standalone |-> q.standalone, raw |-> q.raw,
          provider |-> q.provider, range |-> q.range, filterLength |-> q.filterLength,
          topK |-> q.topK, chunkSize |-> q.chunkSize, chunkNumber |-> q.chunkNumber,
          at |-> q.at, caller |-> q.caller]
  /\ {q.malformed, q.filterLength} \subseteq BOOLEAN
  /\ {q.topK, q.at} \subseteq Nat /\ {q.chunkSize, q.chunkNumber} \subseteq Nat \ {0}
  /\ q.range # None => {q.range.start, q.range.end} \subseteq Int

\* The call of a caller at a time.
CallAt(q, t, caller) == [q EXCEPT !.at = t, !.caller = caller]

\* The files of search/config: the searcher, the fields and the scoring mode.
ASSUME DeployedAssumption ==
  /\ Deployed.search.searcher = "opensearch" /\ Deployed.search.reranker = None
  /\ Deployed.searcher.opensearch # None
  /\ Deployed.searcher.opensearch.compound = None
  /\ LET strategy == Deployed.searcher.opensearch.strategy
     IN  /\ strategy # None /\ strategy.kind = "text" /\ strategy.scoring = "relevance"
         /\ DOMAIN strategy.fields = {"title", "content", "provider"}
         /\ \A k \in DOMAIN strategy.fields :
              /\ strategy.fields[k].queryType = IF k = "provider" THEN "filter" ELSE "should"
              /\ ~strategy.fields[k].secondary /\ strategy.fields[k].source = ""

\* An article has a date, a length and a provider, and its chunk is not empty.
ASSUME ArticlesAssumption ==
  \A a \in Article :
    /\ {"published_at", "article_length"} \subseteq DOMAIN Index[a].number
    /\ {Index[a].number["published_at"], Index[a].number["article_length"]} \subseteq Int
    /\ "provider" \in DOMAIN Index[a].text
    /\ Index[a].units \in Nat \ {0}

\* "now-3M": three months are the units of the model's clock.
Window == 3

VARIABLES
  question,    \* the call of the function with the time its plugin takes for
               \* the current one, None before there is one
  plugin,      \* "idle", "calling", "done" or "failed"
  references   \* what the call returned

pluginVars == <<question, plugin, references>>
searchVars == <<serviceVars, keywordsVars, pluginVars>>

SearchInit ==
  /\ ServiceInit /\ KeywordsInit
  /\ question = None
  /\ plugin = "idle"
  /\ references = <<>>

---------------------------------------------------------------------------
(* createSearchRequests.                                                   *)

At(n) == [now |-> FALSE, at |-> n]
Ago(n) == [now |-> TRUE, at |-> -n]

RangeFilter(attribute, bounds) == [kind |-> "range", attribute |-> attribute, bounds |-> bounds]

\* FILTER_ARTICLE_LENGTH: the model's long articles have length 1.
LengthFilter(q) == IF q.filterLength THEN {RangeFilter("article_length", [gt |-> At(0)])} ELSE {}

\* An article that has no standalone query is asked for with the raw query.
BaseQuery(q) ==
  LET text == IF q.standalone = None THEN q.raw ELSE q.standalone.text
  IN  IF q.provider = "" THEN [title |-> text, content |-> text]
      ELSE [title |-> text, content |-> text, provider |-> q.provider]

SearchRequest(q, filters) ==
  [query |-> BaseQuery(q), exclude |-> "", size |-> q.topK, raw |-> "",
   filter |-> None, filters |-> IF filters = {} THEN None ELSE filters]

Recent == RangeFilter("published_at", [gte |-> Ago(Window), lte |-> Ago(0)])
Before == RangeFilter("published_at", [lt |-> Ago(Window)])

NotSpecified(q) ==
  [kind |-> "msearch", size |-> q.topK, raw |-> q.raw,
   requests |-> <<SearchRequest(q, {Recent} \union LengthFilter(q)),
                  SearchRequest(q, {Before} \union LengthFilter(q))>>,
   aggregate |-> [method |-> "rrf", preserve |-> FALSE]]

Bounds(range) ==
  [op \in {o \in {"gte", "lte"} : IF o = "gte" THEN range.start > 0 ELSE range.end > 0}
     |-> At(IF op = "gte" THEN range.start ELSE range.end)]

Specified(q) ==
  [kind |-> "msearch", size |-> q.topK, raw |-> q.raw,
   requests |-> <<SearchRequest(q, LengthFilter(q) \union
                    IF q.range.start = 0 /\ q.range.end = 0 THEN {}
                    ELSE {RangeFilter("published_at", Bounds(q.range))})>>,
   aggregate |-> None]

\* A start that cannot be parsed or lies in the future is taken for none.
Usable(q) == q.range # None /\ q.range.start >= 0 /\ q.range.start <= q.at

\* A range that is no object, or an end that cannot be parsed, is an error.
BadArguments(q) == q.malformed \/ (Usable(q) /\ q.range.end < 0)

Body(q) == IF Usable(q) THEN Specified(q) ELSE NotSpecified(q)

\* The call, its request and the filters of its searches are there.
IsThere(q) ==
  /\ None \notin {q, Body(q)}
  /\ \A f \in {Recent, Before} : None # {f} \union LengthFilter(q)
  /\ Usable(q) => None \notin {LengthFilter(q),
                               LengthFilter(q) \union {RangeFilter("published_at", Bounds(q.range))}}

ASSUME CallsAssumption ==
  /\ \A q \in Questions, t \in FirstNow .. MaxNow :
       LET call == CallAt(q, t, "completion")
       IN  IsCall(call) /\ IsThere(call)
  /\ \A r \in ClientRequests : IsRequest(r)

Call(q) ==
  /\ question = None /\ request = None /\ process = "serving"
  /\ question' = q
  /\ \/ BadArguments(q) /\ plugin' = "failed" /\ UNCHANGED serviceVars
     \/ ~BadArguments(q) /\ plugin' = "calling" /\ Receive(Body(q))
  /\ UNCHANGED <<references, keywordsVars>>

CallForCompletion(q) == Call(CallAt(q, now, "completion"))

---------------------------------------------------------------------------
(* The reply.                                                              *)

\* Faulty variant: a chunk is merged with the last reference only.
MergeChunkLast(merged, a) ==
  LET text == [u \in 1 .. Index[a].units |-> a]
      same == {i \in DOMAIN merged : i = Len(merged) /\ merged[i].news = Index[a].news}
  IN  IF same = {} THEN Append(merged, [news |-> Index[a].news, text |-> text])
      ELSE [merged EXCEPT ![Min(same)].text =
              SubSeq(@ \o text, 1, Min({question.chunkSize, Len(@ \o text)}))]

\* A chunk is appended to the reference of its news, which is then cut.
MergeChunk(merged, a) ==
  LET text == [u \in 1 .. Index[a].units |-> a]
      same == {i \in DOMAIN merged : merged[i].news = Index[a].news}
  IN  IF same = {} THEN Append(merged, [news |-> Index[a].news, text |-> text])
      ELSE [merged EXCEPT ![Min(same)].text =
              SubSeq(@ \o text, 1, Min({question.chunkSize, Len(@ \o text)}))]

\* No chunk is looked at any more once there are enough references.
MergeChunks(items) ==
  FoldLeft(LAMBDA merged, x :
             IF merged # <<>> /\ Len(merged) >= question.chunkNumber THEN merged
             ELSE MergeChunk(merged, x.article),
           <<>>, items)

\* getReference: more than one list is an error, none is no reference.
Return ==
  /\ plugin = "calling" /\ HasLists /\ Len(reply.lists) <= 1
  /\ plugin' = "done"
  /\ references' = IF reply.lists = <<>> THEN <<>> ELSE MergeChunks(reply.lists[1].items)
  /\ IF question.caller = "completion" THEN StartKeywords ELSE UNCHANGED keywordsVars
  /\ UNCHANGED <<question, serviceVars>>

\* A status other than 200, or no reply of a process that is gone.
CallFails ==
  /\ plugin = "calling"
  /\ \/ reply # None /\ ~HasLists
     \/ HasLists /\ Len(reply.lists) > 1
     \/ process = "crashed"
  /\ plugin' = "failed"
  /\ UNCHANGED <<question, references, serviceVars, keywordsVars>>

OtherClient ==
  /\ request = None
  /\ \E r \in ClientRequests : Receive(r)
  /\ UNCHANGED <<pluginVars, keywordsVars>>

---------------------------------------------------------------------------
Arrive == (\E q \in Questions : CallForCompletion(q)) \/ OtherClient

SearchNext ==
  \/ Return \/ CallFails
  \/ ServiceNext /\ UNCHANGED <<pluginVars, keywordsVars>>
  \/ KeywordsNext /\ UNCHANGED <<pluginVars, serviceVars>>
---------------------------------------------------------------------------
(* Properties.                                                             *)

Text(r) == {r.text[u] : u \in DOMAIN r.text}

Size(r) == Len(r.text)

\* Whether an article may be an answer, but for its date.
Fits(a, q) ==
  /\ q.provider # "" => q.provider \in Index[a].text["provider"]
  /\ q.filterLength => Index[a].number["article_length"] > 0

Published(a) == Index[a].number["published_at"]

IsDeployed == config = Deployed

\* When no date is asked for, each article that was published is eligible in
\* exactly one of the two searches, whenever they happen, unless the clock took
\* it across the boundary of the windows between them.
EveryArticleHasItsChance ==
  question # None /\ plugin # "failed" /\ HasLists /\ Len(searched) = 2 /\ IsDeployed =>
    \A a \in Article :
      LET q(i) == Translate(config.searcher.opensearch, request.requests[i])
          windows == {i \in Sub : Eligible(Index[a], q(i), searched[i])}
          first == Min({searched[1], searched[2]})
          last == Max({searched[1], searched[2]})
      IN  Fits(a, question) /\ Published(a) <= first
            /\ ~(first <= Published(a) + Window /\ Published(a) + Window < last)
          => Cardinality(windows) = 1

DatesAsked == question.range # None /\ question.range.start \in 0 .. question.at

\* The references are what was asked for: news of the dates, the provider and
\* the length, each once and no more than may be; a text has chunks of its own
\* news only, and is longer than the limit only if it is a single chunk.
ReferencesAreAsked ==
  plugin = "done" /\ IsDeployed =>
    /\ Len(references) <= question.chunkNumber
    /\ \A i, j \in DOMAIN references : i # j => references[i].news # references[j].news
    /\ \A i \in DOMAIN references :
         /\ Size(references[i]) > question.chunkSize => Cardinality(Text(references[i])) = 1
         /\ \A a \in Text(references[i]) :
              /\ Index[a].news = references[i].news
              /\ Fits(a, question)
              /\ IF DatesAsked
                 THEN InRange(Index[a], RangeFilter("published_at", Bounds(question.range)), now)
                 ELSE Published(a) <= now

\* The function finds what was asked for: no more, and all that there is.
SearchFindsWhatWasAsked == EveryArticleHasItsChance /\ ReferencesAreAsked

\* Keywords are those of one reply that has both lists, and there are none only
\* after an error or three replies; two replies with one list each do not make
\* a pair.
KeywordsComeFromOneReply ==
  sent # <<>> /\ attempts # <<>> =>
    LET last == attempts[Len(attempts)]
    IN  IF sent = <<"full">> THEN last = "both"
        ELSE last \in {"no reply", "no choices", "not json"} \/ Len(attempts) = maxRetries

\* Whatever the model replies, the goroutine ends with one message, of keywords
\* of one reply, or ends the process: the engine, which waits for it before Done, is
\* not kept waiting.
KeywordsAreSent ==
  plugin = "done" /\ question.caller = "completion"
    ~> (Len(sent) = 1 /\ KeywordsComeFromOneReply) \/ goroutine = "panicked"
=============================================================================
