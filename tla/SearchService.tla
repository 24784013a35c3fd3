----------------------------- MODULE SearchService -----------------------------
(***************************************************************************)
(* One request of the search service (search/service/search.go) from its   *)
(* start with two configuration files to the reply: Search and MSearch,    *)
(* the query and the answer of OpenSearch, the reranker inside a search,   *)
(* and the aggregation of the lists.                                       *)
(*                                                                         *)
(* Sub-requests are searched in any order, each at a time of its own; the  *)
(* goroutines, the error channel and the cancellation are module MSearch.  *)
(* An item of a list is an article of the index with its score, 0 unless a *)
(* reranker gave it one.                                                   *)
(***************************************************************************)
EXTENDS OpenSearchQuery, FiniteSetsExt, SequencesExt

CONSTANTS
  Index,        \* Index[a]: the article a of the index
  Similarity,   \* Similarity[a]: of its embedding to that of the query
  ConfigFiles,  \* the configuration files the service may be started with
  MaxRequests,  \* bound: the sub-requests of a request
  FirstNow,     \* the time at the start
  MaxNow        \* bound: the time of the last search

Article == DOMAIN Index

\* A time of 0 is that of a search that has not happened; no text is empty.
ASSUME IndexAssumption ==
  /\ IsFiniteSet(Article) /\ Similarity \in [Article -> Nat \ {0}]
  /\ \A a \in Article : \A f \in DOMAIN Index[a].text : "" \notin Index[a].text[f]
  /\ MaxRequests \in Nat /\ FirstNow \in Nat \ {0} /\ MaxNow \in Nat /\ FirstNow <= MaxNow

\* The compound strategy is a oneof of one kind, with a list of functions, and
\* nothing is no error.
ASSUME ConfigAssumption ==
  /\ \A c \in ConfigFiles :
       c.searcher.opensearch = None \/ c.searcher.opensearch.compound = None
         \/ c.searcher.opensearch.compound.kind = "unset"
         \/ /\ c.searcher.opensearch.compound.kind = "function_score"
            /\ c.searcher.opensearch.compound.functions \in Nat
  /\ \A kind \in {"panic", "config error"} : None # [error |-> kind]

VARIABLES
  config,     \* the configuration files
  process,    \* "starting", "refused", "serving" or "crashed"
  now,        \* the time OpenSearch reads in its queries
  request,    \* the request in service, None before there is one
  searched,   \* searched[i]: when sub-request i was searched, 0 if it was not
  itemsList,  \* the lists of the searches that have ended, in that order
  errors,     \* what those that failed sent to errChan, in order
  reply       \* the reply, None before there is one

serviceVars == <<config, process, now, request, searched, itemsList, errors, reply>>

Sub == DOMAIN request.requests

ServiceInit ==
  /\ config \in ConfigFiles
  /\ process = "starting"
  /\ now = FirstNow
  /\ request = None
  /\ searched = <<>>
  /\ itemsList = <<>>
  /\ errors = <<>>
  /\ reply = None

\* The service panics when a file is invalid, and serves otherwise.
Start ==
  /\ process = "starting"
  /\ process' = IF Valid(config) THEN "serving" ELSE "refused"
  /\ UNCHANGED <<config, now, request, searched, itemsList, errors, reply>>

\* Time passes while a request is served.
Tick ==
  /\ request # None /\ reply = None /\ now < MaxNow
  /\ now' = now + 1
  /\ UNCHANGED <<config, process, request, searched, itemsList, errors, reply>>

---------------------------------------------------------------------------
(* A request arrives.                                                      *)

\* What a SearchRequest and an MSearch decode to; sizes are not negative.
IsSubRequest(req) ==
  /\ req = [query |-> req.query, exclude |-> req.exclude, size |-> req.size, raw |-> req.raw,
            filter |-> req.filter, filters |-> req.filters]
  /\ req.size \in Nat

IsRequest(r) ==
  /\ r = [kind |-> r.kind, requests |-> r.requests, size |-> r.size, raw |-> r.raw,
          aggregate |-> r.aggregate]
  /\ r.kind \in {"search", "msearch"} /\ r.size \in Nat
  /\ Len(r.requests) \in Nat /\ DOMAIN r.requests = 1 .. Len(r.requests)
  /\ \A i \in DOMAIN r.requests : IsSubRequest(r.requests[i])
  /\ r.kind = "search" => Len(r.requests) = 1 /\ r.aggregate = None

Reranker == config.search.reranker

\* The text to rerank with, or what becomes of the request without one.
RerankQuery(req) ==
  IF Reranker.source = None THEN Panic
  ELSE IF Reranker.source.kind = "unset" THEN ConfigError
  ELSE IF Reranker.source.kind # "raw" /\ Reranker.source.field \notin DOMAIN req.query
       THEN RequestError
  ELSE [kind |-> "text",
        query |-> IF Reranker.source.kind = "raw" THEN None
                  ELSE [text |-> req.query[Reranker.source.field]],
        raw |-> IF Reranker.source.kind = "query" THEN None ELSE [text |-> req.raw]]

\* With a reranker of the raw query, a sub-request without one gets that of
\* the MSearch.
Defaulted(r) ==
  IF r.kind = "msearch" /\ Reranker # None /\ Reranker.source # None
       /\ Reranker.source.kind = "raw"
  THEN [r EXCEPT !.requests =
          [i \in DOMAIN @ |-> IF @[i].raw = "" THEN [@[i] EXCEPT !.raw = r.raw] ELSE @[i]]]
  ELSE r

\* A panic in the goroutine of a request: net/http recovers it and closes the
\* connection, nothing does for a call of gRPC.
HandlerPanics ==
  \/ process' = "crashed" /\ reply' = None
  \/ process' = process /\ reply' = [error |-> "panic"]

\* A request that is answered, or panics, before it is searched.
Early(r) ==
  IF r.kind = "msearch" /\ config.search.searcher # "opensearch" THEN ConfigError
  ELSE IF config.search.searcher # "opensearch" THEN ConfigError
  ELSE IF r.kind = "msearch" /\ Reranker # None /\ Reranker.source = None THEN Panic
  ELSE IF r.kind = "msearch" /\ Reranker # None /\ Reranker.source.kind = "raw" /\ r.raw = ""
       THEN RequestError
  ELSE [kind |-> "search"]

Receive(r) ==
  /\ process = "serving" /\ request = None
  /\ request' = Defaulted(r)
  /\ searched' = [i \in DOMAIN r.requests |-> 0]
  /\ IF Early(r).kind = "panic" THEN HandlerPanics
     ELSE /\ reply' = IF Early(r).kind = "search" THEN None ELSE [error |-> Early(r).kind]
          /\ UNCHANGED process
  /\ UNCHANGED <<config, now, itemsList, errors>>

---------------------------------------------------------------------------
(* One search.                                                             *)

\* A reranker is given five times the items asked for; a size of 0 is 10.
SizeOf(req) ==
  LET asked == IF request.kind = "search" /\ req.size = 0 THEN DefaultSize ELSE req.size
      given == IF Reranker = None THEN asked ELSE asked * 5
  IN  IF given = 0 THEN DefaultSize ELSE given

Plain(s) == [i \in DOMAIN s |-> [article |-> s[i], score |-> 0]]

\* The items in every order that a sort by score may leave, ties anyhow.
Sorted(items) ==
  LET Places(s, x) == {p \in 1 .. Len(s) + 1 :
                         /\ \A i \in 1 .. p - 1 : s[i].score >= x.score
                         /\ \A i \in p .. Len(s) : x.score >= s[i].score}
  IN  FoldLeft(LAMBDA sorted, x :
                 UNION {{InsertAt(s, p, x) : p \in Places(s, x)} : s \in sorted},
               {<<>>}, items)

\* The items with the similarity of their own content, the highest first. All
\* are returned, whatever k is.
Ranked(s) == Sorted([i \in DOMAIN s |-> [article |-> s[i], score |-> Similarity[s[i]]]])

SearchSucceeds(i, items) ==
  /\ itemsList' = Append(itemsList, [id |-> i, items |-> items])
  /\ UNCHANGED <<process, errors, reply>>

SearchFails(kind) ==
  /\ errors' = Append(errors, kind)
  /\ UNCHANGED <<process, itemsList, reply>>

\* Nothing recovers a panic of a goroutine that MSearch has started.
SearchPanics ==
  /\ IF request.kind = "search" THEN HandlerPanics
     ELSE process' = "crashed" /\ UNCHANGED reply
  /\ UNCHANGED <<errors, itemsList>>

\* The embedding of the query comes first, then those of the items in one call:
\* it may fail, or bring fewer, more or shorter embeddings than there are items.
Rerank(i, s, text) ==
  \/ text.kind = "panic" /\ SearchPanics
  \/ text.kind \in {"config error", "request error"} /\ SearchFails(text.kind)
  \/ text.kind = "text" /\ SearchFails("external")
  \/ text.kind = "text" /\ s = <<>> /\ SearchSucceeds(i, <<>>)
  \/ text.kind = "text" /\ SearchPanics
  \/ text.kind = "text" /\ s # <<>> /\ \E t \in Ranked(s) : SearchSucceeds(i, t)

\* getSearchResults of sub-request i, if OpenSearch can be asked.
SearchWith(i, q) ==
  \/ SearchFails("external")
  \/ \E s \in HitLists(Index, q, SizeOf(request.requests[i]), now) :
       IF Reranker = None THEN SearchSucceeds(i, Plain(s))
       ELSE Rerank(i, s, RerankQuery(request.requests[i]))

SearchOne(i) ==
  LET q == Translate(config.searcher.opensearch, request.requests[i])
  IN  /\ process = "serving" /\ reply = None
      /\ searched[i] = 0
      /\ searched' = [searched EXCEPT ![i] = now]
      /\ \/ q.kind = "panic" /\ SearchPanics
         \/ q.kind \in {"config error", "request error"} /\ SearchFails(q.kind)
         \/ q.kind = "query" /\ SearchWith(i, q)
      /\ UNCHANGED <<config, now, request>>

---------------------------------------------------------------------------
(* The aggregation of the lists.                                           *)

Items(lists) == FlattenSeq([l \in DOMAIN lists |-> lists[l].items])

\* What RRF.Aggregate promises, by module RankFusion. A list that is not there
\* counts as an empty one.
Fusion(fused) ==
  INSTANCE RankFusion WITH
    Item <- Article, NumLists <- MaxRequests, MaxLen <- Cardinality(Article), MaxSize <- 0,
    itemsList <- [l \in 1 .. MaxRequests |->
                    IF l \in DOMAIN itemsList
                    THEN [i \in DOMAIN itemsList[l].items |-> itemsList[l].items[i].article]
                    ELSE <<>>],
    size <- request.size, list <- 0, rank <- 0, score <- <<>>, done <- TRUE,
    result <- fused

\* An article keeps the item of the first list that has it.
FirstItem(a) ==
  LET all == Items(itemsList)
  IN  all[Min({i \in DOMAIN all : all[i].article = a})]

Fused ==
  LET found == {Items(itemsList)[i].article : i \in DOMAIN Items(itemsList)}
      length == Min({request.size, Cardinality(found)})
  IN  {[i \in DOMAIN s |-> FirstItem(s[i])]
       : s \in {f \in Injective(length, found) : Fusion(f)!ResultIsRankFusion}}

\* The e5 service picks up to k of the items, in an order of its own.
Picked ==
  LET all == Items(itemsList)
  IN  {[i \in DOMAIN s |-> all[s[i]]]
       : s \in UNION {Injective(n, DOMAIN all) : n \in 0 .. Min({request.size, Len(all)})}}

\* Whether some sub-request was reranked with another text than the raw query.
NeedsReranker ==
  Reranker # None => \E i \in Sub :
    RerankQuery(request.requests[i]) # [kind |-> "text", query |-> None,
                                        raw |-> [text |-> request.raw]]

\* The lists that an aggregation may make of the ones that were found. Those of
\* the reranker of the searches are only sorted, and not cut to the size; a
\* timeout of the other reranker falls back to rrf.
Rerankings ==
  IF request.aggregate.method = "rrf" THEN Fused
  ELSE IF ~NeedsReranker THEN Sorted(Items(itemsList))
  ELSE Picked \union Fused

AggregateFails ==
  \/ request.aggregate.method \notin {"rrf", "flatten_reranker"}
  \/ request.aggregate.method = "flatten_reranker" /\ NeedsReranker

\* With PreserveSource each list keeps those of its items that were picked,
\* once for every time, and the i-th is named after the i-th request.
Split(picked) ==
  [l \in DOMAIN itemsList |->
     [id |-> l,
      items |-> FlattenSeq([i \in DOMAIN itemsList[l].items |->
        LET x == itemsList[l].items[i]
            times == {n \in DOMAIN picked : picked[n].article = x.article}
        IN  [n \in 1 .. Cardinality(times) |-> x]])]]

Respond(r) == reply' = r

\* A Search returns its list, an MSearch what aggregateMsearchResults makes of
\* the lists once all are there.
Aggregate ==
  /\ process = "serving" /\ request # None /\ reply = None
  /\ errors = <<>> /\ Len(itemsList) = Len(request.requests)
  /\ \/ request.aggregate = None /\ Respond([lists |-> itemsList])
     \/ /\ request.aggregate # None
        /\ request.aggregate.method \in {"rrf", "flatten_reranker"}
        /\ request.aggregate.method = "flatten_reranker" /\ NeedsReranker => request.raw # ""
        /\ \E picked \in Rerankings :
             Respond([lists |-> IF request.aggregate.preserve THEN Split(picked)
                                ELSE <<[id |-> 0, items |-> picked]>>])
     \/ /\ request.aggregate # None /\ AggregateFails
        /\ Respond([error |-> IF request.aggregate.method = "flatten_reranker"
                                 /\ request.raw # "" THEN "external" ELSE "request error"])
  /\ UNCHANGED <<config, process, now, request, searched, itemsList, errors>>

\* The first error ends the request once all goroutines are done; with a second
\* one in the way of the full channel they never are.
ReturnError ==
  /\ process = "serving" /\ request # None /\ reply = None
  /\ Len(errors) = 1 /\ Len(itemsList) + 1 = Len(request.requests)
  /\ Respond([error |-> Head(errors)])
  /\ UNCHANGED <<config, process, now, request, searched, itemsList, errors>>

ServiceNext ==
  \/ Start \/ Tick \/ Aggregate \/ ReturnError
  \/ request # None /\ \E i \in Sub : SearchOne(i)

---------------------------------------------------------------------------
(* Properties.                                                             *)

Strategy == config.searcher.opensearch.strategy

HasStrategy == config.searcher.opensearch # None /\ Strategy # None

IsText == HasStrategy /\ Strategy.kind = "text"

\* What no validation rule looks at: a searcher nobody provides, and parts that
\* every request needs but no rule requires.
Unchecked ==
  \/ config.search.searcher = "colbert"
  \/ Reranker # None /\ (Reranker.source = None \/ Reranker.source.kind = "unset")
  \/ ~HasStrategy
  \/ IsText /\ \E k \in DOMAIN Strategy.fields :
       Strategy.fields[k].queryType = "should" /\ Strategy.fields[k].secondary
  \/ ~IsText /\ (Strategy.knn = None \/ Strategy.encoder = None \/ Strategy.encoder.kind = "unset")
  \/ /\ config.searcher.opensearch.compound # None
     /\ config.searcher.opensearch.compound.kind = "unset"

\* A range filter where the query is not a plain bool one.
Misplaced ==
  /\ IsText => Strategy.scoring = "harmonic"
  /\ \E i \in Sub : Ranges(Filters(request.requests[i])) # {}

HasLists == reply # None /\ "lists" \in DOMAIN reply

\* A service that accepted its configuration serves with it: a request panics or
\* fails for the configuration only for what the validation does not
\* look at, a range filter on another than a bool query, or, with a reranker,
\* embeddings that do not fit the items.
ValidatedConfigServes ==
  /\ process = "crashed" \/ reply = [error |-> "panic"] => Unchecked \/ Misplaced \/ Reranker # None
  /\ \A i \in DOMAIN errors : errors[i] = "config error" => Unchecked
  /\ reply = [error |-> "config error"] => Unchecked

\* What a reply returns is what some sub-request asked for: in the ranges of
\* all its filters when it was searched and, for a text strategy, without the
\* excluded text and with the text of every plain filter field.
HitsHonourRequest ==
  HasLists => \A l \in DOMAIN reply.lists : \A n \in DOMAIN reply.lists[l].items :
    LET doc == Index[reply.lists[l].items[n].article]
    IN  \E i \in Sub :
          LET req == request.requests[i]
          IN  /\ \A f \in Ranges(Filters(req)) : InRange(doc, f, searched[i])
              /\ IsText => \A k \in DOMAIN Strategy.fields :
                   LET field == SourceField(Strategy, k)
                   IN  /\ ~Satisfies(doc, Match(field, req.exclude), searched[i])
                       /\ k \in PlainFilter(Strategy, req.query) =>
                            Satisfies(doc, Match(field, req.query[k]), searched[i])

\* A list of the reranker has the items in the order of the similarity of their
\* own content, and as many as were asked for if there are.
RankedByOwnSimilarity ==
  HasLists /\ Reranker # None /\ request.aggregate = None =>
    \A l \in DOMAIN reply.lists :
      LET items == reply.lists[l].items
          i == reply.lists[l].id
          q == Translate(config.searcher.opensearch, request.requests[i])
          found == {a \in Article : Eligible(Index[a], q, searched[i])}
      IN  /\ \A n \in DOMAIN items : items[n].score = Similarity[items[n].article]
          /\ \A n, m \in DOMAIN items : n < m => items[n].score >= items[m].score
          /\ IsText => Len(items) >= Min({request.requests[i].size, Cardinality(found)})

\* Whatever a reply has was asked for, in its place.
RepliesHonourRequest == HitsHonourRequest /\ RankedByOwnSimilarity
=============================================================================
