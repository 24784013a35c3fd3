---------------------------- MODULE MCArticleSearch ----------------------------
(***************************************************************************)
(* Instances of Summaries, and of the modules it is made of, for TLC.      *)
(***************************************************************************)
EXTENDS Summaries

Doc(news, published, length, by, text, units) ==
  [news |-> news, units |-> units,
   number |-> [published_at |-> published, article_length |-> length],
   text |-> [title |-> text, content |-> text, provider |-> {by}]]

\* Two chunks of a news three months old, a recent news that does not match the
\* question, an old and short one that does, and one that appears in a while.
MCIndex ==
  "a" :> Doc("n1", 1, 1, "p", {"q"}, 2) @@ "b" :> Doc("n1", 1, 1, "p", {"q"}, 1) @@
  "c" :> Doc("n2", 4, 1, "p", {"x"}, 3) @@ "d" :> Doc("n3", 0, 0, "r", {"q", "x"}, 1) @@
  "e" :> Doc("n4", 5, 1, "p", {"q"}, 1)

MCSimilarity == "a" :> 2 @@ "b" :> 3 @@ "c" :> 1 @@ "d" :> 2 @@ "e" :> 4

Field(queryType, secondary, source) ==
  [valueType |-> "text", queryType |-> queryType, secondary |-> secondary, source |-> source]

Fields == [title |-> Field("should", FALSE, ""), content |-> Field("should", FALSE, ""),
           provider |-> Field("filter", FALSE, "")]

TextStrategy(scoring, fields) == [kind |-> "text", scoring |-> scoring, fields |-> fields]

VectorStrategy(knn, encoder) ==
  [kind |-> "vector", knn |-> knn, encoder |-> encoder, filter |-> [mode |-> "post-filter"]]

OpenSearch(strategy, compound) == [opensearch |-> [strategy |-> strategy, compound |-> compound]]

Relevance == OpenSearch(TextStrategy("relevance", Fields), None)

Opensearch == [searcher |-> "opensearch", reranker |-> None]

MCDeployed == [search |-> Opensearch, searcher |-> Relevance]

SearchConfigs ==
  {Opensearch, [Opensearch EXCEPT !.searcher = "colbert"], [Opensearch EXCEPT !.searcher = "solr"]}
    \union {[searcher |-> "opensearch", reranker |-> [type |-> t, source |-> s]] :
            t \in {"e5", "bge"},
            s \in {None, [kind |-> "unset"], [kind |-> "raw"], [kind |-> "query", field |-> "title"],
                   [kind |-> "concat", field |-> "provider"]}}

Knn == [field |-> "title", source |-> ""]

SearcherConfigs ==
  {[opensearch |-> None], OpenSearch(None, None),
   OpenSearch(TextStrategy("relevance", Fields), [kind |-> "unset"]),
   OpenSearch(TextStrategy("softmax", Fields), [kind |-> "function_score", functions |-> 1]),
   OpenSearch(TextStrategy("softmax", Fields), [kind |-> "function_score", functions |-> 0]),
   OpenSearch(TextStrategy("harmonic", Fields), None),
   OpenSearch(TextStrategy("bm25", Fields), None),
   OpenSearch(TextStrategy("relevance", [Fields EXCEPT !.provider = Field("filter", TRUE, "")]), None),
   OpenSearch(TextStrategy("relevance", [Fields EXCEPT !.title = Field("should", TRUE, "")]), None),
   OpenSearch(TextStrategy("relevance", [Fields EXCEPT !.title = Field("filter", FALSE, "content")]), None),
   OpenSearch(TextStrategy("relevance", [Fields EXCEPT !.title = Field("must", FALSE, "")]), None),
   OpenSearch(VectorStrategy(None, None), None), OpenSearch(VectorStrategy(Knn, None), None),
   OpenSearch(VectorStrategy(Knn, [kind |-> "unset"]), None),
   OpenSearch(VectorStrategy(Knn, [kind |-> "sentence_transformer"]), None)}

\* Each file in all its forms beside the deployed form of the other.
MCConfigFiles ==
  {[search |-> s, searcher |-> Relevance] : s \in SearchConfigs}
    \union {[search |-> Opensearch, searcher |-> s] : s \in SearcherConfigs}

Call0 == [malformed |-> FALSE, standalone |-> [text |-> "q"], raw |-> "q", provider |-> "",
          range |-> None, filterLength |-> FALSE, topK |-> 2,
          chunkSize |-> 2, chunkNumber |-> 3, at |-> 0, caller |-> "completion"]

MCQuestions ==
  {[Call0 EXCEPT !.topK = 4], [Call0 EXCEPT !.filterLength = TRUE, !.standalone = None],
   [Call0 EXCEPT !.provider = "p", !.topK = 3], [Call0 EXCEPT !.malformed = TRUE],
   [Call0 EXCEPT !.standalone = [text |-> ""], !.range = [start |-> 0, end |-> 0]]}
    \union {[Call0 EXCEPT !.range = r, !.filterLength = f] : f \in BOOLEAN,
            r \in {[start |-> 1, end |-> 4], [start |-> 2, end |-> 0], [start |-> 0, end |-> 3],
                   [start |-> 5, end |-> 0], [start |-> -1, end |-> 4], [start |-> 1, end |-> -1]}}

Req == [query |-> [title |-> "q", content |-> "x"], exclude |-> "", size |-> 2, raw |-> "",
        filter |-> None, filters |-> None]

InYear == RangeFilter("published_at", [gte |-> At(1)])
Long == RangeFilter("article_length", [gt |-> At(0)])
OfTerm == [kind |-> "term"]

One(r) == [kind |-> "search", requests |-> <<r>>, size |-> r.size, raw |-> r.raw, aggregate |-> None]

Two(r, s, raw, aggregate) ==
  [kind |-> "msearch", requests |-> <<r, s>>, size |-> 2, raw |-> raw, aggregate |-> aggregate]

MCClientRequests ==
  {One(Req), One([Req EXCEPT !.size = 0, !.exclude = "x"]),
   One([Req EXCEPT !.filters = {InYear, Long, OfTerm}]),
   One([Req EXCEPT !.filter = {Long}, !.query = [title |-> "", provider |-> "p"]]),
   One([Req EXCEPT !.filter = {Long}, !.filters = {InYear}]),
   Two(Req, [Req EXCEPT !.raw = "x", !.filter = {InYear}], "q", None),
   Two(Req, [Req EXCEPT !.filter = {Long}], "", [method |-> "flatten_reranker", preserve |-> FALSE]),
   Two([Req EXCEPT !.raw = "q"], [Req EXCEPT !.filter = {InYear}, !.size = 1], "q",
       [method |-> "flatten_reranker", preserve |-> TRUE]),
   Two([Req EXCEPT !.size = 1], [Req EXCEPT !.size = 1], "q", [method |-> "fusion", preserve |-> FALSE])}

\* What an LLM makes of a topic: a question without dates, and one of today.
MCTopicCalls ==
  {[Call0 EXCEPT !.topK = 3, !.chunkSize = 8, !.chunkNumber = 8, !.range = r] :
   r \in {[start |-> 4, end |-> 4], [start |-> 1, end |-> 4], [start |-> 1, end |-> -1]}}
=============================================================================
