---------------------------- MODULE OpenSearchQuery ----------------------------
(***************************************************************************)
(* How the search service turns a SearchRequest into an OpenSearch query   *)
(* (search/service/searcher/opensearch), and what OpenSearch, an external  *)
(* service, answers to it.                                                 *)
(*                                                                         *)
(* A query of a request maps keys to the values asked for. A filter struct *)
(* is a clause; a clause is a match of a field or a range of an attribute, *)
(* with bounds that are dates, or offsets from the time at which           *)
(* OpenSearch evaluates it ("now-3M"). An article of the index has         *)
(* text[field], the values that a field matches, and number[attribute].    *)
(***************************************************************************)
EXTENDS SearchConfig, Integers, FiniteSets, Sequences

DefaultSize == 10

\* What becomes of a request before OpenSearch is called.
ConfigError == [kind |-> "config error"]
RequestError == [kind |-> "request error"]
Panic == [kind |-> "panic"]

Match(field, value) == [kind |-> "match", field |-> field, value |-> value]

---------------------------------------------------------------------------
(* The text strategy.                                                      *)

\* The keys with a value; a key the request leaves out has the value "".
Asked(s, query) ==
  {k \in DOMAIN s.fields : k \in DOMAIN query /\ query[k] # ""}

SourceField(s, k) == IF s.fields[k].source = "" THEN k ELSE s.fields[k].source

MatchQueries(s, query, keys) == {Match(SourceField(s, k), query[k]) : k \in keys}

PrimaryShould(s, query) == {k \in Asked(s, query) : s.fields[k].queryType = "should"}

SecondaryShould(s, query) ==
  {k \in Asked(s, query) : s.fields[k].queryType = "filter" /\ s.fields[k].secondary}

PlainFilter(s, query) ==
  {k \in Asked(s, query) : s.fields[k].queryType = "filter" /\ ~s.fields[k].secondary}

\* A secondary field is asked for like a should if there is no other should.
ShouldQuery(s, query) ==
  MatchQueries(s, query, IF PrimaryShould(s, query) = {}
                         THEN SecondaryShould(s, query) ELSE PrimaryShould(s, query))

FilterQuery(s, query) ==
  MatchQueries(s, query, PlainFilter(s, query) \union
                         IF PrimaryShould(s, query) = {}
                         THEN {} ELSE SecondaryShould(s, query))

\* Every field of the configuration, asked for or not, must not match.
MustNotQuery(s, exclude) ==
  IF exclude = "" THEN {}
  ELSE {Match(SourceField(s, k), exclude) : k \in DOMAIN s.fields}

\* harmonic asks for ten reviews as well, inside a function_score.
Reviewed == [kind |-> "range", attribute |-> "REVW_CNT", bounds |-> [gte |-> [now |-> FALSE, at |-> 10]]]

TextQuery(s, req) ==
  IF \/ \E k \in DOMAIN s.fields : s.fields[k].queryType = "should" /\ s.fields[k].secondary
     \/ \E k \in Asked(s, req.query) : s.fields[k].queryType \notin QueryTypes
     \/ s.scoring \notin ScoringModes
  THEN ConfigError
  ELSE [kind |-> "query",
        form |-> IF s.scoring = "harmonic" THEN "function_score" ELSE "bool",
        should |-> ShouldQuery(s, req.query),
        filter |-> FilterQuery(s, req.query) \union
                   IF s.scoring = "harmonic" THEN {Reviewed} ELSE {},
        mustNot |-> MustNotQuery(s, req.exclude),
        must |-> {}]

---------------------------------------------------------------------------
(* The vector strategy. It passes on nothing of the request but the text   *)
(* that it encodes; a filter of its own narrows what OpenSearch returns.   *)

VectorQuery(s, req) ==
  IF s.knn = None THEN Panic
  ELSE IF (IF s.knn.source = "" THEN s.knn.field ELSE s.knn.source) \notin DOMAIN req.query
       THEN RequestError
  ELSE IF s.encoder = None THEN Panic
  ELSE IF s.encoder.kind = "unset" THEN ConfigError
  ELSE [kind |-> "query", form |-> "knn",
        should |-> {}, filter |-> {}, mustNot |-> {}, must |-> {}]

---------------------------------------------------------------------------
(* createQuery: the range filters of the request join the must of a bool   *)
(* query; filters of other kinds are ignored.                              *)

Ranges(filters) == {f \in filters : f.kind = "range"}

\* Faulty variant: every range filter replaces the must of the one before.
WithRangesLastWins(q, ranges) ==
  IF q.kind # "query" \/ ranges = {} THEN q
  ELSE IF q.form # "bool" THEN Panic
  ELSE [q EXCEPT !.must = {CHOOSE r \in ranges : TRUE}]

\* Only a bool query has the key that the assertion reaches for.
WithRanges(q, ranges) ==
  IF q.kind # "query" \/ ranges = {} THEN q
  ELSE IF q.form # "bool" THEN Panic
  ELSE [q EXCEPT !.must = @ \union ranges]

Compound(q, c) ==
  IF q.kind # "query" \/ c = None THEN q
  ELSE IF c.kind = "unset" \/ c.functions = 0 THEN ConfigError
  ELSE [q EXCEPT !.form = IF @ = "bool" THEN "function_score" ELSE @]

Filters(req) ==
  (IF req.filter = None THEN {} ELSE req.filter)
    \union IF req.filters = None THEN {} ELSE req.filters

\* OpenSearchSearcher.Search up to the call.
Translate(opensearch, req) ==
  IF req.filter # None /\ req.filters # None THEN RequestError
  ELSE IF opensearch = None \/ opensearch.strategy = None THEN ConfigError
  ELSE LET s == opensearch.strategy
           q == IF s.kind = "text" THEN TextQuery(s, req) ELSE VectorQuery(s, req)
       IN  Compound(WithRanges(q, Ranges(Filters(req))), opensearch.compound)

---------------------------------------------------------------------------
(* OpenSearch.                                                             *)

InBound(op, n, b) ==
  \/ op = "gte" /\ n >= b
  \/ op = "gt" /\ n > b
  \/ op = "lte" /\ n <= b
  \/ op = "lt" /\ n < b

\* An article without the attribute is in no range of it.
InRange(doc, f, now) ==
  /\ f.attribute \in DOMAIN doc.number
  /\ \A op \in DOMAIN f.bounds :
       InBound(op, doc.number[f.attribute],
               f.bounds[op].at + IF f.bounds[op].now THEN now ELSE 0)

Satisfies(doc, c, now) ==
  \/ /\ c.kind = "match" /\ c.field \in DOMAIN doc.text
     /\ c.value \in doc.text[c.field]
  \/ c.kind = "range" /\ InRange(doc, c, now)

\* Some should must match only if there is neither a must nor a filter: with a
\* range of dates it merely adds to the score. A bool without any clause, like
\* a nearest neighbour query, leaves no article out.
Eligible(doc, q, now) ==
  /\ \A c \in q.must \union q.filter : Satisfies(doc, c, now)
  /\ \A c \in q.mustNot : ~Satisfies(doc, c, now)
  /\ q.must \union q.filter = {} /\ q.should # {} =>
       \E c \in q.should : Satisfies(doc, c, now)

Matching(doc, q, now) == \E c \in q.should : Satisfies(doc, c, now)

Injective(n, S) == {s \in [1 .. n -> S] : \A i, j \in 1 .. n : s[i] = s[j] => i = j}

\* The answers of OpenSearch to query q at a time: the best of the eligible
\* articles of the index. Those of a bool query that match come before those
\* that do not; other scores rank anyhow, and k may cut a knn query short.
HitLists(index, q, size, now) ==
  LET found == {d \in DOMAIN index : Eligible(index[d], q, now)}
      best == IF Cardinality(found) < size THEN Cardinality(found) ELSE size
  IN  IF q.form = "knn" THEN UNION {Injective(n, found) : n \in 0 .. best}
      ELSE {s \in Injective(best, found) :
              q.form = "bool" =>
                \A i \in DOMAIN s : ~Matching(index[s[i]], q, now) =>
                  \A d \in found : Matching(index[d], q, now) =>
                    \E j \in DOMAIN s : j < i /\ s[j] = d}
=============================================================================
