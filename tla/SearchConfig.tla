----------------------------- MODULE SearchConfig -----------------------------
(***************************************************************************)
(* The two configuration files of the search service (search_config.json   *)
(* and searcher_config.json) and the validation that both pass before the  *)
(* service listens. A configuration is the value that the file decodes to: *)
(* a message is a record, an optional message that is not set is None, a   *)
(* oneof is a record with the kind that is set, or "unset".                *)
(*                                                                         *)
(* The rules are those of the generated validate methods. They look into a *)
(* message only if it is set and require none to be set.                   *)
(***************************************************************************)
EXTENDS Naturals

CONSTANTS
  None  \* a message that is not set

\* The lists that the generated code looks names up in.
SearcherTypes == {"colbert", "opensearch"}
RerankerTypes == {"e5"}
QueryTypes == {"filter", "should"}
ScoringModes == {"relevance", "softmax", "harmonic"}
FilterModes == {"efficient-knn", "post-filter"}

IfSet(message, Valid(_)) == message # None => Valid(message)

---------------------------------------------------------------------------
(* SearchConfig: the searcher to use and the optional reranker.            *)

\* A source names a field of the query or the raw query; no rule on either.
ValidQuerySource(s) == s.kind \in {"unset", "raw", "query", "concat"}

ValidReranker(r) == r.type \in RerankerTypes /\ IfSet(r.source, ValidQuerySource)

ValidSearchConfig(c) ==
  c.searcher \in SearcherTypes /\ IfSet(c.reranker, ValidReranker)

---------------------------------------------------------------------------
(* SearcherConfig: how a request becomes an OpenSearch query.              *)

ValidField(f) == f.valueType # "" /\ f.queryType \in QueryTypes

\* Faulty variant: the scoring mode is not looked at.
ValidTextAnyScoring(s) == \A k \in DOMAIN s.fields : ValidField(s.fields[k])

ValidTextQueryStrategy(s) ==
  s.scoring \in ScoringModes /\ \A k \in DOMAIN s.fields : ValidField(s.fields[k])

ValidKnnStrategy(k) == k.field # ""

ValidFilterStrategy(f) == f.mode \in FilterModes

\* Neither kind of encoder has a rule, nor is one required.
ValidEncoder(e) == e.kind \in {"unset", "sentence_transformer"}

ValidVectorQueryStrategy(s) ==
  /\ IfSet(s.knn, ValidKnnStrategy)
  /\ IfSet(s.filter, ValidFilterStrategy)
  /\ IfSet(s.encoder, ValidEncoder)

ValidFunctionScore(c) == c.functions >= 1

ValidCompoundStrategy(c) == c.kind = "function_score" => ValidFunctionScore(c)

ValidQueryStrategy(s) ==
  /\ s.kind = "text" => ValidTextQueryStrategy(s)
  /\ s.kind = "vector" => ValidVectorQueryStrategy(s)

ValidOpenSearch(o) ==
  IfSet(o.strategy, ValidQueryStrategy) /\ IfSet(o.compound, ValidCompoundStrategy)

ValidSearcherConfig(c) == IfSet(c.opensearch, ValidOpenSearch)

\* The service starts with such configurations and panics with any other.
Valid(config) ==
  ValidSearchConfig(config.search) /\ ValidSearcherConfig(config.searcher)
=============================================================================
