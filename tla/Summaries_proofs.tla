--------------------------- MODULE Summaries_proofs ---------------------------
(***************************************************************************)
(* Proofs about a request from the summary down to the index: the search   *)
(* service with its searches and lists (module SearchService), the search  *)
(* function that calls it (ArticleSearch), its keywords (Keywords) and the *)
(* summaries (Summaries), for every index, every configuration file, every *)
(* request and every call of the assumptions.                              *)
(*                                                                         *)
(* The invariant is a conjunction of one part for each of them: ServesInv  *)
(* of the configuration and the errors, ListsInv of the lists and the      *)
(* reply, PluginInv of the call and its references, KeywordsInv, and       *)
(* SummaryInv of what was written and told. Each uses those before it: a   *)
(* reply has only what was found as the lists of the searches have only    *)
(* what was found, and the references only what the reply has.             *)
(*                                                                         *)
(* The sort and the merge of the chunks are folds of a sequence, which the *)
(* library defines by a recursion: that these have a solution, and that a  *)
(* step of one keeps what is said of its value, is shown by the least      *)
(* number for which it would not hold.                                     *)
(***************************************************************************)
EXTENDS Summaries, FiniteSetTheorems, SequenceTheorems, WellFoundedInduction, TLAPS

---------------------------------------------------------------------------
(* The steps of the search service.                                        *)

\* The bounds of the clock.
LEMMA Times == FirstNow \in Nat \ {0} /\ MaxNow \in Nat /\ FirstNow \in FirstNow .. MaxNow
<1>1. FirstNow \in Nat \ {0} /\ MaxNow \in Nat /\ FirstNow <= MaxNow
  BY IndexAssumption
<1> QED
  BY <1>1

\* A sub-request of the search function is well-formed.
LEMMA SearchRequestIs ==
  ASSUME NEW q, IsCall(q), NEW f
  PROVE  IsSubRequest(SearchRequest(q, f))
  BY DEF IsSubRequest, SearchRequest, IsCall

\* So are its requests.
LEMMA BodyIs ==
  ASSUME NEW q, IsCall(q)
  PROVE  IsRequest(Body(q))
<1>1. IsRequest(NotSpecified(q))
  <2>1. \A i \in {1, 2} : IsSubRequest(NotSpecified(q).requests[i])
    BY SearchRequestIs DEF NotSpecified
  <2> QED
    BY <2>1 DEF NotSpecified, IsRequest, IsCall
<1>2. IsRequest(Specified(q))
  <2>1. IsSubRequest(Specified(q).requests[1])
    BY SearchRequestIs DEF Specified
  <2> QED
    BY <2>1 DEF Specified, IsRequest, IsCall
<1> QED
  BY <1>1, <1>2 DEF Body

\* A call that the engine may make.
IsMade(q) == IsCall(q) /\ IsThere(q)

\* What a step is to the service and to the search function: the service or
\* another client moves, a call is made, or it ends, or neither takes part.
SearchStep ==
  \/ ServiceNext /\ UNCHANGED pluginVars
  \/ OtherClient
  \/ \E q : IsMade(q) /\ Call(q)
  \/ Return
  \/ plugin = "calling" /\ plugin' = "failed" /\ UNCHANGED <<question, references, serviceVars>>
  \/ UNCHANGED <<serviceVars, pluginVars>>

\* Every step of the system is one of these.
LEMMA NextIsSearchStep == now \in FirstNow .. MaxNow /\ [Next]_vars => SearchStep
<1> SUFFICES ASSUME now \in FirstNow .. MaxNow, [Next]_vars PROVE SearchStep
  OBVIOUS
<1>1. CASE \E r \in Request : Begin(r)
  BY <1>1 DEF Begin, searchVars, SearchStep
<1>2. CASE Choose
  <2>1. CASE UNCHANGED searchVars
    BY <2>1 DEF searchVars, SearchStep
  <2>2. CASE \E q \in TopicCalls : Call(CallAt(q, MockTime, "topic"))
    BY <2>2, SummariesAssumption DEF SearchStep, IsMade
  <2> QED
    BY <1>2, <2>1, <2>2 DEF Choose
<1>3. CASE Search
  BY <1>3 DEF Search, searchVars, SearchStep
<1>4. CASE SearchCancelled
  BY <1>4 DEF SearchCancelled, SearchStep
<1>5. CASE Summarise
  BY <1>5 DEF Summarise, searchVars, SearchStep
<1>6. CASE Deliver \/ GiveUp
  BY <1>6 DEF Deliver, GiveUp, searchVars, SearchStep
<1>7. CASE Arrive
  <2>1. CASE \E q \in Questions : CallForCompletion(q)
    BY <2>1, CallsAssumption DEF SearchStep, CallForCompletion, IsMade
  <2>2. CASE OtherClient
    BY <2>2 DEF SearchStep
  <2> QED
    BY <1>7, <2>1, <2>2 DEF Arrive
<1>8. CASE SearchNext
  BY <1>8 DEF SearchNext, CallFails, SearchStep
<1>9. CASE UNCHANGED vars
  BY <1>9 DEF vars, searchVars, SearchStep
<1> QED
  BY <1>1, <1>2, <1>3, <1>4, <1>5, <1>6, <1>7, <1>8, <1>9 DEF Next, Engine

\* To the service alone, a step is its own, the arrival of a well-formed request,
\* or nothing.
ServiceStep ==
  \/ ServiceNext
  \/ \E r : IsRequest(r) /\ Receive(r)
  \/ UNCHANGED serviceVars

\* Every step of the search is one to the service.
LEMMA SearchStepIsServiceStep == SearchStep => ServiceStep
<1> SUFFICES ASSUME SearchStep PROVE ServiceStep
  OBVIOUS
<1>1. CASE OtherClient
  BY <1>1, CallsAssumption DEF OtherClient, ServiceStep
<1>2. CASE \E q : IsMade(q) /\ Call(q)
  <2>1. PICK q : IsMade(q) /\ Call(q)
    BY <1>2
  <2>2. IsRequest(Body(q))
    BY <2>1, BodyIs DEF IsMade
  <2>3. UNCHANGED serviceVars \/ Receive(Body(q))
    BY <2>1 DEF Call
  <2> QED
    BY <2>2, <2>3 DEF ServiceStep
<1>3. CASE Return
  BY <1>3 DEF Return, ServiceStep
<1>4. CASE UNCHANGED serviceVars
  BY <1>4 DEF ServiceStep
<1> QED
  BY <1>1, <1>2, <1>3, <1>4 DEF SearchStep, ServiceStep

---------------------------------------------------------------------------
(* A validated configuration serves.                                       *)

\* The service serves, or has served, with a configuration that is valid.
ConfigInv ==
  /\ config \in ConfigFiles /\ now \in FirstNow .. MaxNow
  /\ process \in {"starting", "refused", "serving", "crashed"}
  /\ process \in {"serving", "crashed"} => Valid(config)
  /\ errors \in Seq({"config error", "request error", "external"})

\* What a text query may come to.
LEMMA TextQueryIs ==
  ASSUME ConfigInv, process = "serving", IsText, NEW req
  PROVE  LET q == TextQuery(Strategy, req)
         IN  \/ q.kind = "config error" /\ Unchecked
             \/ q.kind = "query" /\ q.form = IF Strategy.scoring = "harmonic" THEN "function_score" ELSE "bool"
<1> DEFINE q == TextQuery(Strategy, req)
<1>1. ValidTextQueryStrategy(Strategy)
  BY DEF ConfigInv, Valid, ValidSearcherConfig, ValidOpenSearch, ValidQueryStrategy, IfSet, IsText, HasStrategy,
         Strategy
<1>2. CASE \E k \in DOMAIN Strategy.fields : Strategy.fields[k].queryType = "should" /\ Strategy.fields[k].secondary
  BY <1>2 DEF Unchecked, TextQuery, ConfigError
<1>3. CASE ~ \E k \in DOMAIN Strategy.fields : Strategy.fields[k].queryType = "should" /\ Strategy.fields[k].secondary
  <2>1. ~ \E k \in Asked(Strategy, req.query) : Strategy.fields[k].queryType \notin QueryTypes
    BY <1>1 DEF Asked, ValidTextQueryStrategy, ValidField
  <2>2. Strategy.scoring \in ScoringModes
    BY <1>1 DEF ValidTextQueryStrategy
  <2>3. q = [kind |-> "query",
             form |-> IF Strategy.scoring = "harmonic" THEN "function_score" ELSE "bool",
             should |-> ShouldQuery(Strategy, req.query),
             filter |-> FilterQuery(Strategy, req.query) \union
                        IF Strategy.scoring = "harmonic" THEN {Reviewed} ELSE {},
             mustNot |-> MustNotQuery(Strategy, req.exclude),
             must |-> {}]
    BY <1>3, <2>1, <2>2 DEF TextQuery
  <2> HIDE DEF q
  <2>4. q.kind = "query" /\ q.form = IF Strategy.scoring = "harmonic" THEN "function_score" ELSE "bool"
    BY <2>3
  <2> QED
    BY <2>4 DEF q
<1> QED
  BY <1>2, <1>3

\* The answers of the service tell themselves apart.
LEMMA RepliesDiffer ==
  /\ \A a, b : [error |-> a] = [error |-> b] => a = b
  /\ \A a, b : [lists |-> a] # [error |-> b]
<1>1. ASSUME NEW a, NEW b, [error |-> a] = [error |-> b] PROVE a = b
  <2>1. [error |-> a].error = [error |-> b].error
    BY <1>1
  <2> QED
    BY <2>1
<1>2. \A a, b : [lists |-> a] # [error |-> b]
  OBVIOUS
<1> QED
  BY <1>1, <1>2

\* The first element of a sequence, and its elements and one more.
LEMMA HeadIs ==
  ASSUME NEW S, NEW s \in Seq(S), Len(s) = 1
  PROVE  Head(s) = s[1] /\ 1 \in DOMAIN s /\ s[1] \in S
  OBVIOUS

\* A sequence with one more element.
LEMMA AppendIs ==
  ASSUME NEW S, NEW s \in Seq(S), NEW x \in S
  PROVE  /\ Append(s, x) \in Seq(S)
         /\ \A j \in DOMAIN Append(s, x) :
              (j \in DOMAIN s /\ Append(s, x)[j] = s[j]) \/ Append(s, x)[j] = x
<1>1. Append(s, x) \in Seq(S) /\ Len(Append(s, x)) = Len(s) + 1
  BY AppendProperties
<1>2. DOMAIN Append(s, x) = 1 .. Len(s) + 1 /\ DOMAIN s = 1 .. Len(s) /\ Len(s) \in Nat
  BY <1>1
<1>3. \A j \in 1 .. Len(s) : Append(s, x)[j] = s[j]
  BY AppendProperties
<1>4. Append(s, x)[Len(s) + 1] = x
  BY AppendProperties
<1> QED
  BY <1>1, <1>2, <1>3, <1>4

\* What a query may come to, of either strategy.
LEMMA QueryIs ==
  ASSUME ConfigInv, process = "serving", HasStrategy, NEW req
  PROVE  LET q == IF Strategy.kind = "text" THEN TextQuery(Strategy, req) ELSE VectorQuery(Strategy, req)
         IN  \/ q.kind \in {"config error", "panic"} /\ Unchecked
             \/ q.kind = "request error"
             \/ /\ q = [kind |-> "query", form |-> q.form, should |-> q.should, filter |-> q.filter,
                        mustNot |-> q.mustNot, must |-> q.must]
                /\ IsText => q.form = IF Strategy.scoring = "harmonic" THEN "function_score" ELSE "bool"
<1>1. CASE IsText
  <2>1. TextQuery(Strategy, req) = ConfigError \/ TextQuery(Strategy, req).kind = "query"
    BY DEF TextQuery
  <2>2. TextQuery(Strategy, req).kind = "query" =>
          LET q == TextQuery(Strategy, req)
          IN  q = [kind |-> "query", form |-> q.form, should |-> q.should, filter |-> q.filter,
                   mustNot |-> q.mustNot, must |-> q.must]
    BY DEF TextQuery, ConfigError
  <2> QED
    BY <1>1, <2>1, <2>2, TextQueryIs DEF IsText, ConfigError
<1>2. CASE ~IsText
  <2> DEFINE q == VectorQuery(Strategy, req)
  <2>1. q \in {Panic, ConfigError} => Unchecked
    BY <1>2 DEF VectorQuery, Unchecked, Panic, ConfigError, RequestError
  <2>2. \/ q \in {Panic, ConfigError, RequestError}
        \/ q = [kind |-> "query", form |-> "knn",
                should |-> {}, filter |-> {}, mustNot |-> {}, must |-> {}]
    BY DEF VectorQuery
  <2> HIDE DEF q
  <2>3. CASE q \in {Panic, ConfigError, RequestError}
    <3>1. (q.kind \in {"config error", "panic"} /\ Unchecked) \/ q.kind = "request error"
      <4>1. CASE q = RequestError
        BY <4>1 DEF RequestError
      <4>2. CASE q = Panic
        BY <2>1, <4>2 DEF Panic
      <4>3. CASE q = ConfigError
        BY <2>1, <4>3 DEF ConfigError
      <4> QED
        BY <2>3, <4>1, <4>2, <4>3
    <3> QED
      BY <1>2, <3>1 DEF q, IsText
  <2>4. CASE q = [kind |-> "query", form |-> "knn",
                should |-> {}, filter |-> {}, mustNot |-> {}, must |-> {}]
    <3>1. q = [kind |-> "query", form |-> q.form, should |-> q.should, filter |-> q.filter,
               mustNot |-> q.mustNot, must |-> q.must]
      BY <2>4
    <3> QED
      BY <1>2, <3>1 DEF q, IsText
  <2> QED
    BY <2>2, <2>3, <2>4
<1> QED
  BY <1>1, <1>2

\* A sub-request is refused for the configuration, or panics, only for what the
\* validation does not look at or a range filter on another than a bool query.
LEMMA TranslateIs ==
  ASSUME ConfigInv, process = "serving", NEW i \in Sub
  PROVE  LET q == Translate(config.searcher.opensearch, request.requests[i])
         IN  /\ q.kind = "panic" => Unchecked \/ Misplaced
             /\ q.kind = "config error" => Unchecked
<1> DEFINE req == request.requests[i]
           o == config.searcher.opensearch
           t == Translate(o, req)
<1>1. CASE req.filter # None /\ req.filters # None
  BY <1>1 DEF Translate, RequestError
<1>2. CASE ~(req.filter # None /\ req.filters # None) /\ ~HasStrategy
  BY <1>2 DEF Translate, ConfigError, Unchecked, HasStrategy, Strategy
<1>3. CASE ~(req.filter # None /\ req.filters # None) /\ HasStrategy
  <2>1. PICK q : q = IF Strategy.kind = "text" THEN TextQuery(Strategy, req) ELSE VectorQuery(Strategy, req)
    OBVIOUS
  <2>2. PICK w : w = WithRanges(q, Ranges(Filters(req)))
    OBVIOUS
  <2>3. t = Compound(w, o.compound)
    BY <1>3, <2>1, <2>2 DEF Translate, HasStrategy, Strategy
  <2>4. \/ q.kind \in {"config error", "panic"} /\ Unchecked
        \/ q.kind = "request error"
        \/ /\ q = [kind |-> "query", form |-> q.form, should |-> q.should, filter |-> q.filter,
                   mustNot |-> q.mustNot, must |-> q.must]
           /\ IsText => q.form = IF Strategy.scoring = "harmonic" THEN "function_score" ELSE "bool"
    BY <1>3, <2>1, QueryIs
  <2>5. CASE q.kind # "query"
    <3>1. w = q
      BY <2>2, <2>5 DEF WithRanges
    <3>2. t = q
      BY <2>3, <2>5, <3>1 DEF Compound
    <3>3. (q.kind \in {"config error", "panic"} /\ Unchecked) \/ q.kind = "request error"
      <4>1. \A f, a, b, c, m : q = [kind |-> "query", form |-> f, should |-> a, filter |-> b,
                                    mustNot |-> c, must |-> m] => q.kind = "query"
        OBVIOUS
      <4> QED
        BY <2>4, <2>5, <4>1
    <3> QED
      BY <3>2, <3>3
  <2>6. CASE q.kind = "query"
    <3>1. /\ q = [kind |-> "query", form |-> q.form, should |-> q.should, filter |-> q.filter,
                   mustNot |-> q.mustNot, must |-> q.must]
          /\ IsText => q.form = IF Strategy.scoring = "harmonic" THEN "function_score" ELSE "bool"
      BY <2>4, <2>6
    <3>2. CASE w = Panic
      <4>1. Ranges(Filters(req)) # {} /\ q.form # "bool"
        BY <2>2, <2>6, <3>2 DEF WithRanges, Panic
      <4>2. Misplaced
        BY <3>1, <4>1 DEF Misplaced
      <4> QED
        BY <2>3, <3>2, <4>2 DEF Compound, Panic
    <3>3. CASE w # Panic
      <4>1. PICK m : w = [kind |-> "query", form |-> q.form, should |-> q.should, filter |-> q.filter,
                          mustNot |-> q.mustNot, must |-> m]
        BY <2>2, <2>6, <3>1, <3>3 DEF WithRanges
      <4>2. CASE o.compound = None
        BY <2>3, <4>1, <4>2 DEF Compound
      <4>3. CASE o.compound # None /\ o.compound.kind = "unset"
        <5>1. Unchecked
          BY <4>3 DEF Unchecked
        <5>2. t = ConfigError
          BY <2>3, <4>1, <4>3 DEF Compound
        <5> QED
          BY <5>1, <5>2 DEF ConfigError
      <4>4. CASE o.compound # None /\ o.compound.kind # "unset"
        <5>1. o.compound.kind = "function_score" /\ o.compound.functions \in Nat
          BY <4>4, <1>3, ConfigAssumption DEF ConfigInv, HasStrategy
        <5>2. o.compound.functions >= 1
          BY <4>4, <1>3, <5>1 DEF ConfigInv, HasStrategy, Valid, ValidSearcherConfig, ValidOpenSearch,
             IfSet, ValidCompoundStrategy, ValidFunctionScore
        <5>3. t = [w EXCEPT !.form = IF @ = "bool" THEN "function_score" ELSE @]
          BY <2>3, <4>1, <4>4, <5>1, <5>2 DEF Compound
        <5>4. t.kind = "query"
          BY <4>1, <5>3
        <5> QED
          BY <5>4
      <4> QED
        BY <4>2, <4>3, <4>4
    <3> QED
      BY <3>2, <3>3
  <2> QED
    BY <2>5, <2>6
<1> QED
  BY <1>1, <1>2, <1>3

\* What a search may do to the service, and why.
LEMMA SearchOneIs ==
  ASSUME ConfigInv, request # None, NEW i \in Sub, SearchOne(i)
  PROVE  /\ UNCHANGED <<config, now, request>>
         /\ process = "serving" /\ reply = None
         /\ \/ process' = process /\ reply' = reply /\ errors' = errors
            \/ /\ errors' = errors
               /\ process' \in {"serving", "crashed"} /\ reply' \in {None, [error |-> "panic"]}
               /\ Unchecked \/ Misplaced \/ Reranker # None
            \/ \E kind \in {"config error", "request error", "external"} :
                 /\ errors' = Append(errors, kind) /\ process' = process /\ reply' = reply
                 /\ kind = "config error" => Unchecked
<1> DEFINE q == Translate(config.searcher.opensearch, request.requests[i])
           Panicked == /\ errors' = errors
                       /\ process' \in {"serving", "crashed"} /\ reply' \in {None, [error |-> "panic"]}
           Failed == \E kind \in {"config error", "request error", "external"} :
                       /\ errors' = Append(errors, kind) /\ process' = process /\ reply' = reply
                       /\ kind = "config error" => Unchecked
<1>1. process = "serving" /\ reply = None /\ UNCHANGED <<config, now, request>>
  BY DEF SearchOne
<1>2. SearchPanics => Panicked
  BY <1>1 DEF SearchPanics, HandlerPanics
<1>3. \A items : SearchSucceeds(i, items) => process' = process /\ reply' = reply /\ errors' = errors
  BY DEF SearchSucceeds
<1>4. SearchFails("external") => Failed
  BY DEF SearchFails
<1>5. CASE q.kind = "panic" /\ SearchPanics
  BY <1>1, <1>2, <1>5, TranslateIs
<1>6. CASE q.kind \in {"config error", "request error"} /\ SearchFails(q.kind)
  <2>1. q.kind = "config error" => Unchecked
    BY <1>1, TranslateIs
  <2>2. Failed
    BY <1>6, <2>1 DEF SearchFails
  <2> QED
    BY <1>1, <2>2
<1>7. CASE SearchWith(i, q)
  <2>1. CASE SearchFails("external")
    BY <1>1, <1>4, <2>1
  <2>2. CASE \E s : SearchSucceeds(i, Plain(s))
    BY <1>1, <1>3, <2>2
  <2>3. CASE Reranker # None /\ \E s : Rerank(i, s, RerankQuery(request.requests[i]))
    <3>1. PICK text : text = RerankQuery(request.requests[i])
      OBVIOUS
    <3>2. PICK s : Rerank(i, s, text)
      BY <2>3, <3>1
    <3>3. text.kind = "config error" => Unchecked
      BY <2>3, <3>1 DEF RerankQuery, Unchecked, Panic, RequestError
    <3>4. CASE SearchPanics
      BY <1>1, <1>2, <2>3, <3>4
    <3>5. CASE text.kind \in {"config error", "request error"} /\ SearchFails(text.kind)
      <4>1. Failed
        BY <3>3, <3>5 DEF SearchFails
      <4> QED
        BY <1>1, <4>1
    <3>6. CASE SearchFails("external")
      BY <1>1, <1>4, <3>6
    <3>7. CASE \E t : SearchSucceeds(i, t)
      BY <1>1, <1>3, <3>7
    <3> QED
      BY <3>2, <3>4, <3>5, <3>6, <3>7 DEF Rerank
  <2> QED
    BY <1>7, <2>1, <2>2, <2>3 DEF SearchWith
<1> QED
  BY <1>5, <1>6, <1>7 DEF SearchOne

\* The invariant of the service.
ServesInv == ConfigInv /\ ValidatedConfigServes

\* A step of the service keeps the invariant.
LEMMA ServesStep ==
  ASSUME ServesInv, ServiceStep
  PROVE  ServesInv'
<1>1. None # [error |-> "panic"] /\ None # [error |-> "config error"]
  BY ConfigAssumption
<1>2. config' = config
  BY DEF ServiceStep, ServiceNext, Start, Tick, Aggregate, ReturnError, SearchOne, Receive, serviceVars
<1>11. now' \in FirstNow .. MaxNow
  <2>1. now' = now \/ (now < MaxNow /\ now' = now + 1)
    BY DEF ServiceStep, ServiceNext, Start, Tick, Aggregate, ReturnError, SearchOne, Receive, serviceVars
  <2>2. now \in FirstNow .. MaxNow
    BY DEF ServesInv, ConfigInv
  <2> QED
    BY <2>1, <2>2, Times
<1>3. Unchecked' = Unchecked /\ (Reranker # None)' = (Reranker # None)
  BY <1>2 DEF Unchecked, Reranker, HasStrategy, IsText, Strategy
<1>4. UNCHANGED request => Misplaced' = Misplaced
  BY <1>2 DEF Misplaced, IsText, HasStrategy, Strategy, Sub
<1>5. CASE Start
  BY <1>2, <1>3, <1>11, <1>4, <1>5 DEF Start, ServesInv, ConfigInv, ValidatedConfigServes
<1>6. CASE Tick \/ UNCHANGED serviceVars
  BY <1>2, <1>3, <1>11, <1>4, <1>6 DEF Tick, serviceVars, ServesInv, ConfigInv, ValidatedConfigServes
<1>7. CASE Aggregate
  <2>1. /\ UNCHANGED <<request, process, errors>>
        /\ \/ \E l : reply' = [lists |-> l]
           \/ reply' = [error |-> "external"] \/ reply' = [error |-> "request error"]
    BY <1>7 DEF Aggregate, Respond
  <2>2. reply' # [error |-> "panic"] /\ reply' # [error |-> "config error"]
    <3>1. "external" \notin {"panic", "config error"} /\ "request error" \notin {"panic", "config error"}
      OBVIOUS
    <3> QED
      BY <2>1, <3>1, RepliesDiffer
  <2> QED
    BY <1>2, <1>3, <1>11, <1>4, <2>1, <2>2 DEF ServesInv, ConfigInv, ValidatedConfigServes
<1>8. CASE ReturnError
  <2>1. /\ UNCHANGED <<request, process, errors>>
        /\ errors[1] \in {"config error", "request error", "external"}
        /\ 1 \in DOMAIN errors /\ reply' = [error |-> errors[1]]
    <3>1. /\ UNCHANGED <<request, process, errors>>
          /\ Len(errors) = 1 /\ reply' = [error |-> Head(errors)]
      BY <1>8 DEF ReturnError, Respond
    <3>2. errors \in Seq({"config error", "request error", "external"})
      BY DEF ServesInv, ConfigInv
    <3>3. Head(errors) = errors[1] /\ 1 \in DOMAIN errors
          /\ errors[1] \in {"config error", "request error", "external"}
      BY <3>1, <3>2, HeadIs
    <3> QED
      BY <3>1, <3>3
  <2>2. reply' # [error |-> "panic"] /\ (reply' = [error |-> "config error"] => errors[1] = "config error")
    <3>1. errors[1] # "panic"
      BY <2>1
    <3> QED
      BY <2>1, <3>1, RepliesDiffer
  <2> QED
    BY <1>2, <1>3, <1>11, <1>4, <2>1, <2>2 DEF ServesInv, ConfigInv, ValidatedConfigServes
<1>9. CASE request # None /\ \E i \in Sub : SearchOne(i)
  <2>1. PICK i \in Sub : SearchOne(i)
    BY <1>9
  <2>2. /\ UNCHANGED <<config, now, request>>
        /\ process = "serving" /\ reply = None
        /\ \/ process' = process /\ reply' = reply /\ errors' = errors
           \/ /\ errors' = errors
              /\ process' \in {"serving", "crashed"} /\ reply' \in {None, [error |-> "panic"]}
              /\ Unchecked \/ Misplaced \/ Reranker # None
           \/ \E kind \in {"config error", "request error", "external"} :
                /\ errors' = Append(errors, kind) /\ process' = process /\ reply' = reply
                /\ kind = "config error" => Unchecked
    BY <1>9, <2>1, SearchOneIs DEF ServesInv
  <2>3. CASE process' = process /\ reply' = reply /\ errors' = errors
    BY <1>2, <1>3, <1>11, <1>4, <2>2, <2>3 DEF ServesInv, ConfigInv, ValidatedConfigServes
  <2>4. CASE /\ errors' = errors
             /\ process' \in {"serving", "crashed"} /\ reply' \in {None, [error |-> "panic"]}
             /\ Unchecked \/ Misplaced \/ Reranker # None
    <3>1. reply' # [error |-> "config error"]
      BY <1>1, <2>4, RepliesDiffer
    <3> QED
      BY <1>2, <1>3, <1>11, <1>4, <2>2, <2>4, <3>1 DEF ServesInv, ConfigInv, ValidatedConfigServes
  <2>5. ASSUME NEW kind \in {"config error", "request error", "external"},
               errors' = Append(errors, kind), process' = process, reply' = reply,
               kind = "config error" => Unchecked
        PROVE  ServesInv'
    <3>1. /\ errors' \in Seq({"config error", "request error", "external"})
          /\ \A j \in DOMAIN errors' : (j \in DOMAIN errors /\ errors'[j] = errors[j]) \/ errors'[j] = kind
      <4>1. PICK S : S = {"config error", "request error", "external"}
        OBVIOUS
      <4>2. errors \in Seq(S) /\ kind \in S
        BY <4>1 DEF ServesInv, ConfigInv
      <4>3. /\ errors' \in Seq(S)
            /\ \A j \in DOMAIN errors' : (j \in DOMAIN errors /\ errors'[j] = errors[j]) \/ errors'[j] = kind
        <5>1. PICK e : e = Append(errors, kind)
          OBVIOUS
        <5>2. e \in Seq(S) /\ \A j \in DOMAIN e : (j \in DOMAIN errors /\ e[j] = errors[j]) \/ e[j] = kind
          BY ONLY <5>1, <4>2, AppendIs
        <5>3. errors' = e
          BY <2>5, <5>1
        <5> QED
          BY ONLY <5>2, <5>3
      <4> QED
        BY <4>1, <4>3
    <3> QED
      BY <1>2, <1>3, <1>11, <1>4, <2>2, <2>5, <3>1 DEF ServesInv, ConfigInv, ValidatedConfigServes
  <2> QED
    BY <2>2, <2>3, <2>4, <2>5
<1>10. CASE \E r : IsRequest(r) /\ Receive(r)
  <2>1. PICK r : Receive(r)
    BY <1>10
  <2>2. /\ process = "serving" /\ errors' = errors /\ process' \in {"serving", "crashed"}
        /\ \/ Early(r).kind = "panic" /\ reply' \in {None, [error |-> "panic"]}
           \/ Early(r).kind # "panic" /\ process' = process /\ reply' \in {None, [error |-> Early(r).kind]}
    BY <2>1 DEF Receive, HandlerPanics
  <2>3. Early(r).kind = "panic" => Reranker # None
    BY DEF Early, Panic, ConfigError, RequestError
  <2>4. Early(r).kind = "config error" => Unchecked
    <3>1. config.search.searcher \in {"colbert", "opensearch"}
      BY <2>2 DEF ServesInv, ConfigInv, Valid, ValidSearchConfig, SearcherTypes
    <3> QED
      BY <3>1 DEF Early, Panic, ConfigError, RequestError, Unchecked
  <2>5. /\ reply' = [error |-> "panic"] \/ process' = "crashed" => Reranker # None
        /\ reply' = [error |-> "config error"] => Unchecked
    <3>1. reply' = [error |-> "panic"] => Early(r).kind = "panic"
      BY <1>1, <2>2, RepliesDiffer
    <3>2. reply' = [error |-> "config error"] => Early(r).kind = "config error"
      BY <1>1, <2>2, RepliesDiffer
    <3> QED
      BY <2>2, <2>3, <2>4, <3>1, <3>2
  <2> QED
    BY <1>2, <1>3, <1>11, <2>2, <2>5 DEF ServesInv, ConfigInv, ValidatedConfigServes
<1> QED
  BY <1>5, <1>6, <1>7, <1>8, <1>9, <1>10 DEF ServiceStep, ServiceNext

\* It holds at first.
LEMMA ServesAtFirst == Init => ServesInv
<1>1. None # [error |-> "panic"] /\ None # [error |-> "config error"]
  BY ConfigAssumption
<1>2. <<>> \in Seq({"config error", "request error", "external"}) /\ DOMAIN <<>> = {}
  OBVIOUS
<1> QED
  BY <1>1, <1>2, Times DEF Init, SearchInit, ServiceInit, ServesInv, ConfigInv, ValidatedConfigServes

\* And every step of the system keeps it.
LEMMA ServesNext == ServesInv /\ [Next]_vars => ServesInv' /\ SearchStep /\ ServiceStep
  BY ServesStep, NextIsSearchStep, SearchStepIsServiceStep DEF ServesInv, ConfigInv

\* A service that accepted its configuration serves with it, whatever the
\* configuration files, the requests and the index are.
THEOREM AcceptedConfigServes == Spec => []ValidatedConfigServes
<1>1. ServesInv => ValidatedConfigServes
  BY DEF ServesInv
<1> QED
  BY <1>1, ServesAtFirst, ServesNext, PTL DEF Spec

---------------------------------------------------------------------------
(* Folds of a sequence from the left.                                      *)

\* The order of the numbers.
LessThan == {s \in Nat \X Nat : s[1] < s[2]}

\* The order of the natural numbers is well founded.
LEMMA LessThanWellFounded == IsWellFoundedOn(LessThan, Nat)
  BY NatLessThanWellFounded DEF OpToRel, LessThan

\* A set of numbers that has 0, and with a number the next one, has them all.
LEMMA AllNumbers ==
  ASSUME NEW P, 0 \in P, \A n \in Nat : n \in P => n + 1 \in P
  PROVE  Nat \subseteq P
<1> DEFINE Bad == {n \in Nat : n \notin P}
<1>1. SUFFICES ASSUME Bad # {} PROVE FALSE
  OBVIOUS
<1>2. PICK n \in Bad : \A m \in Bad : ~ (<<m, n>> \in LessThan)
  BY <1>1, LessThanWellFounded, WFMin
<1>3. n \in Nat /\ n # 0
  BY <1>2
<1>4. n - 1 \in Nat /\ <<n - 1, n>> \in LessThan
  BY <1>3 DEF LessThan
<1>5. n - 1 \in P
  BY <1>2, <1>4
<1>6. (n - 1) + 1 \in P
  BY <1>4, <1>5
<1> QED
  BY <1>2, <1>3, <1>6

\* Where the sort may put an item.
Places(s, x) == {p \in 1 .. Len(s) + 1 :
                   /\ \A i \in 1 .. p - 1 : s[i].score >= x.score
                   /\ \A i \in p .. Len(s) : x.score >= s[i].score}

\* What the two folds of the model do with an item: the sort puts it into every
\* sequence so far, the references take its chunk.
Folded(fold, v, x) ==
  IF fold = "sort" THEN UNION {{InsertAt(s, p, x) : p \in Places(s, x)} : s \in v}
  ELSE IF v # <<>> /\ Len(v) >= question.chunkNumber THEN v
  ELSE MergeChunk(v, x.article)

\* What they start with.
Base(fold) == IF fold = "sort" THEN {<<>>} ELSE <<>>

\* f folds the first k items, the last of a set first.
FoldsTo(f, fold, items, k) ==
  \A s \in SUBSET (1 .. k) :
    f[s] = IF s = {} THEN Base(fold) ELSE Folded(fold, f[s \ {Max(s)}], items[Max(s)])

\* The last of the places so far.
LEMMA MaxIs ==
  ASSUME NEW k \in Nat, NEW s \in SUBSET (1 .. k + 1), k + 1 \in s
  PROVE  Max(s) = k + 1
<1>1. \E x \in s : \A y \in s : x >= y
  <2>1. \A y \in s : k + 1 >= y
    OBVIOUS
  <2> QED
    BY <2>1
<1>2. Max(s) \in s /\ \A y \in s : Max(s) >= y
  BY <1>1 DEF Max
<1>3. PICK m : m = Max(s)
  OBVIOUS
<1>4. m \in 1 .. k + 1 /\ m >= k + 1
  BY <1>2, <1>3
<1> QED
  BY <1>3, <1>4

\* A fold goes one item further.
LEMMA FoldsFurther ==
  ASSUME NEW fold, NEW items, NEW k \in Nat, \E f : FoldsTo(f, fold, items, k)
  PROVE  \E f : FoldsTo(f, fold, items, k + 1)
<1>1. PICK f : FoldsTo(f, fold, items, k)
  OBVIOUS
<1> DEFINE g == [s \in SUBSET (1 .. k + 1) |-> IF s \subseteq 1 .. k THEN f[s]
                                               ELSE Folded(fold, f[s \ {k + 1}], items[k + 1])]
<1>2. ASSUME NEW s \in SUBSET (1 .. k + 1)
      PROVE  g[s] = IF s = {} THEN Base(fold) ELSE Folded(fold, g[s \ {Max(s)}], items[Max(s)])
  <2>1. CASE s \subseteq 1 .. k
    <3>1. s \ {Max(s)} \subseteq 1 .. k /\ s \ {Max(s)} \in SUBSET (1 .. k + 1)
      BY <2>1
    <3>2. g[s] = f[s] /\ g[s \ {Max(s)}] = f[s \ {Max(s)}]
      BY <2>1, <3>1
    <3> HIDE DEF g
    <3> QED
      BY <1>1, <2>1, <3>2 DEF FoldsTo
  <2>2. CASE ~(s \subseteq 1 .. k)
    <3>1. k + 1 \in s /\ s \ {k + 1} \subseteq 1 .. k /\ s \ {k + 1} \in SUBSET (1 .. k + 1)
      BY <2>2
    <3>2. Max(s) = k + 1
      BY <3>1, MaxIs
    <3>3. g[s] = Folded(fold, f[s \ {k + 1}], items[k + 1]) /\ g[s \ {k + 1}] = f[s \ {k + 1}]
      BY <2>2, <3>1
    <3> HIDE DEF g
    <3>4. s # {}
      BY <3>1
    <3> QED
      BY <3>2, <3>3, <3>4
  <2> QED
    BY <2>1, <2>2
<1> HIDE DEF g
<1>3. FoldsTo(g, fold, items, k + 1)
  BY <1>2 DEF FoldsTo
<1> QED
  BY <1>3

\* So there is a fold of any number of items.
LEMMA FoldExists ==
  ASSUME NEW fold, NEW items, NEW n \in Nat
  PROVE  \E f : FoldsTo(f, fold, items, n)
<1> DEFINE P == {k \in Nat : \E f : FoldsTo(f, fold, items, k)}
<1>1. 0 \in P
  <2> DEFINE f == [s \in {{}} |-> Base(fold)]
  <2>1. FoldsTo(f, fold, items, 0)
    <3>1. \A s \in SUBSET (1 .. 0) : s = {}
      OBVIOUS
    <3>2. f[{}] = Base(fold)
      OBVIOUS
    <3> HIDE DEF f
    <3> QED
      BY <3>1, <3>2 DEF FoldsTo
  <2> QED
    BY <2>1
<1>2. \A k \in Nat : k \in P => k + 1 \in P
  BY FoldsFurther
<1> HIDE DEF P
<1>3. n \in P
  BY <1>1, <1>2, AllNumbers
<1> QED
  BY <1>3 DEF P

\* A fold of a prefix is that of one item less and the last item.
LEMMA FoldStep ==
  ASSUME NEW fold, NEW items, NEW n \in Nat, NEW f, FoldsTo(f, fold, items, n)
  PROVE  /\ f[1 .. 0] = Base(fold)
         /\ \A k \in Nat : k + 1 <= n => f[1 .. k + 1] = Folded(fold, f[1 .. k], items[k + 1])
<1>1. f[1 .. 0] = Base(fold)
  BY DEF FoldsTo
<1>2. ASSUME NEW k \in Nat, k + 1 <= n
      PROVE  f[1 .. k + 1] = Folded(fold, f[1 .. k], items[k + 1])
  <2>1. PICK s : s = 1 .. k + 1
    OBVIOUS
  <2>2. s \in SUBSET (1 .. n) /\ s \in SUBSET (1 .. k + 1) /\ k + 1 \in s /\ s # {} /\ s \ {k + 1} = 1 .. k
    BY <1>2, <2>1
  <2>3. Max(s) = k + 1
    BY <2>2, MaxIs
  <2> QED
    BY <2>1, <2>2, <2>3 DEF FoldsTo
<1> QED
  BY <1>1, <1>2

\* The sort is a fold.
LEMMA SortedIsFold ==
  ASSUME NEW items, NEW n \in Nat, DOMAIN items = 1 .. n
  PROVE  \E f : FoldsTo(f, "sort", items, n) /\ Sorted(items) = f[1 .. n]
<1> DEFINE Rec(h) == [s \in SUBSET DOMAIN items |->
                        IF s = {} THEN {<<>>}
                        ELSE UNION {{InsertAt(t, p, items[Max(s)]) : p \in Places(t, items[Max(s)])}
                                    : t \in h[s \ {Max(s)}]}]
           iter == CHOOSE h : h = Rec(h)
<1>1. Sorted(items) = iter[DOMAIN items]
  BY DEF Sorted, FoldLeft, MapThenFoldSet, Places
<1>2. PICK g : FoldsTo(g, "sort", items, n)
  BY FoldExists
<1> DEFINE f == [s \in SUBSET DOMAIN items |-> g[s]]
<1>3. f = Rec(f)
  <2>1. ASSUME NEW s \in SUBSET DOMAIN items PROVE f[s] = Rec(f)[s]
    <3>1. f[s] = g[s] /\ f[s \ {Max(s)}] = g[s \ {Max(s)}]
      OBVIOUS
    <3> HIDE DEF f
    <3> QED
      BY <1>2, <3>1 DEF FoldsTo, Folded, Base
  <2>2. f = [s \in SUBSET DOMAIN items |-> f[s]]
    OBVIOUS
  <2> HIDE DEF f
  <2> QED
    BY <2>1, <2>2
<1> HIDE DEF f
<1>4. iter = Rec(iter)
  BY <1>3
<1>5. FoldsTo(iter, "sort", items, n)
  <2>1. ASSUME NEW s \in SUBSET DOMAIN items PROVE iter[s] = Rec(iter)[s]
    BY <1>4
  <2> HIDE DEF iter
  <2> QED
    BY <2>1 DEF FoldsTo, Folded, Base
<1> HIDE DEF iter
<1> QED
  BY <1>1, <1>5

\* The references are one, too.
LEMMA MergeIsFold ==
  ASSUME NEW items, NEW n \in Nat, DOMAIN items = 1 .. n
  PROVE  \E f : FoldsTo(f, "merge", items, n) /\ MergeChunks(items) = f[1 .. n]
<1> DEFINE Rec(h) == [s \in SUBSET DOMAIN items |->
                        IF s = {} THEN <<>>
                        ELSE IF h[s \ {Max(s)}] # <<>> /\ Len(h[s \ {Max(s)}]) >= question.chunkNumber
                             THEN h[s \ {Max(s)}]
                             ELSE MergeChunk(h[s \ {Max(s)}], items[Max(s)].article)]
           iter == CHOOSE h : h = Rec(h)
<1>1. MergeChunks(items) = iter[DOMAIN items]
  BY DEF MergeChunks, FoldLeft, MapThenFoldSet
<1>2. PICK g : FoldsTo(g, "merge", items, n)
  BY FoldExists
<1> DEFINE f == [s \in SUBSET DOMAIN items |-> g[s]]
<1>3. f = Rec(f)
  <2>1. ASSUME NEW s \in SUBSET DOMAIN items PROVE f[s] = Rec(f)[s]
    <3>1. f[s] = g[s] /\ f[s \ {Max(s)}] = g[s \ {Max(s)}]
      OBVIOUS
    <3> HIDE DEF f
    <3> QED
      BY <1>2, <3>1 DEF FoldsTo, Folded, Base
  <2>2. f = [s \in SUBSET DOMAIN items |-> f[s]]
    OBVIOUS
  <2> HIDE DEF f
  <2> QED
    BY <2>1, <2>2
<1> HIDE DEF f
<1>4. iter = Rec(iter)
  BY <1>3
<1>5. FoldsTo(iter, "merge", items, n)
  <2>1. ASSUME NEW s \in SUBSET DOMAIN items PROVE iter[s] = Rec(iter)[s]
    BY <1>4
  <2> HIDE DEF iter
  <2> QED
    BY <2>1 DEF FoldsTo, Folded, Base
<1> HIDE DEF iter
<1> QED
  BY <1>1, <1>5

---------------------------------------------------------------------------
(* The concatenation of sequences, and the sort.                           *)

\* f[i] is the concatenation of the first i sequences.
FlattenTo(f, seqs, k) ==
  \A i \in 1 .. k : f[i] = IF i = 1 THEN seqs[i] ELSE f[i - 1] \o seqs[i]

\* The concatenation of sequences is a recursion that has a solution.
LEMMA FlattenExists ==
  ASSUME NEW seqs, NEW n \in Nat
  PROVE  \E f : FlattenTo(f, seqs, n)
<1> DEFINE P == {k \in Nat : \E f : FlattenTo(f, seqs, k)}
<1>1. 0 \in P
  BY DEF FlattenTo
<1>2. ASSUME NEW k \in Nat, k \in P PROVE k + 1 \in P
  <2>1. PICK f : FlattenTo(f, seqs, k)
    BY <1>2
  <2> DEFINE g == [i \in 1 .. k + 1 |-> IF i \in 1 .. k THEN f[i]
                                        ELSE IF i = 1 THEN seqs[i] ELSE f[i - 1] \o seqs[i]]
  <2>2. ASSUME NEW i \in 1 .. k + 1
        PROVE  g[i] = IF i = 1 THEN seqs[i] ELSE g[i - 1] \o seqs[i]
    <3>1. i # 1 => i - 1 \in 1 .. k /\ i - 1 \in 1 .. k + 1
      OBVIOUS
    <3>2. i # 1 => g[i - 1] = f[i - 1]
      BY <3>1
    <3>3. i \in 1 .. k => g[i] = f[i] /\ f[i] = IF i = 1 THEN seqs[i] ELSE f[i - 1] \o seqs[i]
      BY <2>1 DEF FlattenTo
    <3>4. i \notin 1 .. k => g[i] = IF i = 1 THEN seqs[i] ELSE f[i - 1] \o seqs[i]
      OBVIOUS
    <3> HIDE DEF g
    <3> QED
      BY <3>2, <3>3, <3>4
  <2> HIDE DEF g
  <2>3. FlattenTo(g, seqs, k + 1)
    BY <2>2 DEF FlattenTo
  <2> QED
    BY <2>3
<1> HIDE DEF P
<1>3. n \in P
  BY <1>1, <1>2, AllNumbers
<1> QED
  BY <1>3 DEF P

\* A sequence of sequences is flattened by it.
LEMMA FlattenIs ==
  ASSUME NEW seqs, NEW n \in Nat, n # 0, Len(seqs) = n
  PROVE  \E f : FlattenTo(f, seqs, n) /\ FlattenSeq(seqs) = f[n]
<1> DEFINE Rec(h) == [i \in 1 .. Len(seqs) |-> IF i = 1 THEN seqs[i] ELSE h[i - 1] \o seqs[i]]
           iter == CHOOSE h : h = Rec(h)
<1>1. FlattenSeq(seqs) = iter[Len(seqs)]
  BY DEF FlattenSeq
<1>2. PICK g : FlattenTo(g, seqs, n)
  BY FlattenExists
<1> DEFINE f == [i \in 1 .. n |-> g[i]]
<1>3. f = Rec(f)
  <2>1. ASSUME NEW i \in 1 .. n PROVE f[i] = Rec(f)[i]
    <3>1. f[i] = g[i] /\ (i # 1 => f[i - 1] = g[i - 1])
      OBVIOUS
    <3> HIDE DEF f
    <3> QED
      BY <1>2, <3>1 DEF FlattenTo
  <2>2. f = [i \in 1 .. n |-> f[i]]
    OBVIOUS
  <2> HIDE DEF f
  <2> QED
    BY <2>1, <2>2
<1> HIDE DEF f
<1>4. iter = Rec(iter)
  BY <1>3
<1>5. FlattenTo(iter, seqs, n)
  <2>1. ASSUME NEW i \in 1 .. n PROVE iter[i] = Rec(iter)[i]
    BY <1>4
  <2> HIDE DEF iter
  <2> QED
    BY <2>1 DEF FlattenTo
<1> HIDE DEF iter
<1> QED
  BY <1>1, <1>5

\* It is a sequence of what the sequences are of, and at least as long as each.
LEMMA FlattenType ==
  ASSUME NEW S, NEW seqs \in Seq(Seq(S))
  PROVE  /\ FlattenSeq(seqs) \in Seq(S)
         /\ \A i \in DOMAIN seqs : Len(seqs[i]) <= Len(FlattenSeq(seqs))
<1> DEFINE n == Len(seqs)
<1>0. n \in Nat /\ DOMAIN seqs = 1 .. n /\ \A i \in 1 .. n : seqs[i] \in Seq(S)
  OBVIOUS
<1> HIDE DEF n
<1>1. CASE n = 0
  <2>1. seqs = <<>>
    BY <1>1 DEF n
  <2>2. FlattenSeq(seqs) = <<>>
    BY <1>1, <2>1 DEF FlattenSeq
  <2> QED
    BY <1>0, <1>1, <2>2
<1>2. CASE n # 0
  <2>1. PICK f : FlattenTo(f, seqs, n) /\ FlattenSeq(seqs) = f[n]
    BY <1>0, <1>2, FlattenIs DEF n
  <2> DEFINE P == {k \in Nat : k + 1 <= n => /\ f[k + 1] \in Seq(S)
                                             /\ \A i \in 1 .. k + 1 : Len(seqs[i]) <= Len(f[k + 1])}
  <2>2. 0 \in P
    <3>1. f[1] = seqs[1]
      BY <1>0, <1>2, <2>1 DEF FlattenTo
    <3>2. Len(seqs[1]) \in Nat /\ seqs[1] \in Seq(S)
      BY <1>0, <1>2
    <3> QED
      BY <3>1, <3>2
  <2>3. ASSUME NEW k \in Nat, k \in P PROVE k + 1 \in P
    <3>1. SUFFICES ASSUME (k + 1) + 1 <= n
                   PROVE  /\ f[(k + 1) + 1] \in Seq(S)
                          /\ \A i \in 1 .. (k + 1) + 1 : Len(seqs[i]) <= Len(f[(k + 1) + 1])
      OBVIOUS
    <3>2. f[k + 1] \in Seq(S) /\ \A i \in 1 .. k + 1 : Len(seqs[i]) <= Len(f[k + 1])
      BY <1>0, <2>3, <3>1
    <3>3. PICK j : j = (k + 1) + 1
      OBVIOUS
    <3>4. j \in 1 .. n /\ j # 1 /\ j - 1 = k + 1
      BY <3>1, <3>3
    <3>5. f[j] = f[k + 1] \o seqs[j] /\ seqs[j] \in Seq(S)
      BY <1>0, <2>1, <3>4 DEF FlattenTo
    <3>6. f[j] \in Seq(S) /\ Len(f[j]) = Len(f[k + 1]) + Len(seqs[j])
      BY <3>2, <3>5, ConcatProperties
    <3>7. PICK a, b \in Nat : a = Len(f[k + 1]) /\ b = Len(seqs[j])
      BY <3>2, <3>5
    <3>8. ASSUME NEW i \in 1 .. j PROVE Len(seqs[i]) <= Len(f[j])
      <4>1. CASE i = j
        <5>1. Len(seqs[i]) = b /\ Len(f[j]) = a + b
          BY <3>6, <3>7, <4>1
        <5> QED
          BY <5>1
      <4>2. CASE i # j
        <5>1. i \in 1 .. k + 1 /\ i \in 1 .. n
          BY <1>0, <3>4, <4>2
        <5>2. Len(seqs[i]) <= a /\ Len(seqs[i]) \in Nat
          BY <1>0, <3>2, <3>7, <5>1
        <5> QED
          <6>1. PICK c \in Nat : c = Len(seqs[i])
            BY <5>2
          <6>2. c <= a /\ Len(f[j]) = a + b
            BY <3>6, <3>7, <5>2, <6>1
          <6> QED
            BY <6>1, <6>2
      <4> QED
        BY <4>1, <4>2
    <3> QED
      BY <3>3, <3>6, <3>8
  <2> HIDE DEF P
  <2>4. n - 1 \in P
    BY <1>0, <1>2, <2>2, <2>3, AllNumbers
  <2>5. (n - 1) + 1 = n
    BY <1>0
  <2> QED
    BY <1>0, <2>1, <2>4, <2>5 DEF P
<1> QED
  BY <1>1, <1>2

\* A sequence with an item put into a place of it.
LEMMA InsertIs ==
  ASSUME NEW S, NEW s \in Seq(S), NEW x \in S, NEW p \in 1 .. Len(s) + 1
  PROVE  /\ InsertAt(s, p, x) \in Seq(S) /\ Len(InsertAt(s, p, x)) = Len(s) + 1
         /\ \A i \in 1 .. Len(s) + 1 :
              InsertAt(s, p, x)[i] = IF i < p THEN s[i] ELSE IF i = p THEN x ELSE s[i - 1]
<1> DEFINE a == SubSeq(s, 1, p - 1)
           b == SubSeq(s, p, Len(s))
<1>1. PICK n \in Nat : n = Len(s)
  OBVIOUS
<1>2. p \in 1 .. n + 1 /\ p \in Nat /\ \A j \in 1 .. n : s[j] \in S
  BY <1>1
<1>3. a \in Seq(S) /\ Len(a) = p - 1 /\ \A i \in 1 .. p - 1 : a[i] = s[i]
  BY <1>1, <1>2
<1>4. b \in Seq(S) /\ Len(b) = (n + 1) - p /\ \A i \in 1 .. (n + 1) - p : b[i] = s[(p + i) - 1]
  BY <1>1, <1>2
<1>5. InsertAt(s, p, x) = (a \o <<x>>) \o b
  BY DEF InsertAt
<1> HIDE DEF a, b
<1> DEFINE c == a \o <<x>>
<1>6. c \in Seq(S) /\ Len(c) = p /\ \A i \in 1 .. p : c[i] = IF i < p THEN s[i] ELSE x
  BY <1>2, <1>3
<1> HIDE DEF c
<1>7. c \o b \in Seq(S) /\ Len(c \o b) = n + 1
  <2>1. c \o b \in Seq(S) /\ Len(c \o b) = p + ((n + 1) - p)
    BY <1>4, <1>6, ConcatProperties
  <2>2. p + ((n + 1) - p) = n + 1
    BY <1>2
  <2> QED
    BY <2>1, <2>2
<1>8. ASSUME NEW i \in 1 .. n + 1
      PROVE  (c \o b)[i] = IF i < p THEN s[i] ELSE IF i = p THEN x ELSE s[i - 1]
  <2>1. CASE i <= p
    <3>1. (c \o b)[i] = c[i]
      BY <1>2, <1>4, <1>6, <2>1
    <3> QED
      BY <1>2, <1>6, <2>1, <3>1
  <2>2. CASE i > p
    <3>1. (c \o b)[i] = b[i - p]
      BY <1>2, <1>4, <1>6, <2>2
    <3>2. i - p \in 1 .. (n + 1) - p /\ (p + (i - p)) - 1 = i - 1
      BY <1>2, <2>2
    <3>3. b[i - p] = s[i - 1]
      BY <1>4, <3>2
    <3> QED
      BY <1>2, <2>2, <3>1, <3>3
  <2>3. i <= p \/ i > p
    BY <1>2
  <2> QED
    BY <2>1, <2>2, <2>3
<1> QED
  BY <1>1, <1>5, <1>7, <1>8 DEF c

\* The highest score comes first.
Falls(s) == \A i, j \in 1 .. Len(s) : i < j => s[i].score >= s[j].score

\* Items with scores.
Scored(S) == \A x \in S : x.score \in Nat

\* An item put into one of its places leaves the order.
LEMMA InsertFalls ==
  ASSUME NEW S, Scored(S), NEW s \in Seq(S), Falls(s), NEW x \in S, NEW p \in Places(s, x)
  PROVE  Falls(InsertAt(s, p, x))
<1>1. PICK n \in Nat : n = Len(s)
  OBVIOUS
<1>2. PICK t : t = InsertAt(s, p, x)
  OBVIOUS
<1>3. /\ p \in 1 .. n + 1
      /\ \A i \in 1 .. p - 1 : s[i].score >= x.score
      /\ \A i \in p .. n : x.score >= s[i].score
  BY <1>1 DEF Places
<1>4. /\ Len(t) = n + 1
      /\ \A i \in 1 .. n + 1 : t[i] = IF i < p THEN s[i] ELSE IF i = p THEN x ELSE s[i - 1]
  BY <1>1, <1>2, <1>3, InsertIs
<1>5. x.score \in Nat /\ \A i \in 1 .. n : s[i].score \in Nat
  BY <1>1 DEF Scored
<1>6. ASSUME NEW i \in 1 .. n + 1, NEW j \in 1 .. n + 1, i < j PROVE t[i].score >= t[j].score
  <2>1. CASE j < p
    <3>1. t[i] = s[i] /\ t[j] = s[j] /\ i \in 1 .. n /\ j \in 1 .. n
      BY <1>3, <1>4, <1>6, <2>1
    <3> QED
      BY <1>1, <1>6, <3>1 DEF Falls
  <2>2. CASE j = p
    <3>1. t[i] = s[i] /\ t[j] = x /\ i \in 1 .. p - 1
      BY <1>3, <1>4, <1>6, <2>2
    <3> QED
      BY <1>3, <3>1
  <2>3. CASE j > p /\ i < p
    <3>1. t[i] = s[i] /\ t[j] = s[j - 1] /\ i \in 1 .. p - 1 /\ j - 1 \in p .. n /\ j - 1 \in 1 .. n /\ i \in 1 .. n
      BY <1>3, <1>4, <2>3
    <3>2. s[i].score >= x.score /\ x.score >= s[j - 1].score
      BY <1>3, <3>1
    <3>3. s[i].score \in Nat /\ s[j - 1].score \in Nat
      BY <1>5, <3>1
    <3> QED
      BY <1>5, <3>1, <3>2, <3>3
  <2>4. CASE j > p /\ i = p
    <3>1. t[i] = x /\ t[j] = s[j - 1] /\ j - 1 \in p .. n
      BY <1>3, <1>4, <2>4
    <3> QED
      BY <1>3, <3>1
  <2>5. CASE j > p /\ i > p
    <3>1. t[i] = s[i - 1] /\ t[j] = s[j - 1] /\ i - 1 \in 1 .. n /\ j - 1 \in 1 .. n /\ i - 1 < j - 1
      BY <1>3, <1>4, <1>6, <2>5
    <3> QED
      BY <1>1, <3>1 DEF Falls
  <2> QED
    BY <1>3, <2>1, <2>2, <2>3, <2>4, <2>5
<1> QED
  BY <1>2, <1>4, <1>6 DEF Falls

\* A sequence of k of them, the highest score first.
SortOf(S, k, t) == t \in Seq(S) /\ Len(t) = k /\ Falls(t)

\* What the sort makes of items has as many items, all of them of the same kind,
\* the highest score first.
LEMMA SortedIs ==
  ASSUME NEW S, Scored(S), NEW items \in Seq(S), NEW t \in Sorted(items)
  PROVE  SortOf(S, Len(items), t)
<1>1. PICK n \in Nat : n = Len(items)
  OBVIOUS
<1>2. DOMAIN items = 1 .. n /\ \A i \in 1 .. n : items[i] \in S
  BY <1>1
<1>3. PICK f : FoldsTo(f, "sort", items, n) /\ Sorted(items) = f[1 .. n]
  BY <1>2, SortedIsFold
<1>4. /\ f[1 .. 0] = Base("sort")
      /\ \A k \in Nat : k + 1 <= n => f[1 .. k + 1] = Folded("sort", f[1 .. k], items[k + 1])
  BY <1>3, FoldStep
<1> DEFINE P == {k \in Nat : k <= n => \A s \in f[1 .. k] : SortOf(S, k, s)}
<1>5. 0 \in P
  <2>1. f[1 .. 0] = {<<>>}
    BY <1>4 DEF Base
  <2>2. SortOf(S, 0, <<>>)
    BY DEF SortOf, Falls
  <2> QED
    BY <2>1, <2>2
<1>6. ASSUME NEW k \in Nat, k \in P PROVE k + 1 \in P
  <2>1. SUFFICES ASSUME k + 1 <= n, NEW r \in f[1 .. k + 1] PROVE SortOf(S, k + 1, r)
    OBVIOUS
  <2>2. PICK x : x = items[k + 1]
    OBVIOUS
  <2>3. x \in S
    BY <1>2, <2>1, <2>2
  <2>4. f[1 .. k + 1] = UNION {{InsertAt(s, p, x) : p \in Places(s, x)} : s \in f[1 .. k]}
    <3>1. \A v : Folded("sort", v, x) = UNION {{InsertAt(s, p, x) : p \in Places(s, x)} : s \in v}
      BY DEF Folded
    <3> QED
      BY <1>4, <2>1, <2>2, <3>1
  <2>5. PICK s \in f[1 .. k] : r \in {InsertAt(s, p, x) : p \in Places(s, x)}
    BY <2>1, <2>4
  <2>6. PICK p \in Places(s, x) : r = InsertAt(s, p, x)
    BY <2>5
  <2>7. s \in Seq(S) /\ Len(s) = k /\ Falls(s)
    BY <1>6, <2>1, <2>5 DEF SortOf
  <2>8. p \in 1 .. Len(s) + 1
    BY DEF Places
  <2>9. r \in Seq(S) /\ Len(r) = Len(s) + 1
    BY <2>3, <2>6, <2>7, <2>8, InsertIs
  <2>10. Falls(r)
    BY <2>3, <2>6, <2>7, InsertFalls
  <2> QED
    BY <2>7, <2>9, <2>10 DEF SortOf
<1> HIDE DEF P
<1>7. n \in P
  BY <1>5, <1>6, AllNumbers
<1> QED
  BY <1>1, <1>3, <1>7 DEF P

---------------------------------------------------------------------------
(* The references made of the items.                                       *)

\* The least of some numbers is one of them.
LEMMA MinIs ==
  ASSUME NEW s, s \subseteq Nat, s # {}
  PROVE  Min(s) \in s /\ \A y \in s : Min(s) <= y
<1>1. PICK m \in s : \A k \in s : ~ (<<k, m>> \in LessThan)
  BY LessThanWellFounded, WFMin
<1>2. ASSUME NEW y \in s PROVE m <= y
  <2>1. ~ (y < m)
    BY <1>1 DEF LessThan
  <2>2. y \in Nat /\ m \in Nat
    OBVIOUS
  <2> QED
    BY <2>1, <2>2
<1> QED
  BY <1>1, <1>2 DEF Min

\* A sequence, the concatenation of two, and a prefix of one.
LEMMA SeqIs ==
  ASSUME NEW S, NEW s \in Seq(S)
  PROVE  Len(s) \in Nat /\ DOMAIN s = 1 .. Len(s) /\ \A i \in 1 .. Len(s) : s[i] \in S
  OBVIOUS

\* A prefix of a sequence.
LEMMA PrefixIs ==
  ASSUME NEW S, NEW s \in Seq(S), NEW n \in Nat, n <= Len(s)
  PROVE  /\ SubSeq(s, 1, n) \in Seq(S) /\ Len(SubSeq(s, 1, n)) = n
         /\ \A i \in 1 .. n : SubSeq(s, 1, n)[i] = s[i]
  OBVIOUS

\* The lesser of two numbers.
LEMMA MinOfTwo ==
  ASSUME NEW a \in Nat, NEW b \in Nat
  PROVE  Min({a, b}) = IF a <= b THEN a ELSE b
<1>1. PICK m : m = Min({a, b})
  OBVIOUS
<1>2. m \in {a, b} /\ m <= a /\ m <= b
  BY <1>1, MinIs
<1> QED
  BY <1>1, <1>2

\* The greater of two numbers.
LEMMA MaxOfTwo ==
  ASSUME NEW a \in Nat, NEW b \in Nat
  PROVE  Max({a, b}) = IF a <= b THEN b ELSE a
<1>1. PICK m : m = IF a <= b THEN b ELSE a
  OBVIOUS
<1>2. \A x \in {a, b} : (\A y \in {a, b} : x >= y) <=> x = m
  BY <1>1
<1>3. m \in {a, b}
  BY <1>1
<1>4. m = CHOOSE x \in {a, b} : \A y \in {a, b} : x >= y
  BY <1>2, <1>3
<1> QED
  BY <1>1, <1>4 DEF Max

\* A reference made of articles: a text that is not empty, of its own news, and
\* cut unless it is of one article.
Merged(A) ==
  {r \in [news : {Index[a].news : a \in A}, text : Seq(A)] :
     /\ Len(r.text) > 0
     /\ Len(r.text) > question.chunkSize => Cardinality(Text(r)) = 1
     /\ \A a \in Text(r) : Index[a].news = r.news}

\* Each news has one reference.
Distinct(m) == \A i, j \in 1 .. Len(m) : i # j => m[i].news # m[j].news

\* The settings of the call.
Limits == {question.chunkSize, question.chunkNumber} \subseteq Nat \ {0}

\* The text of an article.
LEMMA TextIs ==
  ASSUME NEW A, A \subseteq Article, NEW a \in A
  PROVE  LET text == [u \in 1 .. Index[a].units |-> a]
         IN  text \in Seq(A) /\ Len(text) = Index[a].units /\ Index[a].units \in Nat \ {0}
<1>1. Index[a].units \in Nat \ {0}
  BY ArticlesAssumption
<1>2. PICK n \in Nat \ {0} : n = Index[a].units
  BY <1>1
<1> QED
  BY <1>2

\* A chunk of a news that has no reference yet is one.
LEMMA NewReference ==
  ASSUME NEW A, A \subseteq Article, NEW a \in A
  PROVE  [news |-> Index[a].news, text |-> [u \in 1 .. Index[a].units |-> a]] \in Merged(A)
<1> DEFINE text == [u \in 1 .. Index[a].units |-> a]
           r == [news |-> Index[a].news, text |-> text]
<1>1. text \in Seq(A) /\ Len(text) = Index[a].units /\ Index[a].units \in Nat \ {0}
  BY TextIs
<1>2. DOMAIN text = 1 .. Index[a].units /\ \A u \in DOMAIN text : text[u] = a
  OBVIOUS
<1> HIDE DEF text
<1>3. Text(r) = {a}
  <2>1. 1 \in DOMAIN text
    BY <1>1, <1>2
  <2> QED
    BY <1>2, <2>1 DEF Text
<1>4. Cardinality(Text(r)) = 1
  BY <1>3, FS_Singleton
<1>5. r \in [news : {Index[b].news : b \in A}, text : Seq(A)] /\ r.news = Index[a].news /\ r.text = text
  BY <1>1
<1> HIDE DEF r
<1>6. Len(r.text) > 0
  BY <1>1, <1>5
<1>7. r \in Merged(A)
  BY <1>3, <1>4, <1>5, <1>6 DEF Merged
<1> QED
  BY <1>7 DEF r, text

\* A reference that a chunk of its news is appended to, and that is then cut.
LEMMA LongerReference ==
  ASSUME NEW A, A \subseteq Article, NEW a \in A, Limits, NEW r \in Merged(A), r.news = Index[a].news,
         NEW text, text = [u \in 1 .. Index[a].units |-> a]
  PROVE  [r EXCEPT !.text = SubSeq(@ \o text, 1, Min({question.chunkSize, Len(@ \o text)}))] \in Merged(A)
<1>1. text \in Seq(A) /\ DOMAIN text = 1 .. Len(text) /\ \A u \in DOMAIN text : text[u] = a
  BY TextIs
<1>2. /\ r \in [news : {Index[b].news : b \in A}, text : Seq(A)] /\ Len(r.text) > 0
      /\ \A b \in Text(r) : Index[b].news = r.news
  BY DEF Merged
<1>3. r.text \in Seq(A) /\ r = [news |-> r.news, text |-> r.text]
  BY <1>2
<1>21. PICK c : c = r.text \o text
  OBVIOUS
<1>4. /\ c \in Seq(A) /\ Len(c) = Len(r.text) + Len(text)
      /\ \A i \in 1 .. Len(r.text) + Len(text) :
           c[i] = IF i <= Len(r.text) THEN r.text[i] ELSE text[i - Len(r.text)]
  <2>1. PICK t \in Seq(A) : t = r.text
    BY <1>3
  <2>2. c = t \o text
    BY <1>21, <2>1
  <2>3. /\ c \in Seq(A) /\ Len(c) = Len(t) + Len(text)
        /\ \A i \in 1 .. Len(t) + Len(text) : c[i] = IF i <= Len(t) THEN t[i] ELSE text[i - Len(t)]
    BY <1>1, <2>2, ConcatProperties
  <2> QED
    BY <2>1, <2>3
<1>20. PICK k \in Nat, l \in Nat : k = Len(r.text) /\ l = Len(text) /\ k > 0
  BY <1>1, <1>2, <1>3, SeqIs
<1>5. \A i \in 1 .. k + l : Index[c[i]].news = r.news
  <2>1. SUFFICES ASSUME NEW i \in 1 .. k + l PROVE Index[c[i]].news = r.news
    OBVIOUS
  <2>2. c[i] = IF i <= k THEN r.text[i] ELSE text[i - k]
    BY <1>4, <1>20
  <2>3. CASE i <= k
    <3>1. c[i] = r.text[i] /\ i \in DOMAIN r.text
      BY <1>3, <1>20, <2>2, <2>3, SeqIs
    <3> QED
      BY <1>2, <3>1 DEF Text
  <2>4. CASE ~(i <= k)
    <3>1. c[i] = text[i - k] /\ i - k \in 1 .. l
      BY <2>2, <2>4
    <3> QED
      BY <1>1, <1>20, <3>1
  <2> QED
    BY <2>3, <2>4
<1>6. PICK m \in Nat : m = Len(c) /\ m > 0 /\ m = k + l
  <2>1. Len(c) = k + l /\ k + l \in Nat /\ k + l > 0
    <3>1. Len(c) = Len(r.text) + Len(text) /\ k > 0 /\ k = Len(r.text) /\ l = Len(text)
      BY <1>4, <1>20
    <3> QED
      BY ONLY <3>1, k \in Nat, l \in Nat
  <2> QED
    BY <2>1
<1>7. PICK z \in Nat \ {0} : z = question.chunkSize
  BY DEF Limits
<1>8. PICK n \in Nat : n = Min({question.chunkSize, Len(c)})
  BY <1>6, <1>7, MinOfTwo
<1>9. n > 0 /\ n <= z /\ n <= m
  <2>1. n = IF z <= m THEN z ELSE m
    <3>1. n = Min({z, m})
      BY <1>6, <1>7, <1>8
    <3> QED
      BY <3>1, MinOfTwo
  <2>2. m > 0 /\ z > 0
    BY <1>6
  <2> QED
    BY <2>1, <2>2
<1>22. PICK s : s = SubSeq(c, 1, n)
  OBVIOUS
<1>10. s \in Seq(A) /\ Len(s) = n /\ \A i \in 1 .. n : s[i] = c[i]
  BY <1>4, <1>6, <1>9, <1>22, PrefixIs
<1>11. [r EXCEPT !.text = SubSeq(@ \o text, 1, Min({question.chunkSize, Len(@ \o text)}))]
         = [news |-> r.news, text |-> s]
  <2>1. \A e : [r EXCEPT !.text = e] = [news |-> r.news, text |-> e]
    BY <1>3
  <2> QED
    BY <1>8, <1>21, <1>22, <2>1
<1>12. PICK t : t = [news |-> r.news, text |-> s]
  OBVIOUS
<1>13. t \in [news : {Index[b].news : b \in A}, text : Seq(A)] /\ t.text = s /\ t.news = r.news
  BY <1>2, <1>10, <1>12
<1>14. \A b \in Text(t) : Index[b].news = t.news
  <2>1. DOMAIN s = 1 .. n
    BY <1>10
  <2>2. \A i \in 1 .. n : Index[s[i]].news = r.news
    BY <1>5, <1>6, <1>9, <1>10
  <2> QED
    BY <1>13, <2>1, <2>2 DEF Text
<1>15. ~(Len(t.text) > question.chunkSize) /\ Len(t.text) > 0
  BY <1>7, <1>9, <1>10, <1>13
<1>16. t \in Merged(A)
  BY <1>13, <1>14, <1>15 DEF Merged
<1> QED
  BY <1>11, <1>12, <1>16

\* References made of articles of A.
References(A, m) == m \in Seq(Merged(A)) /\ Distinct(m)

\* A chunk joins the references.
LEMMA MergeChunkIs ==
  ASSUME NEW A, A \subseteq Article, NEW a \in A, Limits, NEW m, References(A, m)
  PROVE  References(A, MergeChunk(m, a)) /\ Len(MergeChunk(m, a)) \in {Len(m), Len(m) + 1}
         /\ Len(MergeChunk(m, a)) > 0
<1> DEFINE text == [u \in 1 .. Index[a].units |-> a]
           same == {i \in DOMAIN m : m[i].news = Index[a].news}
<1>1. PICK n \in Nat : n = Len(m) /\ DOMAIN m = 1 .. n /\ \A i \in 1 .. n : m[i] \in Merged(A)
  BY DEF References
<1>2. m \in Seq(Merged(A)) /\ \A i, j \in 1 .. n : i # j => m[i].news # m[j].news
  BY <1>1 DEF References, Distinct
<1>3. CASE same = {}
  <2>1. PICK r : r = [news |-> Index[a].news, text |-> text]
    OBVIOUS
  <2>2. r \in Merged(A) /\ r.news = Index[a].news
    BY <2>1, NewReference
  <2>3. MergeChunk(m, a) = Append(m, r)
    BY <1>3, <2>1 DEF MergeChunk
  <2>4. PICK t : t = Append(m, r)
    OBVIOUS
  <2>5. /\ t \in Seq(Merged(A)) /\ Len(t) = n + 1 /\ t[n + 1] = r
        /\ \A i \in 1 .. n : t[i] = m[i]
    BY <1>1, <1>2, <2>2, <2>4, AppendProperties
  <2>6. \A i \in 1 .. n : m[i].news # r.news
    BY <1>1, <1>3, <2>2
  <2>7. Distinct(t)
    <3>1. \A i \in 1 .. n + 1 : i \in 1 .. n \/ i = n + 1
      OBVIOUS
    <3> QED
      BY <1>2, <2>5, <2>6, <3>1 DEF Distinct
  <2> QED
    BY <1>1, <2>3, <2>4, <2>5, <2>7 DEF References
<1>4. CASE same # {}
  <2>1. PICK k : k = Min(same)
    OBVIOUS
  <2>2. k \in 1 .. n /\ m[k].news = Index[a].news
    <3>1. same \subseteq Nat
      BY <1>1
    <3>2. k \in same
      BY <1>4, <2>1, <3>1, MinIs
    <3> QED
      BY <1>1, <3>2
  <2>3. PICK r : r = [m[k] EXCEPT !.text = SubSeq(@ \o text, 1, Min({question.chunkSize, Len(@ \o text)}))]
    OBVIOUS
  <2>4. r \in Merged(A)
    BY <1>1, <2>2, <2>3, LongerReference
  <2>5. r.news = m[k].news
    <3>1. m[k] \in [news : {Index[b].news : b \in A}, text : Seq(A)]
      BY <1>1, <2>2 DEF Merged
    <3>2. PICK x : x = m[k]
      OBVIOUS
    <3>3. PICK y : r = [x EXCEPT !.text = y]
      BY <2>3, <3>2
    <3> QED
      BY <3>1, <3>2, <3>3
  <2>6. MergeChunk(m, a) = [m EXCEPT ![k] = r]
    BY <1>4, <2>1, <2>3 DEF MergeChunk
  <2>7. PICK t : t = [m EXCEPT ![k] = r]
    OBVIOUS
  <2>8. t \in Seq(Merged(A)) /\ Len(t) = n /\ \A i \in 1 .. n : t[i] = IF i = k THEN r ELSE m[i]
    BY <1>1, <1>2, <2>2, <2>4, <2>7, ExceptSeq
  <2>9. Distinct(t)
    <3>1. \A i \in 1 .. n : t[i].news = m[i].news
      BY <2>5, <2>8
    <3> QED
      BY <1>2, <2>8, <3>1 DEF Distinct
  <2> QED
    BY <1>1, <2>2, <2>6, <2>7, <2>8, <2>9 DEF References
<1> QED
  BY <1>3, <1>4

\* The references made of items: no more than may be, and some if there are items.
LEMMA MergeChunksIs ==
  ASSUME NEW A, A \subseteq Article, Limits, NEW items \in Seq([article : A, score : Nat])
  PROVE  /\ References(A, MergeChunks(items))
         /\ Len(MergeChunks(items)) <= question.chunkNumber
<1>1. PICK n \in Nat : n = Len(items)
  OBVIOUS
<1>2. DOMAIN items = 1 .. n /\ \A i \in 1 .. n : items[i].article \in A
  <2>1. \A i \in 1 .. n : items[i] \in [article : A, score : Nat]
    BY <1>1, SeqIs
  <2> QED
    BY <1>1, <2>1
<1>3. PICK f : FoldsTo(f, "merge", items, n) /\ MergeChunks(items) = f[1 .. n]
  BY <1>2, MergeIsFold
<1>4. /\ f[1 .. 0] = Base("merge")
      /\ \A k \in Nat : k + 1 <= n => f[1 .. k + 1] = Folded("merge", f[1 .. k], items[k + 1])
  BY <1>3, FoldStep
<1>5. PICK z \in Nat \ {0} : z = question.chunkNumber
  BY DEF Limits
<1> DEFINE P == {k \in Nat : k <= n => References(A, f[1 .. k]) /\ Len(f[1 .. k]) <= z}
<1>6. 0 \in P
  <2>1. f[1 .. 0] = <<>>
    BY <1>4 DEF Base
  <2>2. References(A, <<>>)
    BY DEF References, Distinct
  <2> QED
    BY <2>1, <2>2
<1>7. ASSUME NEW k \in Nat, k \in P PROVE k + 1 \in P
  <2>1. SUFFICES ASSUME k + 1 <= n PROVE References(A, f[1 .. k + 1]) /\ Len(f[1 .. k + 1]) <= z
    OBVIOUS
  <2>2. PICK v : v = f[1 .. k]
    OBVIOUS
  <2>3. References(A, v) /\ Len(v) <= z
    BY <1>7, <2>1, <2>2
  <2>4. \A x : Folded("merge", v, x) = IF v # <<>> /\ Len(v) >= z THEN v ELSE MergeChunk(v, x.article)
    BY <1>5 DEF Folded
  <2>5. f[1 .. k + 1] = IF v # <<>> /\ Len(v) >= z THEN v ELSE MergeChunk(v, items[k + 1].article)
    BY <1>4, <2>1, <2>2, <2>4
  <2>6. CASE v # <<>> /\ Len(v) >= z
    BY <2>3, <2>5, <2>6
  <2>7. CASE ~(v # <<>> /\ Len(v) >= z)
    <3>1. PICK a \in A : a = items[k + 1].article
      BY <1>2, <2>1
    <3>2. References(A, MergeChunk(v, a)) /\ Len(MergeChunk(v, a)) \in {Len(v), Len(v) + 1}
      BY <2>3, MergeChunkIs
    <3>3. Len(v) \in Nat /\ Len(v) < z
      <4>1. v \in Seq(Merged(A))
        BY <2>3 DEF References
      <4>2. v = <<>> => Len(v) = 0
        OBVIOUS
      <4>3. PICK l \in Nat : l = Len(v)
        BY <4>1
      <4> QED
        BY <2>3, <2>7, <4>2, <4>3
    <3>4. PICK l \in Nat : l = Len(v)
      BY <3>3
    <3>5. Len(MergeChunk(v, a)) <= z
      BY <3>2, <3>3, <3>4
    <3> QED
      BY <2>5, <2>7, <3>1, <3>2, <3>5
  <2> QED
    BY <2>6, <2>7
<1> HIDE DEF P
<1>8. n \in P
  BY <1>6, <1>7, AllNumbers
<1> QED
  BY <1>3, <1>5, <1>8 DEF P

---------------------------------------------------------------------------
(* What a query asks for.                                                  *)

\* What a query for OpenSearch asks for: of a text strategy the fields asked for,
\* the excluded text and the ranges, of a vector strategy nothing.
AsksFor(o, req, q) ==
  LET s == o.strategy
  IN  IF s.kind = "text"
      THEN /\ q.filter = FilterQuery(s, req.query) \union IF s.scoring = "harmonic" THEN {Reviewed} ELSE {}
           /\ q.mustNot = MustNotQuery(s, req.exclude)
           /\ q.must = Ranges(Filters(req))
           /\ q.form \in {"bool", "function_score"}
      ELSE Ranges(Filters(req)) = {} /\ q.filter = {} /\ q.mustNot = {} /\ q.must = {}

\* A query of OpenSearch.
IsQuery(q) ==
  q = [kind |-> "query", form |-> q.form, should |-> q.should, filter |-> q.filter,
       mustNot |-> q.mustNot, must |-> q.must]

\* A query is no error.
LEMMA QueryIsNoError ==
  ASSUME NEW q, q.kind = "query"
  PROVE  q \notin {ConfigError, RequestError, Panic}
<1>1. ConfigError.kind = "config error" /\ RequestError.kind = "request error" /\ Panic.kind = "panic"
  BY DEF ConfigError, RequestError, Panic
<1> QED
  BY <1>1

\* The query of a text strategy, before the ranges join it.
LEMMA TextQueryAsks ==
  ASSUME NEW s, NEW req, NEW q, q = TextQuery(s, req), q.kind = "query"
  PROVE  /\ IsQuery(q)
         /\ q.filter = FilterQuery(s, req.query) \union IF s.scoring = "harmonic" THEN {Reviewed} ELSE {}
         /\ q.mustNot = MustNotQuery(s, req.exclude)
         /\ q.must = {} /\ q.form \in {"bool", "function_score"}
<1>1. PICK f, h, m, n : /\ f = IF s.scoring = "harmonic" THEN "function_score" ELSE "bool"
                        /\ h = ShouldQuery(s, req.query)
                        /\ m = FilterQuery(s, req.query) \union IF s.scoring = "harmonic" THEN {Reviewed} ELSE {}
                        /\ n = MustNotQuery(s, req.exclude)
  OBVIOUS
<1>2. q = ConfigError \/ q = [kind |-> "query", form |-> f, should |-> h, filter |-> m, mustNot |-> n, must |-> {}]
  BY <1>1 DEF TextQuery
<1>3. q # ConfigError
  BY QueryIsNoError
<1>4. IsQuery(q) /\ q.form = f /\ q.filter = m /\ q.mustNot = n /\ q.must = {}
  BY <1>2, <1>3 DEF IsQuery
<1> QED
  BY <1>1, <1>4

\* That of a vector strategy.
LEMMA VectorQueryAsks ==
  ASSUME NEW s, NEW req, NEW q, q = VectorQuery(s, req), q.kind = "query"
  PROVE  IsQuery(q) /\ q.form = "knn" /\ q.filter = {} /\ q.mustNot = {} /\ q.must = {}
<1>1. q \in {Panic, RequestError, ConfigError}
      \/ q = [kind |-> "query", form |-> "knn", should |-> {}, filter |-> {}, mustNot |-> {}, must |-> {}]
  BY DEF VectorQuery
<1>2. q \notin {Panic, RequestError, ConfigError}
  BY QueryIsNoError
<1> QED
  BY <1>1, <1>2 DEF IsQuery

\* The ranges join the must of a bool query.
LEMMA RangesJoin ==
  ASSUME NEW q, NEW ranges, NEW w, w = WithRanges(q, ranges), w.kind = "query"
  PROVE  /\ q.kind = "query" /\ (ranges # {} => q.form = "bool")
         /\ IsQuery(q) => /\ IsQuery(w) /\ w.form = q.form /\ w.filter = q.filter
                          /\ w.mustNot = q.mustNot /\ w.must = q.must \union ranges
<1>1. CASE q.kind # "query" \/ ranges = {}
  <2>1. w = q
    BY <1>1 DEF WithRanges
  <2> QED
    BY <1>1, <2>1
<1>2. CASE ~(q.kind # "query" \/ ranges = {})
  <2>1. w = IF q.form # "bool" THEN Panic ELSE [q EXCEPT !.must = q.must \union ranges]
    BY <1>2 DEF WithRanges
  <2>2. q.form = "bool"
    BY <2>1 DEF Panic
  <2>3. PICK m : m = q.must \union ranges
    OBVIOUS
  <2>4. w = [q EXCEPT !.must = m]
    BY <2>1, <2>2, <2>3
  <2>5. IsQuery(q) => /\ IsQuery(w) /\ w.form = q.form /\ w.filter = q.filter
                      /\ w.mustNot = q.mustNot /\ w.must = m
    BY <2>4 DEF IsQuery
  <2> QED
    BY <1>2, <2>2, <2>3, <2>5
<1> QED
  BY <1>1, <1>2

\* A compound query differs in its form.
LEMMA CompoundAsks ==
  ASSUME NEW w, NEW c, NEW t, t = Compound(w, c), t.kind = "query"
  PROVE  /\ w.kind = "query"
         /\ IsQuery(w) => /\ IsQuery(t) /\ t.filter = w.filter /\ t.mustNot = w.mustNot /\ t.must = w.must
                          /\ w.form \in {"bool", "function_score"} => t.form \in {"bool", "function_score"}
<1>1. CASE w.kind # "query" \/ c = None
  <2>1. t = w
    BY <1>1 DEF Compound
  <2> QED
    BY <2>1
<1>2. CASE ~(w.kind # "query" \/ c = None)
  <2>1. PICK f : f = IF w.form = "bool" THEN "function_score" ELSE w.form
    OBVIOUS
  <2>2. t = ConfigError \/ t = [w EXCEPT !.form = f]
    BY <1>2, <2>1 DEF Compound
  <2>3. t = [w EXCEPT !.form = f]
    BY <2>2, QueryIsNoError
  <2>4. IsQuery(w) => /\ IsQuery(t) /\ t.filter = w.filter /\ t.mustNot = w.mustNot /\ t.must = w.must
                      /\ t.form = f
    BY <2>3 DEF IsQuery
  <2> QED
    BY <1>2, <2>1, <2>4
<1> QED
  BY <1>1, <1>2

\* The query of a request, if there is one.
LEMMA TranslateAsks ==
  ASSUME NEW o, NEW req, NEW t, t = Translate(o, req), t.kind = "query"
  PROVE  o # None /\ o.strategy # None /\ AsksFor(o, req, t)
<1> DEFINE s == o.strategy
<1>1. /\ o # None /\ o.strategy # None
      /\ t = Compound(WithRanges(IF s.kind = "text" THEN TextQuery(s, req) ELSE VectorQuery(s, req),
                                 Ranges(Filters(req))), o.compound)
  BY DEF Translate, RequestError, ConfigError
<1>2. PICK q : q = IF s.kind = "text" THEN TextQuery(s, req) ELSE VectorQuery(s, req)
  OBVIOUS
<1>3. PICK ranges : ranges = Ranges(Filters(req))
  OBVIOUS
<1>4. PICK w : w = WithRanges(q, ranges)
  OBVIOUS
<1>5. t = Compound(w, o.compound)
  BY <1>1, <1>2, <1>3, <1>4
<1>6. w.kind = "query"
  BY <1>5, CompoundAsks
<1>7. q.kind = "query"
  BY <1>4, <1>6, RangesJoin
<1>8. CASE s.kind = "text"
  <2>1. /\ IsQuery(q)
        /\ q.filter = FilterQuery(s, req.query) \union IF s.scoring = "harmonic" THEN {Reviewed} ELSE {}
        /\ q.mustNot = MustNotQuery(s, req.exclude)
        /\ q.must = {} /\ q.form \in {"bool", "function_score"}
    BY <1>2, <1>7, <1>8, TextQueryAsks
  <2>2. /\ IsQuery(w) /\ w.form = q.form /\ w.filter = q.filter
        /\ w.mustNot = q.mustNot /\ w.must = ranges
    <3>1. /\ IsQuery(w) /\ w.form = q.form /\ w.filter = q.filter
          /\ w.mustNot = q.mustNot /\ w.must = q.must \union ranges
      <4>1. IsQuery(q)
        BY <2>1
      <4> QED
        BY <1>4, <1>6, <4>1, RangesJoin
    <3> QED
      BY <2>1, <3>1
  <2>3. /\ t.filter = w.filter /\ t.mustNot = w.mustNot /\ t.must = w.must
        /\ t.form \in {"bool", "function_score"}
    BY <1>5, <2>1, <2>2, CompoundAsks
  <2> QED
    BY <1>1, <1>3, <1>8, <2>1, <2>2, <2>3 DEF AsksFor
<1>9. CASE s.kind # "text"
  <2>1. IsQuery(q) /\ q.form = "knn" /\ q.filter = {} /\ q.mustNot = {} /\ q.must = {}
    BY <1>2, <1>7, <1>9, VectorQueryAsks
  <2>2. ranges = {} /\ IsQuery(w) /\ w.filter = q.filter /\ w.mustNot = q.mustNot /\ w.must = q.must \union ranges
    BY <1>4, <1>6, <2>1, RangesJoin
  <2>3. t.filter = w.filter /\ t.mustNot = w.mustNot /\ t.must = w.must
    BY <1>5, <2>2, CompoundAsks
  <2> QED
    BY <1>1, <1>3, <1>9, <2>1, <2>2, <2>3 DEF AsksFor
<1> QED
  BY <1>1, <1>8, <1>9

\* What an article that OpenSearch may return honours.
Honours(o, req, a, t) ==
  LET s == o.strategy
  IN  /\ \A f \in Ranges(Filters(req)) : InRange(Index[a], f, t)
      /\ s.kind = "text" => \A k \in DOMAIN s.fields :
           /\ ~Satisfies(Index[a], Match(SourceField(s, k), req.exclude), t)
           /\ k \in PlainFilter(s, req.query) => Satisfies(Index[a], Match(SourceField(s, k), req.query[k]), t)

\* An article that may be returned honours the request: a text that is excluded,
\* or asked for in a filter, is one of its clauses, and no field has an empty text.
LEMMA EligibleHonours ==
  ASSUME NEW o, NEW req, NEW q, q = Translate(o, req), q.kind = "query",
         NEW a \in Article, NEW t, Eligible(Index[a], q, t)
  PROVE  Honours(o, req, a, t)
<1> DEFINE s == o.strategy
           doc == Index[a]
<1>1. AsksFor(o, req, q)
  BY TranslateAsks
<1>2. ASSUME NEW f \in Ranges(Filters(req)) PROVE InRange(doc, f, t)
  <2>1. f.kind = "range"
    BY <1>2 DEF Ranges
  <2>2. f \in q.must
    BY <1>1, <1>2 DEF AsksFor
  <2>3. Satisfies(doc, f, t)
    BY <2>2 DEF Eligible
  <2> QED
    BY <2>1, <2>3 DEF Satisfies
<1>3. ASSUME s.kind = "text", NEW k \in DOMAIN s.fields
      PROVE  ~Satisfies(doc, Match(SourceField(s, k), req.exclude), t)
  <2> DEFINE m == Match(SourceField(s, k), req.exclude)
  <2>1. CASE req.exclude = ""
    <3>1. m.kind = "match" /\ m.field = SourceField(s, k) /\ m.value = ""
      BY <2>1 DEF Match
    <3>2. m.field \in DOMAIN doc.text => "" \notin doc.text[m.field]
      BY <3>1, IndexAssumption
    <3> HIDE DEF m
    <3> QED
      BY <3>1, <3>2 DEF Satisfies, m
  <2>2. CASE req.exclude # ""
    <3>1. m \in q.mustNot
      BY <1>1, <1>3, <2>2 DEF AsksFor, MustNotQuery
    <3> QED
      BY <3>1 DEF Eligible
  <2> QED
    BY <2>1, <2>2
<1>4. ASSUME s.kind = "text", NEW k \in PlainFilter(s, req.query)
      PROVE  Satisfies(doc, Match(SourceField(s, k), req.query[k]), t)
  <2>1. Match(SourceField(s, k), req.query[k]) \in q.filter
    BY <1>1, <1>4 DEF AsksFor, FilterQuery, MatchQueries
  <2> QED
    BY <2>1 DEF Eligible
<1> QED
  BY <1>2, <1>3, <1>4 DEF Honours

---------------------------------------------------------------------------
(* What a search finds.                                                    *)

\* An article with its score.
Item == [article : Article, score : Nat]

\* The articles that a request may find at a time.
FoundBy(c, req, t) == {a \in Article : Eligible(Index[a], Translate(c.searcher.opensearch, req), t)}

\* The items that a search may return with a configuration and at a time.
ItemsFor(c, req, t) ==
  {x \in Item : /\ Translate(c.searcher.opensearch, req).kind = "query"
                /\ x.article \in FoundBy(c, req, t)
                /\ c.search.reranker # None => x.score = Similarity[x.article]}

\* A list of them; that of a reranker is in order and long enough.
ListFor(c, req, t, items) ==
  /\ items \in Seq(ItemsFor(c, req, t))
  /\ c.search.reranker # None =>
       /\ Falls(items)
       /\ c.searcher.opensearch.strategy.kind = "text" =>
            Len(items) >= Min({req.size, Cardinality(FoundBy(c, req, t))})

\* It is a finite set.
LEMMA FoundIsFinite ==
  ASSUME NEW c, NEW req, NEW t
  PROVE  IsFiniteSet(FoundBy(c, req, t)) /\ Cardinality(FoundBy(c, req, t)) \in Nat
<1>1. FoundBy(c, req, t) \subseteq Article
  BY DEF FoundBy
<1>2. IsFiniteSet(Article)
  BY IndexAssumption
<1> QED
  BY <1>1, <1>2, FS_Subset, FS_CardinalityType

\* A sequence without repetition is one of its set.
LEMMA InjectiveIs ==
  ASSUME NEW S, NEW n \in Nat, NEW s \in Injective(n, S)
  PROVE  s \in Seq(S) /\ Len(s) = n
  BY DEF Injective

\* What OpenSearch answers.
LEMMA HitsAre ==
  ASSUME NEW q, NEW size \in Nat, NEW t, NEW s \in HitLists(Index, q, size, t),
         NEW hits, hits = {a \in Article : Eligible(Index[a], q, t)}
  PROVE  /\ s \in Seq(hits)
         /\ q.form # "knn" => Len(s) = IF Cardinality(hits) < size THEN Cardinality(hits) ELSE size
<1>1. hits = {a \in Article : Eligible(Index[a], q, t)}
  OBVIOUS
<1>2. IsFiniteSet(hits) /\ Cardinality(hits) \in Nat
  <2>1. hits \subseteq Article /\ IsFiniteSet(Article)
    BY <1>1, IndexAssumption
  <2> QED
    BY <2>1, FS_Subset, FS_CardinalityType
<1>3. PICK best \in Nat : best = IF Cardinality(hits) < size THEN Cardinality(hits) ELSE size
  BY <1>2
<1>4. CASE q.form = "knn"
  <2>1. s \in UNION {Injective(n, hits) : n \in 0 .. best}
    BY <1>1, <1>3, <1>4 DEF HitLists, Article
  <2>2. PICK n \in 0 .. best : s \in Injective(n, hits)
    BY <2>1
  <2>3. s \in Seq(hits)
    BY <2>2, InjectiveIs
  <2> QED
    BY <1>1, <1>4, <2>3
<1>5. CASE q.form # "knn"
  <2>1. s \in Injective(best, hits)
    BY <1>1, <1>3, <1>5 DEF HitLists, Article
  <2>2. s \in Seq(hits) /\ Len(s) = best
    BY <2>1, InjectiveIs
  <2> QED
    BY <1>1, <1>3, <2>2
<1> QED
  BY <1>4, <1>5

\* It is asked for enough.
LEMMA SizeIs ==
  ASSUME NEW req, req.size \in Nat
  PROVE  SizeOf(req) \in Nat /\ SizeOf(req) >= req.size
  BY DEF SizeOf, DefaultSize

\* The items of what OpenSearch answered, without a reranker.
LEMMA PlainList ==
  ASSUME NEW c, NEW req, NEW t, c.search.reranker = None,
         Translate(c.searcher.opensearch, req).kind = "query",
         NEW s \in Seq(FoundBy(c, req, t))
  PROVE  ListFor(c, req, t, Plain(s))
<1>1. \A i \in DOMAIN s : s[i] \in FoundBy(c, req, t) /\ s[i] \in Article
  BY DEF FoundBy
<1>2. \A i \in DOMAIN s : [article |-> s[i], score |-> 0] \in ItemsFor(c, req, t)
  BY <1>1 DEF ItemsFor, Item
<1>3. Plain(s) \in Seq(ItemsFor(c, req, t))
  BY <1>2 DEF Plain
<1> QED
  BY <1>3 DEF ListFor

\* With a reranker, the items are in the order of their similarity.
LEMMA RankedList ==
  ASSUME NEW c, NEW req, req.size \in Nat, NEW t, c.search.reranker # None,
         Translate(c.searcher.opensearch, req).kind = "query",
         NEW s \in Seq(FoundBy(c, req, t)),
         c.searcher.opensearch.strategy.kind = "text" =>
           Len(s) >= Min({req.size, Cardinality(FoundBy(c, req, t))}),
         NEW items, items \in Ranked(s) \/ (s = <<>> /\ items = <<>>)
  PROVE  ListFor(c, req, t, items)
<1>1. \A i \in DOMAIN s : s[i] \in FoundBy(c, req, t) /\ s[i] \in Article /\ Similarity[s[i]] \in Nat
  <2>1. \A i \in DOMAIN s : s[i] \in FoundBy(c, req, t)
    OBVIOUS
  <2>2. FoundBy(c, req, t) \subseteq Article
    BY DEF FoundBy
  <2>3. \A a \in Article : Similarity[a] \in Nat
    BY IndexAssumption
  <2> QED
    BY <2>1, <2>2, <2>3
<1>2. \A i \in DOMAIN s : [article |-> s[i], score |-> Similarity[s[i]]] \in ItemsFor(c, req, t)
  BY <1>1 DEF ItemsFor, Item
<1>3. PICK r : r = [i \in DOMAIN s |-> [article |-> s[i], score |-> Similarity[s[i]]]]
  OBVIOUS
<1>4. r \in Seq(ItemsFor(c, req, t)) /\ Len(r) = Len(s)
  BY <1>2, <1>3
<1>5. Scored(ItemsFor(c, req, t))
  BY DEF Scored, ItemsFor, Item
<1>6. items \in Seq(ItemsFor(c, req, t)) /\ Len(items) = Len(s) /\ Falls(items)
  <2>1. CASE items \in Ranked(s)
    <3>1. items \in Sorted(r)
      BY <1>3, <2>1 DEF Ranked
    <3>2. SortOf(ItemsFor(c, req, t), Len(r), items)
      BY <1>4, <1>5, <3>1, SortedIs
    <3> QED
      BY <1>4, <3>2 DEF SortOf
  <2>2. CASE s = <<>> /\ items = <<>>
    BY <2>2 DEF Falls
  <2> QED
    BY <2>1, <2>2
<1> QED
  BY <1>6 DEF ListFor

\* What a search does to the lists.
LEMMA SearchOneFinds ==
  ASSUME IsRequest(request), NEW i \in Sub, SearchOne(i)
  PROVE  /\ UNCHANGED <<config, now, request>>
         /\ reply = None /\ searched[i] = 0 /\ searched' = [searched EXCEPT ![i] = now]
         /\ reply' \in {None, [error |-> "panic"]}
         /\ \/ itemsList' = itemsList
            \/ \E items : /\ itemsList' = Append(itemsList, [id |-> i, items |-> items])
                          /\ ListFor(config, request.requests[i], now, items)
<1> DEFINE q == Translate(config.searcher.opensearch, request.requests[i])
           Grown == \E items : /\ itemsList' = Append(itemsList, [id |-> i, items |-> items])
                               /\ ListFor(config, request.requests[i], now, items)
<1>1. /\ UNCHANGED <<config, now, request>>
      /\ reply = None /\ searched[i] = 0 /\ searched' = [searched EXCEPT ![i] = now]
  BY DEF SearchOne
<1>2. SearchPanics => reply' \in {None, [error |-> "panic"]} /\ itemsList' = itemsList
  BY <1>1 DEF SearchPanics, HandlerPanics
<1>3. \A kind : SearchFails(kind) => reply' = None /\ itemsList' = itemsList
  BY <1>1 DEF SearchFails
<1>4. CASE q.kind = "query" /\ SearchWith(i, q)
  <2>1. request.requests[i].size \in Nat
    BY DEF IsRequest, IsSubRequest, Sub
  <2>2. PICK req : req = request.requests[i]
    OBVIOUS
  <2>3. CASE SearchFails("external")
    BY <1>1, <1>3, <2>3
  <2>4. ASSUME NEW s \in HitLists(Index, q, SizeOf(req), now)
        PROVE  /\ s \in Seq(FoundBy(config, req, now))
               /\ config.searcher.opensearch.strategy.kind = "text" =>
                    Len(s) >= Min({req.size, Cardinality(FoundBy(config, req, now))})
    <3>1. PICK size \in Nat : size = SizeOf(req) /\ size >= req.size
      BY <2>1, <2>2, SizeIs
    <3>2. FoundBy(config, req, now) = {a \in Article : Eligible(Index[a], q, now)}
      BY <2>2 DEF FoundBy
    <3>3. PICK n \in Nat : n = Cardinality(FoundBy(config, req, now))
      BY FoundIsFinite
    <3>4. s \in Seq(FoundBy(config, req, now)) /\ (q.form # "knn" => Len(s) = IF n < size THEN n ELSE size)
      <4>1. PICK x, hits : x = q /\ hits = FoundBy(config, req, now)
        OBVIOUS
      <4>2. s \in HitLists(Index, x, size, now) /\ hits = {a \in Article : Eligible(Index[a], x, now)}
        BY <2>4, <3>1, <3>2, <4>1
      <4>3. /\ s \in Seq(hits)
            /\ x.form # "knn" => Len(s) = IF Cardinality(hits) < size THEN Cardinality(hits) ELSE size
        BY ONLY <4>2, size \in Nat, HitsAre
      <4> QED
        BY <3>3, <4>1, <4>3
    <3>5. config.searcher.opensearch.strategy.kind = "text" => q.form # "knn"
      <4>1. AsksFor(config.searcher.opensearch, req, q)
        BY <1>4, <2>2, TranslateAsks
      <4> QED
        BY <4>1 DEF AsksFor
    <3>6. Min({req.size, n}) = IF req.size <= n THEN req.size ELSE n
      BY <2>1, <2>2, MinOfTwo
    <3> QED
      BY <2>1, <2>2, <3>1, <3>3, <3>4, <3>5, <3>6
  <2>5. CASE \E s \in HitLists(Index, q, SizeOf(req), now) : Reranker = None /\ SearchSucceeds(i, Plain(s))
    <3>1. PICK s \in HitLists(Index, q, SizeOf(req), now) : Reranker = None /\ SearchSucceeds(i, Plain(s))
      BY <2>5
    <3>2. ListFor(config, req, now, Plain(s))
      BY <1>4, <2>2, <2>4, <3>1, PlainList DEF Reranker
    <3>3. reply' = None /\ itemsList' = Append(itemsList, [id |-> i, items |-> Plain(s)])
      BY <1>1, <3>1 DEF SearchSucceeds
    <3> QED
      BY <1>1, <2>2, <3>2, <3>3
  <2>6. CASE \E s \in HitLists(Index, q, SizeOf(req), now) : Reranker # None /\ Rerank(i, s, RerankQuery(req))
    <3>1. PICK s \in HitLists(Index, q, SizeOf(req), now) : Reranker # None /\ Rerank(i, s, RerankQuery(req))
      BY <2>6
    <3>2. CASE SearchPanics
      BY <1>1, <1>2, <3>2
    <3>3. CASE \E kind : SearchFails(kind)
      BY <1>1, <1>3, <3>3
    <3>4. CASE \E items : (items \in Ranked(s) \/ (s = <<>> /\ items = <<>>)) /\ SearchSucceeds(i, items)
      <4>1. PICK items : (items \in Ranked(s) \/ (s = <<>> /\ items = <<>>)) /\ SearchSucceeds(i, items)
        BY <3>4
      <4>2. ListFor(config, req, now, items)
        BY <1>4, <2>1, <2>2, <2>4, <3>1, <4>1, RankedList DEF Reranker
      <4>3. reply' = None /\ itemsList' = Append(itemsList, [id |-> i, items |-> items])
        BY <1>1, <4>1 DEF SearchSucceeds
      <4> QED
        BY <1>1, <2>2, <4>2, <4>3
    <3> QED
      BY <3>1, <3>2, <3>3, <3>4 DEF Rerank
  <2> QED
    BY <1>4, <2>2, <2>3, <2>5, <2>6 DEF SearchWith
<1>5. CASE SearchPanics
  BY <1>1, <1>2, <1>5
<1>6. CASE \E kind : SearchFails(kind)
  BY <1>1, <1>3, <1>6
<1> QED
  BY <1>4, <1>5, <1>6 DEF SearchOne

---------------------------------------------------------------------------
(* What the aggregation makes of the lists.                                *)

\* Lists of items of S.
ListsOf(S) == Seq([id : Nat, items : Seq(S)])

\* The items of each list.
LEMMA ListIs ==
  ASSUME NEW S, NEW lists \in ListsOf(S), NEW l \in DOMAIN lists
  PROVE  /\ lists[l] \in [id : Nat, items : Seq(S)]
         /\ lists[l].id \in Nat /\ lists[l].items \in Seq(S)
<1>1. PICK T : T = [id : Nat, items : Seq(S)]
  OBVIOUS
<1>2. lists \in Seq(T)
  BY <1>1 DEF ListsOf
<1>3. lists[l] \in T
  BY <1>2
<1> QED
  BY <1>1, <1>3

\* All the items are those of the lists.
LEMMA ItemsAre ==
  ASSUME NEW S, NEW lists \in ListsOf(S)
  PROVE  Items(lists) \in Seq(S)
<1>1. \A l \in DOMAIN lists : lists[l].items \in Seq(S)
  BY ListIs
<1>2. PICK m : m = [l \in DOMAIN lists |-> lists[l].items]
  OBVIOUS
<1>3. PICK n \in Nat : DOMAIN lists = 1 .. n
  BY DEF ListsOf
<1>4. m \in Seq(Seq(S))
  BY <1>1, <1>2, <1>3
<1>5. FlattenSeq(m) \in Seq(S)
  BY <1>4, FlattenType
<1> QED
  BY <1>2, <1>5 DEF Items

\* A sequence of some of a finite number of things.
LEMMA SomeOf ==
  ASSUME NEW n \in Nat, NEW size \in Nat
  PROVE  Min({size, n}) \in Nat
<1>1. Min({size, n}) = IF size <= n THEN size ELSE n
  BY MinOfTwo
<1> QED
  BY <1>1

\* The fused items are of the lists.
LEMMA FusedAre ==
  ASSUME NEW S, itemsList \in ListsOf(S), request.size \in Nat, NEW t \in Fused
  PROVE  t \in Seq(S)
<1> DEFINE all == Items(itemsList)
           hits == {all[i].article : i \in DOMAIN all}
           length == Min({request.size, Cardinality(hits)})
<1>1. all \in Seq(S)
  BY ItemsAre
<1>2. PICK n \in Nat : DOMAIN all = 1 .. n /\ \A i \in 1 .. n : all[i] \in S
  BY <1>1, SeqIs
<1>3. ASSUME NEW a \in hits PROVE FirstItem(a) \in S
  <2>1. PICK places : places = {i \in DOMAIN all : all[i].article = a}
    OBVIOUS
  <2>2. places \subseteq 1 .. n /\ places # {}
    BY <1>2, <2>1
  <2>3. Min(places) \in 1 .. n
    BY <2>2, MinIs
  <2>4. FirstItem(a) = all[Min(places)]
    BY <2>1 DEF FirstItem
  <2> QED
    BY <1>2, <2>3, <2>4
<1>4. length \in Nat
  <2>1. IsFiniteSet(hits)
    <3>1. PICK g : g = [i \in 1 .. n |-> all[i].article]
      OBVIOUS
    <3>2. PICK got : got = hits
      OBVIOUS
    <3>3. got = {g[i] : i \in 1 .. n}
      BY <1>2, <3>1, <3>2
    <3>4. IsFiniteSet(1 .. n) /\ g \in Surjection(1 .. n, got)
      BY <3>1, <3>3, FS_Interval DEF Surjection
    <3>5. IsFiniteSet(got)
      BY <3>4, FS_Surjection
    <3> QED
      BY <3>2, <3>5
  <2>2. Cardinality(hits) \in Nat
    BY <2>1, FS_CardinalityType
  <2> HIDE DEF hits
  <2> QED
    BY <2>2, SomeOf
<1>5. PICK s : s \in Injective(length, hits) /\ t = [i \in DOMAIN s |-> FirstItem(s[i])]
  BY DEF Fused
<1>6. s \in [1 .. length -> hits]
  BY <1>5 DEF Injective
<1> HIDE DEF length, hits
<1>7. DOMAIN s = 1 .. length /\ \A i \in 1 .. length : s[i] \in hits
  BY <1>6
<1>8. \A i \in 1 .. length : FirstItem(s[i]) \in S
  BY <1>3, <1>7
<1> QED
  BY <1>4, <1>5, <1>7, <1>8

\* So are the picked ones.
LEMMA PickedAre ==
  ASSUME NEW S, itemsList \in ListsOf(S), request.size \in Nat, NEW t \in Picked
  PROVE  t \in Seq(S)
<1> DEFINE all == Items(itemsList)
<1>1. all \in Seq(S)
  BY ItemsAre
<1>2. \A i \in DOMAIN all : all[i] \in S
  BY <1>1
<1>3. PICK k : k = Min({request.size, Len(all)})
  OBVIOUS
<1>4. k \in Nat
  BY <1>1, <1>3, SomeOf
<1>5. PICK s \in UNION {Injective(n, DOMAIN all) : n \in 0 .. k} : t = [i \in DOMAIN s |-> all[s[i]]]
  BY <1>3 DEF Picked
<1>6. PICK n \in 0 .. k : s \in Injective(n, DOMAIN all)
  BY <1>5
<1>7. n \in Nat /\ DOMAIN s = 1 .. n /\ \A i \in 1 .. n : s[i] \in DOMAIN all
  BY <1>4, <1>6 DEF Injective
<1> QED
  BY <1>2, <1>5, <1>7

\* And those of the lists that they are put back into.
LEMMA SplitIs ==
  ASSUME NEW S, itemsList \in ListsOf(S), NEW picked \in Seq(S)
  PROVE  Split(picked) \in ListsOf(S)
<1>1. PICK n \in Nat : DOMAIN itemsList = 1 .. n
  BY DEF ListsOf
<1> DEFINE Kept(x) == [m \in 1 .. Cardinality({p \in DOMAIN picked : picked[p].article = x.article}) |-> x]
           Part(l) == [i \in DOMAIN itemsList[l].items |-> Kept(itemsList[l].items[i])]
<1>2. ASSUME NEW x \in S PROVE Kept(x) \in Seq(S)
  <2>1. PICK times : times = {p \in DOMAIN picked : picked[p].article = x.article}
    OBVIOUS
  <2>2. times \subseteq 1 .. Len(picked) /\ IsFiniteSet(1 .. Len(picked))
    BY <2>1, FS_Interval
  <2>3. Cardinality(times) \in Nat
    BY <2>2, FS_Subset, FS_CardinalityType
  <2> QED
    BY <2>1, <2>3
<1> HIDE DEF Kept
<1>3. ASSUME NEW l \in 1 .. n PROVE FlattenSeq(Part(l)) \in Seq(S)
  <2>1. itemsList[l].items \in Seq(S)
    BY <1>1, ListIs
  <2>2. PICK s \in Seq(S) : s = itemsList[l].items
    BY <2>1
  <2>3. [i \in DOMAIN s |-> Kept(s[i])] \in Seq(Seq(S))
    <3>1. PICK k \in Nat : DOMAIN s = 1 .. k /\ \A i \in 1 .. k : s[i] \in S
      BY SeqIs
    <3>2. \A i \in 1 .. k : Kept(s[i]) \in Seq(S)
      BY <1>2, <3>1
    <3> QED
      BY <3>1, <3>2
  <2>4. Part(l) \in Seq(Seq(S))
    BY <2>2, <2>3
  <2> HIDE DEF Part
  <2> QED
    BY <2>4, FlattenType
<1>4. Split(picked) = [l \in 1 .. n |-> [id |-> l, items |-> FlattenSeq(Part(l))]]
  BY <1>1 DEF Split, Kept
<1> HIDE DEF Part
<1>5. \A l \in 1 .. n : [id |-> l, items |-> FlattenSeq(Part(l))] \in [id : Nat, items : Seq(S)]
  BY <1>3
<1> QED
  BY <1>4, <1>5 DEF ListsOf

\* The lists of a reply are of the items that were found.
LEMMA AggregateIs ==
  ASSUME NEW S, Scored(S), itemsList \in ListsOf(S), request.size \in Nat, Aggregate
  PROVE  \/ \E e : reply' = [error |-> e]
         \/ /\ request.aggregate = None /\ reply' = [lists |-> itemsList]
         \/ /\ request.aggregate # None
            /\ \E lists \in ListsOf(S) : reply' = [lists |-> lists]
<1>1. CASE request.aggregate = None /\ Respond([lists |-> itemsList])
  BY <1>1 DEF Respond
<1>2. ASSUME NEW picked \in Rerankings, request.aggregate # None,
             Respond([lists |-> IF request.aggregate.preserve THEN Split(picked)
                                ELSE <<[id |-> 0, items |-> picked]>>])
      PROVE  \E lists \in ListsOf(S) : reply' = [lists |-> lists]
  <2>1. picked \in Seq(S)
    <3>1. picked \in Fused \/ picked \in Sorted(Items(itemsList)) \/ picked \in Picked
      BY <1>2 DEF Rerankings
    <3>2. picked \in Sorted(Items(itemsList)) => picked \in Seq(S)
      <4>1. Items(itemsList) \in Seq(S)
        BY ItemsAre
      <4> QED
        BY <4>1, SortedIs DEF SortOf
    <3> QED
      BY <3>1, <3>2, FusedAre, PickedAre
  <2>2. Split(picked) \in ListsOf(S)
    BY <2>1, SplitIs
  <2>3. <<[id |-> 0, items |-> picked]>> \in ListsOf(S)
    <3>1. [id |-> 0, items |-> picked] \in [id : Nat, items : Seq(S)]
      BY <2>1
    <3> QED
      BY <3>1 DEF ListsOf
  <2> QED
    BY <1>2, <2>2, <2>3 DEF Respond
<1>3. CASE \E e : Respond([error |-> e])
  BY <1>3 DEF Respond
<1> QED
  BY <1>1, <1>2, <1>3 DEF Aggregate

---------------------------------------------------------------------------
(* The lists of a request.                                                 *)

\* The lists that the searches of a request may have returned, each of a
\* sub-request that was searched.
SearchedLists(c, r, s) ==
  {x \in [id : Nat, items : Seq(Item)] :
     /\ x.id \in DOMAIN r.requests /\ x.id \in DOMAIN s /\ s[x.id] # 0
     /\ ListFor(c, r.requests[x.id], s[x.id], x.items)}

\* The items that they may have.
FoundIn(c, r, s) ==
  {x \in Item : \E i \in DOMAIN r.requests : i \in DOMAIN s /\ x \in ItemsFor(c, r.requests[i], s[i])}

\* A request is well-formed, its lists are of its searches, and its reply has
\* what they found.
ListsInv ==
  /\ ConfigInv
  /\ searched \in Seq(Nat) /\ \A i \in DOMAIN searched : searched[i] <= now
  /\ request = None => itemsList = <<>> /\ ~HasLists
  /\ request # None => IsRequest(request) /\ Len(searched) = Len(request.requests)
  /\ itemsList \in Seq(SearchedLists(config, request, searched))
  /\ HasLists => /\ reply.lists \in ListsOf(FoundIn(config, request, searched))
                 /\ request.aggregate = None => reply.lists = itemsList

\* The requests with the raw query of the MSearch are well-formed.
LEMMA DefaultedIs ==
  ASSUME NEW r, IsRequest(r)
  PROVE  /\ IsRequest(Defaulted(r)) /\ DOMAIN Defaulted(r).requests = DOMAIN r.requests
         /\ Len(Defaulted(r).requests) = Len(r.requests)
<1>1. PICK n \in Nat : n = Len(r.requests) /\ DOMAIN r.requests = 1 .. n
  BY DEF IsRequest
<1>2. CASE Defaulted(r) = r
  BY <1>2
<1>3. CASE Defaulted(r) # r
  <2>1. PICK s : s = [i \in 1 .. n |-> IF r.requests[i].raw = "" THEN [r.requests[i] EXCEPT !.raw = r.raw]
                                       ELSE r.requests[i]]
    OBVIOUS
  <2>2. Defaulted(r) = [r EXCEPT !.requests = s] /\ r.kind = "msearch"
    BY <1>1, <1>3, <2>1 DEF Defaulted
  <2>3. ASSUME NEW i \in 1 .. n PROVE IsSubRequest(s[i])
    <3>1. PICK q : q = r.requests[i]
      OBVIOUS
    <3>2. IsSubRequest(q)
      BY <1>1, <3>1 DEF IsRequest
    <3>3. PICK x : x = r.raw
      OBVIOUS
    <3>4. s[i] = q \/ s[i] = [q EXCEPT !.raw = x]
      BY <2>1, <3>1, <3>3
    <3>5. IsSubRequest([q EXCEPT !.raw = x])
      BY <3>2 DEF IsSubRequest
    <3> QED
      BY <3>2, <3>4, <3>5
  <2>4. Len(s) = n /\ DOMAIN s = 1 .. n
    <3>1. DOMAIN s = 1 .. n /\ s = [i \in 1 .. n |-> s[i]]
      BY <2>1
    <3>2. PICK S : S = {s[i] : i \in 1 .. n}
      OBVIOUS
    <3>3. s \in Seq(S)
      BY <3>1, <3>2
    <3> QED
      BY <3>1, <3>3
  <2>5. PICK t : t = Defaulted(r)
    OBVIOUS
  <2>6. t = [kind |-> r.kind, requests |-> s, size |-> r.size, raw |-> r.raw, aggregate |-> r.aggregate]
    BY <2>2, <2>5 DEF IsRequest
  <2>7. t.requests = s /\ t.kind = "msearch" /\ t.size \in Nat
        /\ t = [kind |-> t.kind, requests |-> t.requests, size |-> t.size, raw |-> t.raw,
                aggregate |-> t.aggregate]
    BY <2>2, <2>6 DEF IsRequest
  <2>8. IsRequest(t)
    BY <2>3, <2>4, <2>7 DEF IsRequest
  <2> QED
    BY <1>1, <2>4, <2>5, <2>7, <2>8
<1> QED
  BY <1>2, <1>3

\* The sequences of a larger set.
LEMMA SeqWithin ==
  ASSUME NEW S, NEW T, S \subseteq T
  PROVE  Seq(S) \subseteq Seq(T)
<1> SUFFICES ASSUME NEW s \in Seq(S) PROVE s \in Seq(T)
  OBVIOUS
<1>1. PICK n \in Nat : DOMAIN s = 1 .. n /\ n = Len(s) /\ s = [i \in 1 .. n |-> s[i]]
  OBVIOUS
<1>2. \A i \in 1 .. n : s[i] \in T
  BY <1>1
<1> QED
  BY <1>1, <1>2

\* The lists of the searches have what was found.
LEMMA ListsAreFound ==
  ASSUME NEW c, NEW r, NEW s, NEW lists \in Seq(SearchedLists(c, r, s))
  PROVE  lists \in ListsOf(FoundIn(c, r, s)) /\ Scored(FoundIn(c, r, s))
<1>1. ASSUME NEW x \in SearchedLists(c, r, s)
      PROVE  x \in [id : Nat, items : Seq(FoundIn(c, r, s))]
  <2>1. /\ x \in [id : Nat, items : Seq(Item)]
        /\ x.id \in DOMAIN r.requests /\ x.id \in DOMAIN s
        /\ ListFor(c, r.requests[x.id], s[x.id], x.items)
    BY <1>1 DEF SearchedLists
  <2>2. PICK I : I = ItemsFor(c, r.requests[x.id], s[x.id])
    OBVIOUS
  <2>3. x.items \in Seq(I)
    BY <2>1, <2>2 DEF ListFor
  <2>4. I \subseteq FoundIn(c, r, s)
    BY <2>1, <2>2 DEF FoundIn, ItemsFor
  <2>5. x.items \in Seq(FoundIn(c, r, s))
    BY <2>3, <2>4, SeqWithin
  <2> QED
    BY <2>1, <2>5
<1>2. SearchedLists(c, r, s) \subseteq [id : Nat, items : Seq(FoundIn(c, r, s))]
  BY <1>1
<1>3. lists \in Seq([id : Nat, items : Seq(FoundIn(c, r, s))])
  BY <1>2, SeqWithin
<1> QED
  BY <1>3 DEF ListsOf, Scored, FoundIn, Item

\* An error is no lists, and lists are.
LEMMA RepliesAre ==
  /\ \A e : reply' = [error |-> e] => ~HasLists'
  /\ \A l : reply' = [lists |-> l] => reply'.lists = l
  /\ reply' = None => ~HasLists'
<1>1. ASSUME NEW e, reply' = [error |-> e] PROVE ~HasLists'
  BY <1>1 DEF HasLists
<1> QED
  BY <1>1 DEF HasLists

\* A search adds its list.
LEMMA SearchOneLists ==
  ASSUME ListsInv, request # None, NEW i \in Sub, SearchOne(i), ConfigInv'
  PROVE  ListsInv'
<1> DEFINE S == SearchedLists(config, request, searched)
           T == SearchedLists(config, request, searched')
<1>1. IsRequest(request) /\ Len(searched) = Len(request.requests)
  BY DEF ListsInv
<1>2. /\ UNCHANGED <<config, now, request>>
      /\ reply = None /\ searched[i] = 0 /\ searched' = [searched EXCEPT ![i] = now]
      /\ reply' \in {None, [error |-> "panic"]}
      /\ \/ itemsList' = itemsList
         \/ \E items : /\ itemsList' = Append(itemsList, [id |-> i, items |-> items])
                       /\ ListFor(config, request.requests[i], now, items)
  BY <1>1, SearchOneFinds
<1>3. now \in Nat \ {0}
  <2>1. now \in FirstNow .. MaxNow
    BY DEF ListsInv, ConfigInv
  <2> QED
    BY <2>1, Times
<1>4. PICK n \in Nat : DOMAIN searched = 1 .. n /\ Len(searched) = n /\ DOMAIN request.requests = 1 .. n
  BY <1>1 DEF ListsInv, IsRequest
<1>5. i \in 1 .. n
  BY <1>4 DEF Sub
<1>6. /\ searched' \in Seq(Nat) /\ Len(searched') = n /\ DOMAIN searched' = 1 .. n
      /\ searched'[i] = now /\ \A j \in 1 .. n : j # i => searched'[j] = searched[j]
  BY <1>2, <1>3, <1>4, <1>5 DEF ListsInv
<1>7. \A j \in DOMAIN searched' : searched'[j] <= now
  BY <1>3, <1>4, <1>6 DEF ListsInv
<1>8. S \subseteq T
  BY <1>2, <1>4, <1>5, <1>6 DEF SearchedLists
<1>9. itemsList \in Seq(T)
  BY <1>8, SeqWithin DEF ListsInv
<1>10. itemsList' \in Seq(T)
  <2>1. CASE itemsList' = itemsList
    BY <1>9, <2>1
  <2>2. ASSUME NEW items, itemsList' = Append(itemsList, [id |-> i, items |-> items]),
               ListFor(config, request.requests[i], now, items)
        PROVE  itemsList' \in Seq(T)
    <3>1. items \in Seq(Item)
      <4>1. items \in Seq(ItemsFor(config, request.requests[i], now))
        BY <2>2 DEF ListFor
      <4>2. ItemsFor(config, request.requests[i], now) \subseteq Item
        BY DEF ItemsFor
      <4> QED
        BY <4>1, <4>2, SeqWithin
    <3>2. PICK x : x = [id |-> i, items |-> items]
      OBVIOUS
    <3>3. x \in [id : Nat, items : Seq(Item)] /\ x.id = i /\ x.items = items
      BY <1>5, <3>1, <3>2
    <3>4. x \in T
      BY <1>3, <1>4, <1>5, <1>6, <2>2, <3>3 DEF SearchedLists
    <3> QED
      BY <1>9, <2>2, <3>2, <3>4, AppendIs
  <2> QED
    BY <1>2, <2>1, <2>2
<1>11. ~HasLists'
  BY <1>2, RepliesAre
<1> QED
  BY <1>1, <1>2, <1>4, <1>6, <1>7, <1>10, <1>11 DEF ListsInv

\* A step of the service keeps the invariant.
LEMMA ListsStep ==
  ASSUME ListsInv, ServiceStep, ConfigInv'
  PROVE  ListsInv'
<1>1. CASE Start \/ UNCHANGED serviceVars
  BY <1>1 DEF Start, serviceVars, ListsInv, HasLists
<1>2. CASE Tick
  <2>1. now \in Nat /\ now' = now + 1 /\ UNCHANGED <<config, request, searched, itemsList, reply>>
    <3>1. now \in FirstNow .. MaxNow
      BY DEF ListsInv, ConfigInv
    <3> QED
      BY <1>2, <3>1, Times DEF Tick
  <2>2. \A i \in DOMAIN searched : searched[i] \in Nat /\ searched[i] <= now
    BY DEF ListsInv
  <2>3. \A i \in DOMAIN searched : searched[i] <= now'
    BY <2>1, <2>2
  <2> QED
    BY <2>1, <2>3 DEF ListsInv, HasLists
<1>3. CASE Aggregate
  <2>1. request # None /\ UNCHANGED <<config, now, request, searched, itemsList>>
    BY <1>3 DEF Aggregate
  <2>2. itemsList \in ListsOf(FoundIn(config, request, searched)) /\ Scored(FoundIn(config, request, searched))
    BY ListsAreFound DEF ListsInv
  <2>3. request.size \in Nat
    BY <2>1 DEF ListsInv, IsRequest
  <2>4. PICK S : S = FoundIn(config, request, searched)
    OBVIOUS
  <2>5. \/ \E e : reply' = [error |-> e]
        \/ /\ request.aggregate = None /\ reply' = [lists |-> itemsList]
        \/ /\ request.aggregate # None
           /\ \E lists \in ListsOf(S) : reply' = [lists |-> lists]
    BY <1>3, <2>2, <2>3, <2>4, AggregateIs
  <2>6. HasLists' => /\ reply'.lists \in ListsOf(S)
                     /\ request.aggregate = None => reply'.lists = itemsList
    BY <2>2, <2>4, <2>5, RepliesAre
  <2> QED
    BY <2>1, <2>4, <2>6 DEF ListsInv
<1>4. CASE ReturnError
  <2>1. request # None /\ UNCHANGED <<config, now, request, searched, itemsList>>
        /\ reply' = [error |-> Head(errors)]
    BY <1>4 DEF ReturnError, Respond
  <2>2. ~HasLists'
    BY <2>1, RepliesAre
  <2> QED
    BY <2>1, <2>2 DEF ListsInv
<1>5. CASE request # None /\ \E i \in Sub : SearchOne(i)
  BY <1>5, SearchOneLists
<1>6. ASSUME NEW r, IsRequest(r), Receive(r) PROVE ListsInv'
  <2>1. /\ request = None /\ request' = Defaulted(r)
        /\ searched' = [i \in DOMAIN r.requests |-> 0]
        /\ UNCHANGED <<config, now, itemsList>>
        /\ reply' = None \/ \E e : reply' = [error |-> e]
    BY <1>6 DEF Receive, HandlerPanics
  <2>2. itemsList' = <<>>
    BY <2>1 DEF ListsInv
  <2>3. ~HasLists'
    BY <2>1, RepliesAre
  <2>4. PICK n \in Nat : n = Len(r.requests) /\ DOMAIN r.requests = 1 .. n
    BY <1>6 DEF IsRequest
  <2>5. searched' \in Seq(Nat) /\ Len(searched') = n /\ \A i \in DOMAIN searched' : searched'[i] = 0
    BY <2>1, <2>4
  <2>6. IsRequest(request') /\ Len(request'.requests) = n
    BY <1>6, <2>1, <2>4, DefaultedIs
  <2>7. \A i \in DOMAIN searched' : searched'[i] <= now'
    <3>1. now' \in FirstNow .. MaxNow
      BY DEF ConfigInv
    <3> QED
      BY <2>5, <3>1, Times
  <2> QED
    BY <2>2, <2>3, <2>5, <2>6, <2>7 DEF ListsInv
<1> QED
  BY <1>1, <1>2, <1>3, <1>4, <1>5, <1>6 DEF ServiceStep, ServiceNext

\* What the invariant says of a reply.
LEMMA ListsHonour == ListsInv => RepliesHonourRequest
<1> SUFFICES ASSUME ListsInv, HasLists PROVE RepliesHonourRequest
  BY DEF RepliesHonourRequest, HitsHonourRequest, RankedByOwnSimilarity
<1> DEFINE F == FoundIn(config, request, searched)
<1>1. request # None /\ reply.lists \in ListsOf(F)
  BY DEF ListsInv
<1>2. ASSUME NEW l \in DOMAIN reply.lists, NEW n \in DOMAIN reply.lists[l].items,
             NEW doc, doc = Index[reply.lists[l].items[n].article]
      PROVE  \E i \in Sub :
               LET req == request.requests[i]
               IN  /\ \A f \in Ranges(Filters(req)) : InRange(doc, f, searched[i])
                   /\ IsText => \A k \in DOMAIN Strategy.fields :
                        LET field == SourceField(Strategy, k)
                        IN  /\ ~Satisfies(doc, Match(field, req.exclude), searched[i])
                            /\ k \in PlainFilter(Strategy, req.query) =>
                                 Satisfies(doc, Match(field, req.query[k]), searched[i])
    <2>1. PICK S : S = F
      OBVIOUS
    <2>2. reply.lists[l].items \in Seq(S)
      BY <1>1, <2>1, ListIs
    <2>3. PICK x : x = reply.lists[l].items[n]
      OBVIOUS
    <2>4. x \in F
      BY <2>1, <2>2, <2>3
    <2>5. PICK i \in DOMAIN request.requests : x \in ItemsFor(config, request.requests[i], searched[i])
      BY <2>4 DEF FoundIn
    <2>6. PICK req, t, o : req = request.requests[i] /\ t = searched[i] /\ o = config.searcher.opensearch
      OBVIOUS
    <2>7. /\ Translate(o, req).kind = "query" /\ x.article \in Article
          /\ Eligible(Index[x.article], Translate(o, req), t)
      BY <2>5, <2>6 DEF ItemsFor, FoundBy
    <2>8. Honours(o, req, x.article, t)
      BY <2>7, EligibleHonours
    <2>9. doc = Index[x.article] /\ i \in Sub
      BY <1>2, <2>3, <2>5 DEF Sub
    <2>10. IsText => o.strategy.kind = "text" /\ Strategy = o.strategy
      BY <2>6 DEF IsText, Strategy
    <2> QED
      BY <2>6, <2>8, <2>9, <2>10 DEF Honours
<1>3. HitsHonourRequest
  BY <1>2 DEF HitsHonourRequest
<1>4. ASSUME Reranker # None, request.aggregate = None, NEW l \in DOMAIN reply.lists,
             NEW items, items = reply.lists[l].items, NEW i, i = reply.lists[l].id,
             NEW hits, hits = {a \in Article : Eligible(Index[a],
                                   Translate(config.searcher.opensearch, request.requests[i]), searched[i])}
      PROVE  /\ \A n \in DOMAIN items : items[n].score = Similarity[items[n].article]
             /\ \A n, m \in DOMAIN items : n < m => items[n].score >= items[m].score
             /\ IsText => Len(items) >= Min({request.requests[i].size, Cardinality(hits)})
  <2>1. PICK S : S = SearchedLists(config, request, searched)
    OBVIOUS
  <2>2. reply.lists \in Seq(S)
    BY <1>4, <2>1 DEF ListsInv
  <2>3. reply.lists[l] \in S
    BY <2>2
  <2>4. ListFor(config, request.requests[i], searched[i], items)
    BY <1>4, <2>1, <2>3 DEF SearchedLists
  <2>5. hits = FoundBy(config, request.requests[i], searched[i])
    BY <1>4 DEF FoundBy
  <2>6. PICK I : I = ItemsFor(config, request.requests[i], searched[i])
    OBVIOUS
  <2>7. /\ items \in Seq(I) /\ Falls(items)
        /\ IsText => Len(items) >= Min({request.requests[i].size, Cardinality(hits)})
    BY <1>4, <2>4, <2>5, <2>6 DEF ListFor, Reranker, IsText, Strategy
  <2>8. \A x \in I : x.score = Similarity[x.article]
    BY <1>4, <2>6 DEF ItemsFor, Reranker
  <2>9. DOMAIN items = 1 .. Len(items) /\ \A n \in DOMAIN items : items[n] \in I
    BY <2>7
  <2> QED
    BY <2>7, <2>8, <2>9 DEF Falls
<1>5. RankedByOwnSimilarity
  BY <1>4 DEF RankedByOwnSimilarity
<1> QED
  BY <1>3, <1>5 DEF RepliesHonourRequest

\* It holds at first.
LEMMA ListsAtFirst == Init => ListsInv
<1> SUFFICES ASSUME Init PROVE ListsInv
  OBVIOUS
<1>1. request = None /\ searched = <<>> /\ itemsList = <<>> /\ reply = None
  BY DEF Init, SearchInit, ServiceInit
<1>2. ConfigInv
  BY ServesAtFirst DEF ServesInv
<1> QED
  BY <1>1, <1>2 DEF ListsInv, HasLists

\* And every step of the system keeps it.
LEMMA ListsNext == ServesInv /\ ListsInv /\ [Next]_vars => ListsInv'
  BY ServesNext, ListsStep DEF ServesInv

\* Whatever a reply has was asked for, and lists of the reranker are in the order
\* of the similarity of their own content, whatever the configuration, the
\* requests and the index are.
THEOREM RepliesHonour == Spec => []RepliesHonourRequest
<1>1. ListsInv => RepliesHonourRequest
  BY ListsHonour
<1> QED
  BY <1>1, ServesAtFirst, ServesNext, ListsAtFirst, ListsNext, PTL DEF Spec

---------------------------------------------------------------------------
(* What the search function asks for.                                      *)

\* The deployed text query is a bool query that may be met.
LEMMA DeployedQueryIs ==
  ASSUME IsDeployed, NEW q, IsCall(q), NEW filters, filters # None, \A f \in filters : f.kind = "range",
         NEW t, t = Translate(config.searcher.opensearch, SearchRequest(q, filters))
  PROVE  t.kind = "query" /\ Ranges(Filters(SearchRequest(q, filters))) = filters
<1> DEFINE o == config.searcher.opensearch
           s == o.strategy
<1>1. PICK req : req = SearchRequest(q, filters)
  OBVIOUS
<1>2. /\ req.filter = None /\ req.filters = IF filters = {} THEN None ELSE filters
      /\ req.query = BaseQuery(q) /\ req.exclude = ""
  BY <1>1 DEF SearchRequest
<1>3. Ranges(Filters(req)) = filters
  BY <1>2 DEF Ranges, Filters
<1>4. /\ o # None /\ o.compound = None /\ s # None /\ s.kind = "text" /\ s.scoring = "relevance"
      /\ \A k \in DOMAIN s.fields : s.fields[k].queryType \in QueryTypes /\ ~s.fields[k].secondary
  BY DeployedAssumption DEF IsDeployed, QueryTypes
<1>5. PICK x : x = TextQuery(s, req)
  OBVIOUS
<1>6. x.kind = "query" /\ x.form = "bool"
  <2>1. PICK a, b, c : x = [kind |-> "query", form |-> "bool", should |-> a, filter |-> b,
                            mustNot |-> c, must |-> {}]
    BY <1>4, <1>5 DEF TextQuery, Asked, ScoringModes
  <2> QED
    BY <2>1
<1>7. t = Compound(WithRanges(x, filters), None)
  BY <1>1, <1>2, <1>3, <1>4, <1>5 DEF Translate
<1>8. PICK w : w = WithRanges(x, filters)
  OBVIOUS
<1>9. w = x \/ \E m : w = [x EXCEPT !.must = m]
  BY <1>6, <1>8 DEF WithRanges
<1>10. w.kind = "query"
  <2>1. PICK a, b, c : x = [kind |-> "query", form |-> "bool", should |-> a, filter |-> b,
                            mustNot |-> c, must |-> {}]
    BY <1>4, <1>5 DEF TextQuery, Asked, ScoringModes
  <2> QED
    BY <1>9, <2>1
<1>11. t = w
  BY <1>7, <1>8 DEF Compound
<1> QED
  BY <1>1, <1>3, <1>10, <1>11

\* The keys of a query that filter.
LEMMA DeployedFilterIs ==
  ASSUME IsDeployed, NEW q, IsCall(q)
  PROVE  LET s == config.searcher.opensearch.strategy
         IN  /\ PlainFilter(s, BaseQuery(q)) = IF q.provider = "" THEN {} ELSE {"provider"}
             /\ SourceField(s, "provider") = "provider"
             /\ "provider" \in DOMAIN s.fields
             /\ FilterQuery(s, BaseQuery(q)) = IF q.provider = "" THEN {} ELSE {Match("provider", q.provider)}
<1> DEFINE s == config.searcher.opensearch.strategy
           b == BaseQuery(q)
<1>1. /\ DOMAIN s.fields = {"title", "content", "provider"}
      /\ \A k \in DOMAIN s.fields :
           /\ s.fields[k].queryType = IF k = "provider" THEN "filter" ELSE "should"
           /\ ~s.fields[k].secondary /\ s.fields[k].source = ""
  BY DeployedAssumption DEF IsDeployed
<1>2. PICK text : b = IF q.provider = "" THEN [title |-> text, content |-> text]
                      ELSE [title |-> text, content |-> text, provider |-> q.provider]
  BY DEF BaseQuery
<1> HIDE DEF b
<1>3. "provider" \in DOMAIN b <=> q.provider # ""
  <2>1. CASE q.provider = ""
    <3>1. b = [title |-> text, content |-> text]
      BY <1>2, <2>1
    <3>2. DOMAIN b = {"title", "content"}
      BY <3>1
    <3> QED
      BY <2>1, <3>2
  <2>2. CASE q.provider # ""
    <3>1. b = [title |-> text, content |-> text, provider |-> q.provider]
      BY <1>2, <2>2
    <3>2. DOMAIN b = {"title", "content", "provider"}
      BY <3>1
    <3> QED
      BY <2>2, <3>2
  <2> QED
    BY <2>1, <2>2
<1>4. q.provider # "" => b["provider"] = q.provider
  <2>1. SUFFICES ASSUME q.provider # "" PROVE b["provider"] = q.provider
    OBVIOUS
  <2>2. PICK p : p = q.provider
    OBVIOUS
  <2>3. b = [title |-> text, content |-> text, provider |-> p]
    BY <1>2, <2>1, <2>2
  <2> QED
    BY <2>2, <2>3
<1>5. PlainFilter(s, b) = IF q.provider = "" THEN {} ELSE {"provider"}
  <2>1. \A k \in PlainFilter(s, b) : k = "provider"
    BY <1>1 DEF PlainFilter, Asked
  <2>2. "provider" \in PlainFilter(s, b) <=> q.provider # ""
    BY <1>1, <1>3, <1>4 DEF PlainFilter, Asked
  <2> QED
    BY <2>1, <2>2
<1>6. SecondaryShould(s, b) = {}
  BY <1>1 DEF SecondaryShould, Asked
<1>7. SourceField(s, "provider") = "provider" /\ "provider" \in DOMAIN s.fields
  BY <1>1 DEF SourceField
<1>8. FilterQuery(s, b) = {Match(SourceField(s, k), b[k]) : k \in PlainFilter(s, b)}
  BY <1>6 DEF FilterQuery, MatchQueries
<1>9. FilterQuery(s, b) = IF q.provider = "" THEN {} ELSE {Match("provider", q.provider)}
  BY <1>4, <1>5, <1>7, <1>8
<1> QED
  BY <1>5, <1>7, <1>9 DEF b

\* The articles that a search of the function may find: all, if there is a range.
LEMMA SearchFinds ==
  ASSUME IsDeployed, NEW q, IsCall(q), NEW filters, filters # None, \A f \in filters : f.kind = "range",
         NEW a \in Article, NEW t
  PROVE  LET eligible == Eligible(Index[a], Translate(config.searcher.opensearch, SearchRequest(q, filters)), t)
             fits == /\ \A f \in filters : InRange(Index[a], f, t)
                     /\ q.provider # "" => q.provider \in Index[a].text["provider"]
         IN  (eligible => fits) /\ (filters # {} /\ fits => eligible)
<1> DEFINE o == config.searcher.opensearch
<1>1. PICK req : req = SearchRequest(q, filters)
  OBVIOUS
<1>2. PICK x : x = Translate(o, req)
  OBVIOUS
<1>3. x.kind = "query" /\ Ranges(Filters(req)) = filters
  BY <1>1, <1>2, DeployedQueryIs
<1>4. /\ x.filter = FilterQuery(o.strategy, req.query)
      /\ x.mustNot = MustNotQuery(o.strategy, req.exclude) /\ x.must = filters
  <2>1. AsksFor(o, req, x)
    BY <1>2, <1>3, TranslateAsks
  <2>2. o.strategy.kind = "text" /\ o.strategy.scoring = "relevance"
    BY DeployedAssumption DEF IsDeployed
  <2> QED
    BY <1>3, <2>1, <2>2 DEF AsksFor
<1>5. /\ x.filter = IF q.provider = "" THEN {} ELSE {Match("provider", q.provider)}
      /\ x.mustNot = {}
  <2>1. req.query = BaseQuery(q) /\ req.exclude = ""
    BY <1>1 DEF SearchRequest
  <2> QED
    BY <1>4, <2>1, DeployedFilterIs DEF MustNotQuery
<1>6. \A f \in filters : Satisfies(Index[a], f, t) <=> InRange(Index[a], f, t)
  BY DEF Satisfies
<1>7. q.provider # "" =>
        (Satisfies(Index[a], Match("provider", q.provider), t) <=> q.provider \in Index[a].text["provider"])
  <2>1. "provider" \in DOMAIN Index[a].text
    BY ArticlesAssumption
  <2>2. PICK m : m = Match("provider", q.provider)
    OBVIOUS
  <2>3. m.kind = "match" /\ m.field = "provider" /\ m.value = q.provider
    BY <2>2 DEF Match
  <2> QED
    BY <2>1, <2>2, <2>3 DEF Satisfies
<1>8. /\ Eligible(Index[a], x, t) => \A f \in x.must \union x.filter : Satisfies(Index[a], f, t)
      /\ (\A f \in x.must \union x.filter : Satisfies(Index[a], f, t)) /\ filters # {} => Eligible(Index[a], x, t)
  BY <1>4, <1>5 DEF Eligible
<1> QED
  BY <1>1, <1>2, <1>4, <1>5, <1>6, <1>7, <1>8

\* The ranges of the function.
LEMMA InRecent ==
  ASSUME NEW a \in Article, NEW t \in Nat
  PROVE  /\ InRange(Index[a], Recent, t) <=> Published(a) >= t - Window /\ Published(a) <= t
         /\ InRange(Index[a], Before, t) <=> Published(a) < t - Window
         /\ Recent.kind = "range" /\ Before.kind = "range"
<1>1. "published_at" \in DOMAIN Index[a].number /\ Index[a].number["published_at"] \in Int
  BY ArticlesAssumption
<1>2. PICK p \in Int : p = Index[a].number["published_at"]
  BY <1>1
<1>3. Published(a) = p
  BY <1>2 DEF Published
<1>4. InRange(Index[a], Recent, t) <=> p >= t - Window /\ p <= t
  <2>1. PICK b : b = [gte |-> Ago(Window), lte |-> Ago(0)]
    OBVIOUS
  <2>2. /\ DOMAIN b = {"gte", "lte"}
        /\ b["gte"].now /\ b["gte"].at = -3 /\ b["lte"].now /\ b["lte"].at = 0
    BY <2>1 DEF Ago, Window
  <2>3. Recent.attribute = "published_at" /\ Recent.bounds = b
    BY <2>1 DEF Recent, RangeFilter
  <2>4. InRange(Index[a], Recent, t) <=>
          \A op \in {"gte", "lte"} : InBound(op, p, b[op].at + IF b[op].now THEN t ELSE 0)
    BY <1>1, <1>2, <2>2, <2>3 DEF InRange
  <2>5. InRange(Index[a], Recent, t) <=> InBound("gte", p, -3 + t) /\ InBound("lte", p, 0 + t)
    BY <2>2, <2>4
  <2> QED
    BY <2>5 DEF InBound, Window
<1>5. InRange(Index[a], Before, t) <=> p < t - Window
  <2>1. PICK b : b = [lt |-> Ago(Window)]
    OBVIOUS
  <2>2. DOMAIN b = {"lt"} /\ b["lt"].now /\ b["lt"].at = -3
    BY <2>1 DEF Ago, Window
  <2>3. Before.attribute = "published_at" /\ Before.bounds = b
    BY <2>1 DEF Before, RangeFilter
  <2>4. InRange(Index[a], Before, t) <=>
          \A op \in {"lt"} : InBound(op, p, b[op].at + IF b[op].now THEN t ELSE 0)
    BY <1>1, <1>2, <2>2, <2>3 DEF InRange
  <2>5. InRange(Index[a], Before, t) <=> InBound("lt", p, -3 + t)
    BY <2>2, <2>4
  <2> QED
    BY <2>5 DEF InBound, Window
<1> QED
  BY <1>3, <1>4, <1>5 DEF Recent, Before, RangeFilter

\* The filter of the length.
LEMMA InLength ==
  ASSUME NEW a \in Article, NEW t \in Nat, NEW q, IsCall(q)
  PROVE  /\ (\A f \in LengthFilter(q) : InRange(Index[a], f, t))
              <=> (q.filterLength => Index[a].number["article_length"] > 0)
         /\ \A f \in LengthFilter(q) : f.kind = "range"
<1>1. "article_length" \in DOMAIN Index[a].number /\ Index[a].number["article_length"] \in Int
  BY ArticlesAssumption
<1>2. PICK p \in Int : p = Index[a].number["article_length"]
  BY <1>1
<1>3. PICK f : f = RangeFilter("article_length", [gt |-> At(0)])
  OBVIOUS
<1>4. PICK b : b = [gt |-> At(0)]
  OBVIOUS
<1>5. DOMAIN b = {"gt"} /\ ~b["gt"].now /\ b["gt"].at = 0
  BY <1>4 DEF At
<1>6. f.kind = "range" /\ f.attribute = "article_length" /\ f.bounds = b
  BY <1>3, <1>4 DEF RangeFilter
<1>7. InRange(Index[a], f, t) <=>
        \A op \in {"gt"} : InBound(op, p, b[op].at + IF b[op].now THEN t ELSE 0)
  BY <1>1, <1>2, <1>5, <1>6 DEF InRange
<1>8. InRange(Index[a], f, t) <=> InBound("gt", p, 0 + 0)
  BY <1>5, <1>7
<1>9. InRange(Index[a], f, t) <=> p > 0
  BY <1>8 DEF InBound
<1>10. LengthFilter(q) = IF q.filterLength THEN {f} ELSE {}
  BY <1>3 DEF LengthFilter
<1> QED
  BY <1>2, <1>6, <1>9, <1>10

\* A range of dates is of no time.
LEMMA InBounds ==
  ASSUME NEW a \in Article, NEW range, {range.start, range.end} \subseteq Int, NEW t, NEW u
  PROVE  LET f == RangeFilter("published_at", Bounds(range))
         IN  /\ InRange(Index[a], f, t) <=> InRange(Index[a], f, u)
             /\ range.start = 0 /\ range.end = 0 => InRange(Index[a], f, t)
             /\ f.kind = "range"
<1>1. "published_at" \in DOMAIN Index[a].number
  BY ArticlesAssumption
<1>2. PICK b : b = Bounds(range)
  OBVIOUS
<1>3. \A op \in DOMAIN b : ~b[op].now
  BY <1>2 DEF Bounds, At
<1>4. range.start = 0 /\ range.end = 0 => DOMAIN b = {}
  BY <1>2 DEF Bounds
<1>5. PICK f : f = RangeFilter("published_at", Bounds(range))
  OBVIOUS
<1>6. f.kind = "range" /\ f.attribute = "published_at" /\ f.bounds = b
  BY <1>2, <1>5 DEF RangeFilter
<1>7. \A v : InRange(Index[a], f, v) <=>
               \A op \in DOMAIN b : InBound(op, Index[a].number["published_at"], b[op].at + 0)
  BY <1>1, <1>3, <1>6 DEF InRange
<1> QED
  BY <1>4, <1>5, <1>6, <1>7

\* The articles that the searches without a date may find.
LEMMA UndatedFinds ==
  ASSUME IsDeployed, NEW q, IsMade(q), ~Usable(q), NEW a \in Article, NEW t \in Nat,
         NEW i \in {1, 2}
  PROVE  Eligible(Index[a], Translate(config.searcher.opensearch, Body(q).requests[i]), t)
           <=> /\ Fits(a, q)
               /\ IF i = 1 THEN Published(a) >= t - Window /\ Published(a) <= t
                  ELSE Published(a) < t - Window
<1>1. IsCall(q) /\ \A f \in {Recent, Before} : None # {f} \union LengthFilter(q)
  BY DEF IsMade, IsThere
<1>2. PICK w : w = IF i = 1 THEN Recent ELSE Before
  OBVIOUS
<1>3. PICK filters : filters = {w} \union LengthFilter(q)
  OBVIOUS
<1>4. Body(q).requests[i] = SearchRequest(q, filters)
  BY <1>2, <1>3 DEF Body, NotSpecified
<1>5. filters # None /\ filters # {}
  BY <1>1, <1>2, <1>3
<1>6. \A f \in filters : f.kind = "range"
  BY <1>1, <1>2, <1>3, InLength, InRecent
<1>7. Eligible(Index[a], Translate(config.searcher.opensearch, Body(q).requests[i]), t)
        <=> /\ \A f \in filters : InRange(Index[a], f, t)
            /\ q.provider # "" => q.provider \in Index[a].text["provider"]
  BY <1>1, <1>4, <1>5, <1>6, SearchFinds
<1>8. (\A f \in filters : InRange(Index[a], f, t))
        <=> InRange(Index[a], w, t) /\ \A f \in LengthFilter(q) : InRange(Index[a], f, t)
  BY <1>3
<1>9. InRange(Index[a], w, t) <=> IF i = 1 THEN Published(a) >= t - Window /\ Published(a) <= t
                                  ELSE Published(a) < t - Window
  BY <1>2, InRecent
<1>10. (\A f \in LengthFilter(q) : InRange(Index[a], f, t))
         <=> (q.filterLength => Index[a].number["article_length"] > 0)
  BY <1>1, InLength
<1> QED
  BY <1>7, <1>8, <1>9, <1>10 DEF Fits

\* Those that the search for some dates finds.
LEMMA DatedFinds ==
  ASSUME IsDeployed, NEW q, IsMade(q), Usable(q), NEW a \in Article, NEW t \in Nat, NEW u \in Nat,
         Eligible(Index[a], Translate(config.searcher.opensearch, Body(q).requests[1]), t)
  PROVE  Fits(a, q) /\ InRange(Index[a], RangeFilter("published_at", Bounds(q.range)), u)
<1>1. /\ IsCall(q)
      /\ None \notin {LengthFilter(q), LengthFilter(q) \union {RangeFilter("published_at", Bounds(q.range))}}
  BY DEF IsMade, IsThere
<1>2. {q.range.start, q.range.end} \subseteq Int
  BY <1>1 DEF Usable, IsCall
<1>3. PICK f : f = RangeFilter("published_at", Bounds(q.range))
  OBVIOUS
<1>4. /\ InRange(Index[a], f, t) <=> InRange(Index[a], f, u)
      /\ q.range.start = 0 /\ q.range.end = 0 => InRange(Index[a], f, t)
      /\ f.kind = "range"
  BY <1>2, <1>3, InBounds
<1>5. PICK filters : filters = LengthFilter(q) \union
                                 IF q.range.start = 0 /\ q.range.end = 0 THEN {} ELSE {f}
  OBVIOUS
<1>6. Body(q).requests[1] = SearchRequest(q, filters)
  BY <1>3, <1>5 DEF Body, Specified
<1>7. filters # None
  BY <1>1, <1>3, <1>5
<1>8. \A g \in filters : g.kind = "range"
  BY <1>1, <1>4, <1>5, InLength
<1>9. /\ \A g \in filters : InRange(Index[a], g, t)
      /\ q.provider # "" => q.provider \in Index[a].text["provider"]
  BY <1>1, <1>6, <1>7, <1>8, SearchFinds
<1>10. \A g \in LengthFilter(q) : InRange(Index[a], g, t)
  BY <1>5, <1>9
<1>11. q.filterLength => Index[a].number["article_length"] > 0
  BY <1>1, <1>10, InLength
<1>12. InRange(Index[a], f, u)
  BY <1>4, <1>5, <1>9
<1> QED
  BY <1>3, <1>9, <1>11, <1>12 DEF Fits

\* The dates that are asked for are those that are usable.
LEMMA UsableIs ==
  ASSUME IsCall(question)
  PROVE  Usable(question) <=> DatesAsked
<1>1. CASE question.range = None
  BY <1>1 DEF Usable, DatesAsked
<1>2. CASE question.range # None
  <2>1. PICK s \in Int, n \in Nat : s = question.range.start /\ n = question.at
    BY <1>2 DEF IsCall
  <2> QED
    BY <1>2, <2>1 DEF Usable, DatesAsked
<1> QED
  BY <1>1, <1>2

---------------------------------------------------------------------------
(* A call of the search function.                                          *)

\* The articles that were found.
FoundArticles(c, r, s) == {x.article : x \in FoundIn(c, r, s)}

\* What a call returns is made of them.
LEMMA ReferencesAre ==
  ASSUME ListsInv, HasLists, IsCall(question),
         NEW A, A = FoundArticles(config, request, searched),
         NEW refs, refs = IF reply.lists = <<>> THEN <<>> ELSE MergeChunks(reply.lists[1].items)
  PROVE  References(A, refs) /\ Len(refs) <= question.chunkNumber
<1>1. Limits
  BY DEF IsCall, Limits
<1>2. CASE reply.lists = <<>>
  <2>1. References(A, <<>>)
    BY DEF References, Distinct
  <2>2. Len(<<>>) <= question.chunkNumber
    BY <1>1 DEF Limits
  <2> QED
    BY <1>2, <2>1, <2>2
<1>3. CASE reply.lists # <<>>
  <2>1. refs = MergeChunks(reply.lists[1].items)
    BY <1>3
  <2>2. PICK S : S = FoundIn(config, request, searched)
    OBVIOUS
  <2>3. reply.lists \in ListsOf(S)
    BY <2>2 DEF ListsInv
  <2>4. 1 \in DOMAIN reply.lists
    BY <1>3, <2>3 DEF ListsOf
  <2>5. reply.lists[1].items \in Seq(S)
    BY <2>3, <2>4, ListIs
  <2>6. PICK T : T = [article : A, score : Nat]
    OBVIOUS
  <2>7. S \subseteq T /\ A \subseteq Article
    BY <2>2, <2>6 DEF FoundIn, Item, FoundArticles
  <2>8. reply.lists[1].items \in Seq(T)
    BY <2>5, <2>7, SeqWithin
  <2> QED
    BY <1>1, <2>1, <2>6, <2>7, <2>8, MergeChunksIs
<1> QED
  BY <1>2, <1>3

\* A call is made once, its request is in service with the deployed files, and
\* its references are of what was found.
PluginInv ==
  /\ plugin \in {"idle", "calling", "done", "failed"}
  /\ plugin = "idle" => question = None
  /\ plugin \in {"calling", "done"} =>
       IsMade(question) /\ (IsDeployed => request = Body(question))
  /\ plugin = "done" =>
       /\ HasLists
       /\ References(FoundArticles(config, request, searched), references)
       /\ Len(references) <= question.chunkNumber
  /\ plugin # "done" => references = <<>>

\* A reply is final, and so is its request.
LEMMA RequestStays ==
  ASSUME ListsInv, ServiceStep
  PROVE  /\ config' = config
         /\ request # None => request' = request
         /\ HasLists => UNCHANGED <<request, reply, searched>>
<1>1. HasLists => request # None /\ reply # None
  BY DEF ListsInv, HasLists
<1>2. CASE ServiceNext \/ UNCHANGED serviceVars
  BY <1>1, <1>2 DEF ServiceNext, Start, Tick, Aggregate, ReturnError, SearchOne, serviceVars
<1>3. CASE \E r : Receive(r)
  BY <1>1, <1>3 DEF Receive
<1> QED
  BY <1>2, <1>3 DEF ServiceStep

\* The deployed files ask for the request as it is.
LEMMA DeployedDefault ==
  ASSUME IsDeployed, NEW r
  PROVE  Defaulted(r) = r
  BY DeployedAssumption DEF IsDeployed, Defaulted, Reranker

\* A step of the search keeps the invariant.
LEMMA PluginStep ==
  ASSUME ListsInv, PluginInv, SearchStep
  PROVE  PluginInv'
<1>1. /\ config' = config
      /\ request # None => request' = request
      /\ HasLists => UNCHANGED <<request, reply, searched>>
  BY RequestStays, SearchStepIsServiceStep
<1>2. IsDeployed' = IsDeployed
  BY <1>1 DEF IsDeployed
<1>3. IsMade(question) => Body(question) # None
  BY DEF IsMade, IsThere
<1>4. CASE UNCHANGED pluginVars
  <2>1. UNCHANGED <<question, plugin, references>>
    BY <1>4 DEF pluginVars
  <2>2. plugin \in {"calling", "done"} /\ IsDeployed => request' = Body(question)
    BY <1>1, <1>3 DEF PluginInv
  <2>3. plugin = "done" => HasLists' /\ reply' = reply
    BY <1>1 DEF PluginInv, HasLists
  <2>4. ASSUME plugin = "done"
        PROVE  References(FoundArticles(config, request, searched), references)'
    <3>1. UNCHANGED <<config, request, searched>>
      BY <1>1, <2>4 DEF PluginInv
    <3>2. References(FoundArticles(config, request, searched), references)
      BY <2>4 DEF PluginInv
    <3>3. PICK A : A = FoundArticles(config, request, searched)
      OBVIOUS
    <3>4. FoundArticles(config, request, searched)' = A
      BY <3>1, <3>3
    <3>5. Merged(A)' = Merged(A)
      BY <2>1 DEF Merged
    <3> QED
      BY <2>1, <3>2, <3>3, <3>4, <3>5 DEF References, Distinct
  <2> QED
    BY <1>2, <2>1, <2>2, <2>3, <2>4 DEF PluginInv
<1>5. ASSUME NEW q, IsMade(q), Call(q) PROVE PluginInv'
  <2>1. /\ question = None /\ question' = q /\ references' = references
        /\ plugin' = "failed" \/ (plugin' = "calling" /\ Receive(Body(q)))
    BY <1>5 DEF Call
  <2>2. plugin # "done"
    BY <1>5, <2>1 DEF PluginInv, IsMade, IsThere
  <2>3. plugin' = "calling" /\ IsDeployed => request' = Body(q)
    BY <2>1, DeployedDefault DEF Receive
  <2> QED
    BY <1>2, <1>5, <2>1, <2>2, <2>3 DEF PluginInv
<1>6. CASE Return
  <2>1. /\ plugin = "calling" /\ HasLists /\ plugin' = "done"
        /\ references' = IF reply.lists = <<>> THEN <<>> ELSE MergeChunks(reply.lists[1].items)
        /\ UNCHANGED <<question, serviceVars>>
    BY <1>6 DEF Return
  <2>2. UNCHANGED <<request, reply, searched, config>>
    BY <2>1 DEF serviceVars
  <2>3. PICK A : A = FoundArticles(config, request, searched)
    OBVIOUS
  <2>4. References(A, references') /\ Len(references') <= question.chunkNumber
    <3>1. IsCall(question)
      BY <2>1 DEF PluginInv, IsMade
    <3> QED
      BY <2>1, <2>3, <3>1, ReferencesAre
  <2>5. Merged(A)' = Merged(A) /\ FoundArticles(config, request, searched)' = A
    BY <2>1, <2>2, <2>3 DEF Merged
  <2>6. References(FoundArticles(config, request, searched), references)'
    BY <2>4, <2>5 DEF References, Distinct
  <2> QED
    BY <1>2, <2>1, <2>2, <2>4, <2>6 DEF PluginInv, HasLists
<1>7. CASE plugin = "calling" /\ plugin' = "failed" /\ UNCHANGED <<question, references, serviceVars>>
  BY <1>7 DEF PluginInv
<1> QED
  BY <1>4, <1>5, <1>6, <1>7 DEF SearchStep, OtherClient, pluginVars

\* What the invariants say of the references.
LEMMA ReferencesWereAsked == ListsInv /\ PluginInv => ReferencesAreAsked
<1> SUFFICES ASSUME ListsInv, PluginInv, plugin = "done", IsDeployed PROVE ReferencesAreAsked
  BY DEF ReferencesAreAsked
<1>1. PICK A : A = FoundArticles(config, request, searched)
  OBVIOUS
<1>2. References(A, references) /\ Len(references) <= question.chunkNumber
  BY <1>1 DEF PluginInv
<1>3. PICK n \in Nat : n = Len(references) /\ DOMAIN references = 1 .. n
                       /\ \A i \in 1 .. n : references[i] \in Merged(A)
  BY <1>2 DEF References
<1>4. \A i, j \in DOMAIN references : i # j => references[i].news # references[j].news
  BY <1>2, <1>3 DEF References, Distinct
<1>5. ASSUME NEW i \in DOMAIN references
      PROVE  /\ Size(references[i]) > question.chunkSize => Cardinality(Text(references[i])) = 1
             /\ \A a \in Text(references[i]) : Index[a].news = references[i].news /\ a \in A
  <2>1. PICK r : r = references[i]
    OBVIOUS
  <2>2. /\ r \in [news : {Index[a].news : a \in A}, text : Seq(A)]
        /\ Len(r.text) > question.chunkSize => Cardinality(Text(r)) = 1
        /\ \A a \in Text(r) : Index[a].news = r.news
    BY <1>3, <2>1 DEF Merged
  <2>3. r.text \in Seq(A)
    BY <2>2
  <2>4. \A a \in Text(r) : a \in A
    BY <2>3 DEF Text
  <2> QED
    BY <2>1, <2>2, <2>4 DEF Size
<1>6. ASSUME NEW a \in A
      PROVE  /\ Fits(a, question)
             /\ IF DatesAsked
                THEN InRange(Index[a], RangeFilter("published_at", Bounds(question.range)), now)
                ELSE Published(a) <= now
  <2>1. IsMade(question) /\ request = Body(question) /\ IsCall(question)
    BY DEF PluginInv, IsMade
  <2>2. PICK i \in DOMAIN request.requests :
          i \in DOMAIN searched /\ a \in FoundBy(config, request.requests[i], searched[i]) /\ a \in Article
    BY <1>1, <1>6 DEF FoundArticles, FoundIn, ItemsFor, Item
  <2>3. PICK t : t = searched[i]
    OBVIOUS
  <2>4. t \in Nat /\ t <= now /\ now \in Nat
    <3>1. searched \in Seq(Nat) /\ searched[i] <= now /\ now \in FirstNow .. MaxNow
      BY <2>2 DEF ListsInv, ConfigInv
    <3> QED
      BY <2>2, <2>3, <3>1, Times
  <2>5. Eligible(Index[a], Translate(config.searcher.opensearch, request.requests[i]), t)
    BY <2>2, <2>3 DEF FoundBy
  <2>6. CASE Usable(question)
    <3>1. i = 1
      BY <2>1, <2>2, <2>6 DEF Body, Specified
    <3>2. Fits(a, question)
          /\ InRange(Index[a], RangeFilter("published_at", Bounds(question.range)), now)
      BY <2>1, <2>2, <2>4, <2>5, <2>6, <3>1, DatedFinds
    <3> QED
      BY <2>1, <2>6, <3>2, UsableIs
  <2>7. CASE ~Usable(question)
    <3>1. i \in {1, 2}
      BY <2>1, <2>2, <2>7 DEF Body, NotSpecified
    <3>2. /\ Fits(a, question)
          /\ IF i = 1 THEN Published(a) >= t - Window /\ Published(a) <= t ELSE Published(a) < t - Window
      BY <2>1, <2>2, <2>4, <2>5, <2>7, <3>1, UndatedFinds
    <3>3. PICK p \in Int : p = Published(a)
      BY <2>2, ArticlesAssumption DEF Published
    <3>4. p <= now
      BY <2>4, <3>2, <3>3 DEF Window
    <3> QED
      BY <2>1, <2>7, <3>2, <3>3, <3>4, UsableIs
  <2> QED
    BY <2>6, <2>7
<1> QED
  BY <1>2, <1>4, <1>5, <1>6 DEF ReferencesAreAsked

\* What they say of the articles that were not found.
LEMMA ArticlesHadTheirChance == ListsInv /\ PluginInv => EveryArticleHasItsChance
<1> SUFFICES ASSUME ListsInv, PluginInv, question # None, plugin # "failed", HasLists,
                    Len(searched) = 2, IsDeployed,
                    NEW a \in Article, NEW first, first = Min({searched[1], searched[2]}),
                    NEW last, last = Max({searched[1], searched[2]}),
                    Fits(a, question), Published(a) <= first,
                    ~(first <= Published(a) + Window /\ Published(a) + Window < last),
                    NEW windows, windows = {i \in Sub : Eligible(Index[a],
                      Translate(config.searcher.opensearch, request.requests[i]), searched[i])}
             PROVE  Cardinality(windows) = 1
  BY DEF EveryArticleHasItsChance
<1>1. IsMade(question) /\ request = Body(question) /\ request # None /\ Len(request.requests) = 2
  BY DEF PluginInv, ListsInv
<1>2. ~Usable(question) /\ Sub = {1, 2}
  <2>1. Usable(question) => Len(request.requests) = 1
    BY <1>1 DEF Body, Specified
  <2>2. ~Usable(question)
    BY <1>1, <2>1
  <2>3. DOMAIN request.requests = {1, 2}
    BY <1>1, <2>2 DEF Body, NotSpecified
  <2> QED
    BY <2>2, <2>3 DEF Sub
<1>3. PICK t1 \in Nat, t2 \in Nat : t1 = searched[1] /\ t2 = searched[2]
  BY DEF ListsInv
<1>4. PICK p \in Int : p = Published(a)
  BY ArticlesAssumption DEF Published
<1>5. 1 \in windows <=> p >= t1 - 3 /\ p <= t1
  BY <1>1, <1>2, <1>3, <1>4, UndatedFinds DEF Window
<1>6. 2 \in windows <=> p < t2 - 3
  BY <1>1, <1>2, <1>3, <1>4, UndatedFinds DEF Window
<1>7. first = (IF t1 <= t2 THEN t1 ELSE t2) /\ last = (IF t1 <= t2 THEN t2 ELSE t1)
  BY <1>3, MinOfTwo, MaxOfTwo
<1>8. p <= first /\ ~(first <= p + 3 /\ p + 3 < last)
  BY <1>4 DEF Window
<1>9. 1 \in windows <=> 2 \notin windows
  BY <1>5, <1>6, <1>7, <1>8
<1>10. windows = {1} \/ windows = {2}
  BY <1>2, <1>9
<1> QED
  BY <1>10, FS_Singleton

\* The search function finds what was asked for, whatever the arguments, the
\* index and the times of the searches are.
THEOREM FunctionFinds == Spec => []SearchFindsWhatWasAsked
<1>1. Init => ListsInv /\ PluginInv
  <2>1. Init => PluginInv
    BY DEF Init, SearchInit, PluginInv
  <2> QED
    BY <2>1, ListsAtFirst
<1>2. ServesInv /\ ListsInv /\ PluginInv /\ [Next]_vars => PluginInv'
  BY ServesNext, PluginStep
<1>3. ListsInv /\ PluginInv => SearchFindsWhatWasAsked
  BY ReferencesWereAsked, ArticlesHadTheirChance DEF SearchFindsWhatWasAsked
<1> QED
  BY <1>1, <1>2, <1>3, ServesAtFirst, ServesNext, ListsNext, PTL DEF Spec

---------------------------------------------------------------------------
(* The search for keywords.                                                *)

\* Another attempt is made after two at most, and one message is sent.
KeywordsInv ==
  /\ mode \in Modes \union {"none"} /\ provider \in Providers \union {"none"}
  /\ goroutine \in {"waiting", "trying", "sending", "ended", "panicked"}
  /\ found \in BOOLEAN
  /\ attempts \in Seq(Outcome) /\ Len(attempts) <= maxRetries
  /\ goroutine = "waiting" => attempts = <<>>
  /\ goroutine = "trying" => Len(attempts) < maxRetries
  /\ sent \in {<<>>, <<"empty">>, <<"full">>}
  /\ goroutine # "ended" => sent = <<>>

\* What a step is to the goroutine.
LEMMA NextIsKeywordsStep == [Next]_vars => UNCHANGED keywordsVars \/ StartKeywords \/ KeywordsNext
<1> SUFFICES ASSUME [Next]_vars, ~UNCHANGED keywordsVars PROVE StartKeywords \/ KeywordsNext
  OBVIOUS
<1>1. CASE \E r \in Request : Begin(r)
  BY <1>1 DEF Begin, searchVars
<1>2. CASE Engine \/ Deliver \/ GiveUp
  BY <1>2 DEF Engine, Choose, Call, Search, SearchCancelled, Summarise, Deliver, GiveUp, searchVars
<1>3. CASE Arrive
  BY <1>3 DEF Arrive, CallForCompletion, Call, OtherClient
<1>4. CASE SearchNext
  BY <1>4 DEF SearchNext, Return, CallFails
<1>5. CASE UNCHANGED vars
  BY <1>5 DEF vars, searchVars
<1> QED
  BY <1>1, <1>2, <1>3, <1>4, <1>5 DEF Next

\* And it keeps the invariant.
LEMMA KeywordsStep ==
  ASSUME KeywordsInv, UNCHANGED keywordsVars \/ StartKeywords \/ KeywordsNext
  PROVE  KeywordsInv'
<1>1. CASE UNCHANGED keywordsVars
  BY <1>1 DEF keywordsVars, KeywordsInv
<1>2. CASE StartKeywords
  BY <1>2 DEF StartKeywords, Prepared, KeywordsInv, maxRetries
<1>3. ASSUME NEW o \in Outcome, Attempt(o), UNCHANGED <<mode, provider, sent>>, found' \in BOOLEAN,
             NextAttempt \/ goroutine' \in {"sending", "panicked"}
      PROVE  KeywordsInv'
  <2>1. PICK S : S = Outcome
    OBVIOUS
  <2>2. attempts \in Seq(S) /\ o \in S
    BY <1>3, <2>1 DEF KeywordsInv
  <2>3. PICK n \in Nat : n = Len(attempts)
    BY <2>2
  <2>4. n < 3 /\ sent = <<>> /\ attempts' = Append(attempts, o)
    BY <1>3, <2>3 DEF KeywordsInv, Attempt, maxRetries
  <2>5. attempts' \in Seq(S) /\ Len(attempts') = n + 1
    BY <2>2, <2>3, <2>4
  <2>6. goroutine' \in {"trying", "sending", "panicked"} /\ (goroutine' = "trying" => Len(attempts') < maxRetries)
    BY <1>3 DEF NextAttempt
  <2>7. Len(attempts') <= maxRetries
    BY <2>4, <2>5 DEF maxRetries
  <2> QED
    BY <1>3, <2>1, <2>4, <2>5, <2>6, <2>7 DEF KeywordsInv
<1>4. CASE SendKeywords
  <2>1. sent = <<>> /\ sent' = Append(<<>>, IF found THEN "full" ELSE "empty")
    BY <1>4 DEF SendKeywords, KeywordsInv
  <2>2. sent' \in {<<"empty">>, <<"full">>}
    BY <2>1
  <2> QED
    BY <1>4, <2>2 DEF SendKeywords, KeywordsInv
<1>5. CASE Unreadable \/ NoReply \/ NoChoices \/ Cut \/ NotJson \/ Partial \/ Both \/ Nil
  <2>1. \E o \in Outcome : /\ Attempt(o) /\ UNCHANGED <<mode, provider, sent>> /\ found' \in BOOLEAN
                           /\ NextAttempt \/ goroutine' \in {"sending", "panicked"}
    BY <1>5 DEF Unreadable, NoReply, NoChoices, Cut, NotJson, Partial, Both, Nil, Outcome, KeywordsInv
  <2> QED
    BY <1>3, <2>1
<1> QED
  BY <1>1, <1>2, <1>4, <1>5 DEF KeywordsNext

---------------------------------------------------------------------------
(* A summary.                                                              *)

\* The news that are listed are those of the references, and the LLM is told of
\* articles of theirs.
TopicOf(refs, l, t) ==
  /\ l = [i \in DOMAIN refs |-> refs[i].news]
  /\ t \in Seq(UNION {Text(refs[j]) : j \in DOMAIN refs})
  /\ refs # <<>> => t # <<>>

\* No success is answered after an error, and of a topic only what was found.
SummaryInv ==
  /\ ask \in Request \union {None}
  /\ engine \in {"idle", "choosing", "searching", "summarising", "returned", "panicked"}
  /\ written \in Seq({200, 400})
  /\ \A i \in DOMAIN told : told[i] \in Article
  /\ answer \in {None, 200, 500}
  /\ ask = None <=> engine = "idle"
  /\ ask = None => written = <<>>
  /\ ask # None => IsDeployed
  /\ engine \in {"choosing", "searching", "summarising"} =>
       written = IF ask.body = "malformed" THEN <<400>> ELSE <<>>
  /\ engine = "summarising" /\ ask.op = "topic" => plugin = "done" /\ TopicOf(references, listed, told)
  /\ engine = "returned" =>
       \/ Head(written) = 400
       \/ /\ written = <<200>> /\ FromBackend
          /\ ask.op = "topic" => plugin = "done" /\ TopicOf(references, listed, told)
  /\ answer = 200 => engine = "returned" /\ Head(written) # 400

\* A concatenation begins as its first part, if there is one.
LEMMA JoinIs ==
  ASSUME NEW S, NEW a \in Seq(S), NEW b \in Seq(S)
  PROVE  /\ a \o b \in Seq(S)
         /\ a # <<>> => a \o b # <<>> /\ Head(a \o b) = Head(a)
         /\ a = <<>> => a \o b = b
<1>1. PICK c : c = a \o b
  OBVIOUS
<1>2. PICK k \in Nat, l \in Nat : k = Len(a) /\ l = Len(b)
  OBVIOUS
<1>3. /\ c \in Seq(S) /\ Len(c) = k + l
      /\ \A i \in 1 .. k + l : c[i] = IF i <= k THEN a[i] ELSE b[i - k]
  BY <1>1, <1>2, ConcatProperties
<1>4. CASE a # <<>>
  <2>1. k > 0
    BY <1>2, <1>4
  <2>2. c[1] = a[1] /\ c # <<>>
    BY <1>3, <2>1
  <2>3. Head(c) = c[1] /\ Head(a) = a[1]
    BY <1>2, <1>3, <2>1
  <2> QED
    BY <1>1, <1>3, <1>4, <2>2, <2>3
<1>5. CASE a = <<>>
  <2>1. k = 0
    BY <1>2, <1>5
  <2>2. Len(c) = Len(b) /\ \A i \in 1 .. Len(c) : c[i] = b[i]
    BY <1>2, <1>3, <2>1
  <2>3. c = b
    BY <1>3, <2>2
  <2> QED
    BY <1>1, <1>3, <1>5, <2>3
<1> QED
  BY <1>4, <1>5

\* The statuses of a handler that writes m and then success.
Joined(w, m) == w \o m \o <<200>>

\* With an error among them, the first status is the error.
LEMMA WrittenIs ==
  ASSUME written = <<>> \/ written = << 400 >>, NEW m, m = <<>> \/ m = << 400 >>,
         written' = Joined(written, m)
  PROVE  /\ written' \in Seq({200, 400})
         /\ IF written = <<>> /\ m = <<>> THEN written' = <<200>> ELSE Head(written') = 400
<1>1. PICK S : S = {200, 400}
  OBVIOUS
<1> DEFINE l == <<200>>
<1>2. l = <<200>>
  OBVIOUS
<1>3. l \in Seq(S)
  BY <1>1, <1>2
<1> HIDE DEF l
<1>4. \A s \in {written, m} : s \in Seq(S) /\ (s # <<>> => Head(s) = 400)
  <2>1. ASSUME NEW s, s = << 400 >> PROVE s \in Seq(S) /\ Head(s) = 400
    BY <1>1, <2>1
  <2>2. <<>> \in Seq(S)
    OBVIOUS
  <2> QED
    BY <2>1, <2>2
<1>5. PICK c : c = written \o m
  OBVIOUS
<1>6. /\ c \in Seq(S)
      /\ written # <<>> => c # <<>> /\ Head(c) = Head(written)
      /\ written = <<>> => c = m
  <2>1. written \in Seq(S) /\ m \in Seq(S)
    BY <1>4
  <2> QED
    BY ONLY <1>5, <2>1, JoinIs
<1>7. written' = c \o l
  BY <1>2, <1>5 DEF Joined
<1>8. /\ written' \in Seq(S)
      /\ c # <<>> => Head(written') = Head(c)
      /\ c = <<>> => written' = l
  <2>1. c \in Seq(S)
    BY <1>6
  <2>2. PICK w : w = written'
    OBVIOUS
  <2>3. /\ w \in Seq(S)
        /\ c # <<>> => Head(w) = Head(c)
        /\ c = <<>> => w = l
    <3>1. w = c \o l
      BY <1>7, <2>2
    <3> QED
      BY ONLY <1>3, <2>1, <3>1, JoinIs
  <2> QED
    BY <2>2, <2>3
<1>9. CASE written = <<>> /\ m = <<>>
  BY <1>1, <1>2, <1>6, <1>8, <1>9
<1>10. CASE ~(written = <<>> /\ m = <<>>)
  <2>1. c # <<>> /\ Head(c) = 400
    BY <1>4, <1>6, <1>10
  <2> QED
    BY <1>1, <1>8, <1>10, <2>1
<1> QED
  BY <1>9, <1>10

\* A call that is done stays so.
LEMMA DoneStays ==
  ASSUME PluginInv, SearchStep, plugin = "done"
  PROVE  UNCHANGED pluginVars
<1>1. question # None
  BY DEF PluginInv, IsMade, IsThere
<1> QED
  BY <1>1 DEF SearchStep, OtherClient, Call, Return

\* What the search function returned is what the topic is of.
LEMMA TopicIs ==
  ASSUME ListsInv, PluginInv, plugin = "done",
         NEW l, l = [i \in DOMAIN references |-> references[i].news],
         NEW t, t = FlattenSeq([i \in 1 .. Min({MaxContents, Len(references)}) |-> references[i].text])
  PROVE  TopicOf(references, l, t) /\ \A i \in DOMAIN t : t[i] \in Article
<1>1. PICK A : A = FoundArticles(config, request, searched)
  OBVIOUS
<1>2. PICK n \in Nat : n = Len(references) /\ DOMAIN references = 1 .. n
                       /\ \A i \in 1 .. n : references[i] \in Merged(A)
  BY <1>1 DEF PluginInv, References
<1>3. A \subseteq Article
  BY <1>1 DEF FoundArticles, FoundIn, Item
<1>4. PICK S : S = UNION {Text(references[j]) : j \in DOMAIN references}
  OBVIOUS
<1>5. ASSUME NEW i \in 1 .. n
      PROVE  references[i].text \in Seq(S) /\ references[i].text \in Seq(A) /\ Len(references[i].text) > 0
  <2>1. PICK r : r = references[i]
    OBVIOUS
  <2>2. r \in [news : {Index[a].news : a \in A}, text : Seq(A)] /\ Len(r.text) > 0
    BY <1>2, <2>1 DEF Merged
  <2>3. PICK x \in Seq(A) : x = r.text
    BY <2>2
  <2>4. \A u \in DOMAIN x : x[u] \in S
    BY <1>2, <1>4, <2>1, <2>3 DEF Text
  <2>5. x \in Seq(S)
    BY <2>3, <2>4
  <2> QED
    BY <2>1, <2>2, <2>3, <2>5
<1>6. PICK k \in Nat : k = Min({MaxContents, Len(references)}) /\ k <= n /\ (n > 0 => k > 0)
  <2>1. PICK z \in Nat \ {0} : z = MaxContents
    BY SummariesAssumption
  <2>2. Min({MaxContents, Len(references)}) = IF z <= n THEN z ELSE n
    BY <1>2, <2>1, MinOfTwo
  <2> QED
    BY <2>1, <2>2
<1>7. PICK texts : texts = [i \in 1 .. k |-> references[i].text]
  OBVIOUS
<1>8. t = FlattenSeq(texts)
  BY <1>6, <1>7
<1>9. texts \in Seq(Seq(S)) /\ texts \in Seq(Seq(A)) /\ DOMAIN texts = 1 .. k
  <2>1. \A i \in 1 .. k : references[i].text \in Seq(S) /\ references[i].text \in Seq(A)
    BY <1>5, <1>6
  <2>2. PICK X, Y : X = Seq(S) /\ Y = Seq(A)
    OBVIOUS
  <2>3. texts \in Seq(X) /\ texts \in Seq(Y)
    BY <1>7, <2>1, <2>2
  <2> QED
    BY <1>7, <2>2, <2>3
<1>10. t \in Seq(S) /\ \A i \in DOMAIN texts : Len(t) >= Len(texts[i])
  BY <1>8, <1>9, FlattenType
<1>11. t \in Seq(A)
  BY <1>8, <1>9, FlattenType
<1>12. references # <<>> => t # <<>>
  <2>1. SUFFICES ASSUME references # <<>> PROVE t # <<>>
    OBVIOUS
  <2>2. n > 0
    <3>1. references \in Seq(Merged(A))
      BY <1>1 DEF PluginInv, References
    <3> QED
      BY <1>2, <2>1, <3>1
  <2>3. 1 \in 1 .. k /\ 1 \in 1 .. n
    BY <1>6, <2>2
  <2>4. Len(texts[1]) > 0 /\ Len(texts[1]) \in Nat
    <3>1. texts[1] = references[1].text
      BY <1>7, <2>3
    <3> QED
      BY <1>5, <2>3, <3>1
  <2>5. Len(t) >= Len(texts[1]) /\ Len(t) \in Nat
    <3>1. Len(t) \in Nat
      BY <1>10
    <3> QED
      BY <1>9, <1>10, <2>3, <3>1
  <2>6. Len(t) > 0
    BY <2>4, <2>5
  <2> QED
    BY <2>6
<1>13. \A i \in DOMAIN t : t[i] \in Article
  BY <1>3, <1>11
<1> QED
  BY <1>4, <1>10, <1>12, <1>13 DEF TopicOf

\* A step of the system keeps the invariant.
LEMMA SummaryStep ==
  ASSUME ListsInv, PluginInv, SummaryInv, SearchStep, config' = config, [Next]_vars
  PROVE  SummaryInv'
<1>1. IsDeployed' = IsDeployed
  BY DEF IsDeployed
<1>2. plugin = "done" => UNCHANGED <<plugin, references>>
  BY DoneStays DEF pluginVars
<1>3. CASE UNCHANGED summaryVars
  BY <1>1, <1>2, <1>3 DEF summaryVars, SummaryInv, FromBackend
<1>4. ASSUME NEW r \in Request, Begin(r) PROVE SummaryInv'
  <2>1. r # None
    BY RequestAssumption
  <2>2. /\ ask = None /\ ask' = r /\ IsDeployed /\ UNCHANGED <<told, answer>>
        /\ \/ engine' = "panicked" /\ written' = written
           \/ /\ engine' = IF r.op = "topic" THEN "choosing" ELSE "summarising"
              /\ written' = IF r.body = "malformed" THEN <<400>> ELSE <<>>
    BY <1>4 DEF Begin, Panics
  <2>3. answer # 200
    BY <2>2 DEF SummaryInv
  <2>4. PICK S : S = Seq({200, 400})
    OBVIOUS
  <2>5. <<400>> \in S /\ <<>> \in S
    BY <2>4
  <2>6. written' \in S
    <3>1. written \in S
      BY <2>4 DEF SummaryInv
    <3>2. written' = written \/ written' = <<400>> \/ written' = <<>>
      BY <2>2
    <3> QED
      BY <2>5, <3>1, <3>2
  <2>7. engine' \in {"panicked", "choosing", "summarising"}
    BY <2>2
  <2>8. engine' \in {"choosing", "searching", "summarising"} =>
          written' = IF ask'.body = "malformed" THEN <<400>> ELSE <<>>
    BY <2>2
  <2>9. engine' = "summarising" => ask'.op # "topic"
    BY <2>2
  <2>10. ask' \in Request /\ ask' # None
    BY <2>1, <2>2
  <2>11. answer' # 200 /\ answer' \in {None, 200, 500} /\ \A i \in DOMAIN told' : told'[i] \in Article
    BY <2>2, <2>3 DEF SummaryInv
  <2> QED
    BY <1>1, <2>2, <2>4, <2>6, <2>7, <2>8, <2>9, <2>10, <2>11 DEF SummaryInv
<1>5. ASSUME engine \in {"choosing", "searching", "summarising"}, Panics, UNCHANGED <<ask, told, answer>>
      PROVE  SummaryInv'
  BY <1>1, <1>5 DEF Panics, SummaryInv
<1>6. ASSUME engine \in {"choosing", "searching", "summarising"}, Fails, UNCHANGED <<ask, told, answer>>
      PROVE  SummaryInv'
  <2>1. written \in {<<>>, <<400>>}
    BY <1>6 DEF SummaryInv
  <2>2. written' = written \o <<400>> \o <<200>> /\ engine' = "returned"
    BY <1>6 DEF Fails, Return200
  <2>3. <<400>> # <<>>
    OBVIOUS
  <2>4. written' \in Seq({200, 400}) /\ Head(written') = 400
    <3>1. PICK m : m = <<400>> /\ m # <<>>
      BY <2>3
    <3>2. written' = Joined(written, m) /\ (m = <<>> \/ m = <<400>>)
      BY <2>2, <3>1 DEF Joined
    <3>3. written = <<>> \/ written = <<400>>
      BY <2>1
    <3>4. /\ written' \in Seq({200, 400})
          /\ IF written = <<>> /\ m = <<>> THEN written' = <<200>> ELSE Head(written') = 400
      BY ONLY <3>1, <3>2, <3>3, WrittenIs
    <3> QED
      BY <3>1, <3>4
  <2> QED
    BY <1>1, <1>6, <2>2, <2>4 DEF SummaryInv
<1>7. CASE Choose
  <2>1. engine = "choosing" /\ UNCHANGED <<ask, told, listed, answer>>
    BY <1>7 DEF Choose
  <2>2. CASE Chat(Fails)
    BY <1>5, <1>6, <2>1, <2>2 DEF Chat
  <2>3. CASE engine' = "searching" /\ UNCHANGED written
    BY <1>1, <2>1, <2>3 DEF SummaryInv
  <2> QED
    BY <1>7, <2>2, <2>3 DEF Choose
<1>8. CASE Search
  <2>1. engine = "searching" /\ UNCHANGED <<ask, answer, searchVars>>
    BY <1>8 DEF Search
  <2>2. CASE plugin = "failed" /\ Fails /\ UNCHANGED <<told, listed>>
    BY <1>6, <2>1, <2>2
  <2>3. CASE /\ plugin = "done" /\ engine' = "summarising" /\ UNCHANGED written
             /\ listed' = [i \in DOMAIN references |-> references[i].news]
             /\ told' = FlattenSeq([i \in 1 .. Min({MaxContents, Len(references)}) |-> references[i].text])
    <3>1. TopicOf(references, listed', told') /\ \A i \in DOMAIN told' : told'[i] \in Article
      BY <2>3, TopicIs
    <3>2. UNCHANGED <<plugin, references>>
      BY <1>2, <2>3
    <3> QED
      BY <1>1, <2>1, <2>3, <3>1, <3>2 DEF SummaryInv
  <2> QED
    BY <1>8, <2>2, <2>3 DEF Search
<1>9. CASE Summarise
  <2>1. engine = "summarising" /\ UNCHANGED <<ask, told, listed, answer>>
    BY <1>9 DEF Summarise
  <2>2. CASE Return200(<<>>)
    <3>1. written = IF ask.body = "malformed" THEN <<400>> ELSE <<>>
      BY <2>1 DEF SummaryInv
    <3>2. written' = written \o <<>> \o <<200>> /\ engine' = "returned"
      BY <2>2 DEF Return200
    <3>3. <<400>> # <<>>
      OBVIOUS
    <3>4. /\ written' \in Seq({200, 400})
          /\ IF ask.body = "malformed" THEN Head(written') = 400 ELSE written' = <<200>>
      <4>1. PICK m : m = <<>>
        OBVIOUS
      <4>2. written' = Joined(written, m) /\ (written = <<>> \/ written = <<400>>)
        BY <3>1, <3>2, <4>1 DEF Joined
      <4>3. /\ written' \in Seq({200, 400})
            /\ IF written = <<>> /\ m = <<>> THEN written' = <<200>> ELSE Head(written') = 400
        BY <4>1, <4>2, WrittenIs
      <4> QED
        BY <3>1, <3>3, <4>1, <4>3
    <3> QED
      BY <1>1, <1>2, <2>1, <3>2, <3>4 DEF SummaryInv, FromBackend
  <2> QED
    BY <1>5, <1>6, <1>9, <2>1, <2>2 DEF Summarise, Chat
<1>10. CASE Deliver \/ GiveUp
  <2>1. UNCHANGED <<ask, engine, written, told, listed>> /\ answer' \in {200, 500}
    BY <1>10 DEF Deliver, GiveUp
  <2>2. answer' = 200 => engine = "returned" /\ Head(written) # 400
    BY <1>10 DEF Deliver, GiveUp, Status
  <2> QED
    BY <1>1, <1>2, <2>1, <2>2 DEF SummaryInv, FromBackend
<1>11. CASE UNCHANGED vars \/ SearchCancelled
  BY <1>3, <1>11 DEF vars, SearchCancelled
<1> QED
  BY <1>3, <1>4, <1>7, <1>8, <1>9, <1>10, <1>11 DEF Next, Engine

\* The invariants of the parts.
SystemInv == ServesInv /\ ListsInv /\ PluginInv /\ KeywordsInv /\ SummaryInv

\* They hold at first.
LEMMA SystemAtFirst == Init => SystemInv
<1> SUFFICES ASSUME Init PROVE SystemInv
  OBVIOUS
<1>1. PluginInv
  BY DEF Init, SearchInit, PluginInv
<1>2. KeywordsInv
  <2>1. /\ mode = "none" /\ provider = "none" /\ goroutine = "waiting"
        /\ attempts = <<>> /\ found = FALSE /\ sent = <<>>
    BY DEF Init, SearchInit, KeywordsInit
  <2>2. attempts \in Seq(Outcome) /\ Len(attempts) = 0
    BY <2>1
  <2>3. Len(attempts) <= maxRetries
    BY <2>2 DEF maxRetries
  <2>4. found \in BOOLEAN /\ sent \in {<<>>, <<"empty">>, <<"full">>}
    BY <2>1
  <2> QED
    BY <2>1, <2>2, <2>3, <2>4 DEF KeywordsInv
<1>3. SummaryInv
  <2>1. <<>> \in Seq({200, 400}) /\ DOMAIN <<>> = {}
    OBVIOUS
  <2> QED
    BY <2>1, RequestAssumption DEF Init, SummaryInv
<1> QED
  BY <1>1, <1>2, <1>3, ServesAtFirst, ListsAtFirst DEF SystemInv

\* And every step of the system keeps them.
LEMMA SystemNext == SystemInv /\ [Next]_vars => SystemInv'
<1> SUFFICES ASSUME SystemInv, [Next]_vars PROVE SystemInv'
  OBVIOUS
<1>1. ServesInv /\ ListsInv /\ PluginInv /\ KeywordsInv /\ SummaryInv
  BY DEF SystemInv
<1>2. ServesInv' /\ SearchStep /\ ServiceStep
  BY <1>1, ServesNext
<1>3. ListsInv'
  BY <1>1, ListsNext
<1>4. PluginInv' /\ config' = config
  BY <1>1, <1>2, PluginStep, RequestStays
<1>5. KeywordsInv'
  BY <1>1, NextIsKeywordsStep, KeywordsStep
<1>6. SummaryInv'
  BY <1>1, <1>2, <1>4, SummaryStep
<1> QED
  BY <1>2, <1>3, <1>4, <1>5, <1>6 DEF SystemInv

\* The types of the system.
LEMMA SystemIsTyped == SystemInv => TypeOK
<1> SUFFICES ASSUME SystemInv PROVE TypeOK
  OBVIOUS
<1>1. ServesInv /\ ConfigInv /\ ListsInv /\ PluginInv /\ KeywordsInv /\ SummaryInv
  BY DEF SystemInv, ServesInv
<1>2. \A i \in DOMAIN searched : searched[i] \in 0 .. now
  <2>1. now \in FirstNow .. MaxNow
    BY <1>1 DEF ConfigInv
  <2>2. \A i \in DOMAIN searched : searched[i] \in Nat /\ searched[i] <= now
    BY <1>1 DEF ListsInv
  <2> QED
    BY <2>1, <2>2, Times
<1>3. \A l \in DOMAIN itemsList : itemsList[l].id \in DOMAIN searched
  <2>1. PICK S : S = SearchedLists(config, request, searched)
    OBVIOUS
  <2>2. itemsList \in Seq(S)
    BY <1>1, <2>1 DEF ListsInv
  <2>3. \A x \in S : x.id \in DOMAIN searched
    BY <2>1 DEF SearchedLists
  <2> QED
    BY <2>2, <2>3
<1>4. \A i \in DOMAIN references : Text(references[i]) \subseteq Article
  <2>1. CASE plugin # "done"
    BY <1>1, <2>1 DEF PluginInv
  <2>2. CASE plugin = "done"
    <3>1. PICK A : A = FoundArticles(config, request, searched)
      OBVIOUS
    <3>2. A \subseteq Article
      BY <3>1 DEF FoundArticles, FoundIn, Item
    <3>3. \A i \in DOMAIN references : references[i] \in Merged(A)
      BY <1>1, <2>2, <3>1 DEF PluginInv, References
    <3>4. \A r \in Merged(A) : r.text \in Seq(A)
      BY DEF Merged
    <3>5. \A r \in Merged(A) : Text(r) \subseteq A
      BY <3>4 DEF Text
    <3> QED
      BY <3>2, <3>3, <3>5
  <2> QED
    BY <2>1, <2>2
<1>5. request = None \/ Len(searched) = Len(request.requests)
  BY <1>1 DEF ListsInv
<1> QED
  BY <1>1, <1>2, <1>3, <1>4, <1>5 DEF TypeOK, ConfigInv, PluginInv, KeywordsInv, SummaryInv

\* A success is of what was asked for.
LEMMA SuccessIsOfItsNews == SystemInv => SummaryIsOfItsNews
<1> SUFFICES ASSUME SystemInv, answer = 200 PROVE SummaryIsOfItsNews
  BY DEF SummaryIsOfItsNews
<1>1. ListsInv /\ PluginInv /\ SummaryInv
  BY DEF SystemInv
<1>2. engine = "returned" /\ Head(written) # 400
  BY <1>1 DEF SummaryInv
<1>3. /\ written = <<200>> /\ FromBackend
      /\ ask.op = "topic" => plugin = "done" /\ TopicOf(references, listed, told)
  BY <1>1, <1>2 DEF SummaryInv
<1>4. IsDeployed
  BY <1>1, <1>2 DEF SummaryInv
<1>5. ASSUME ask.op = "topic"
      PROVE  /\ plugin = "done"
             /\ \A i, j \in DOMAIN listed : i # j => listed[i] # listed[j]
             /\ listed # <<>> => told # <<>>
             /\ {Index[told[i]].news : i \in DOMAIN told} \subseteq ToSet(listed)
             /\ IsDeployed /\ DatesAsked =>
                  \A i \in DOMAIN told :
                    InRange(Index[told[i]], RangeFilter("published_at", Bounds(question.range)), now)
  <2>1. /\ plugin = "done" /\ listed = [i \in DOMAIN references |-> references[i].news]
        /\ told \in Seq(UNION {Text(references[j]) : j \in DOMAIN references})
        /\ references # <<>> => told # <<>>
    BY <1>3, <1>5 DEF TopicOf
  <2>2. /\ \A i, j \in DOMAIN references : i # j => references[i].news # references[j].news
        /\ \A j \in DOMAIN references : \A a \in Text(references[j]) :
             /\ Index[a].news = references[j].news
             /\ DatesAsked => InRange(Index[a], RangeFilter("published_at", Bounds(question.range)), now)
    BY <1>1, <1>4, <2>1, ReferencesWereAsked DEF ReferencesAreAsked
  <2>3. DOMAIN listed = DOMAIN references /\ \A j \in DOMAIN references : listed[j] = references[j].news
    BY <2>1
  <2>4. ASSUME NEW i \in DOMAIN told
        PROVE  /\ Index[told[i]].news \in ToSet(listed)
               /\ DatesAsked =>
                    InRange(Index[told[i]], RangeFilter("published_at", Bounds(question.range)), now)
    <3>1. PICK S : S = UNION {Text(references[j]) : j \in DOMAIN references}
      OBVIOUS
    <3>2. told[i] \in S
      BY <2>1, <2>4, <3>1
    <3>3. PICK j \in DOMAIN references : told[i] \in Text(references[j])
      BY <3>1, <3>2
    <3>4. Index[told[i]].news = listed[j] /\ j \in DOMAIN listed
      BY <2>2, <2>3, <3>3
    <3> QED
      BY <2>2, <3>3, <3>4 DEF ToSet
  <2>5. listed # <<>> => references # <<>>
    BY <2>1
  <2> QED
    BY <2>1, <2>2, <2>3, <2>4, <2>5
<1> QED
  BY <1>3, <1>5 DEF SummaryIsOfItsNews

\* The types of the system, of every value of the constants.
THEOREM SummariesTypeCorrect == Spec => []TypeOK
  BY SystemAtFirst, SystemNext, SystemIsTyped, PTL DEF Spec

\* A user that is answered with success got what was asked for, whatever the LLM
\* made of the topic and whenever the parts of the answer were ready.
THEOREM SuccessIsDeserved == Spec => []SummaryIsOfItsNews
  BY SystemAtFirst, SystemNext, SuccessIsOfItsNews, PTL DEF Spec
=============================================================================
