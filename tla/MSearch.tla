------------------------------- MODULE MSearch -------------------------------
(***************************************************************************)
(* MSearch of the search service (search/service/search.go): one goroutine *)
(* per sub-request, an error channel of capacity 1, a context that the     *)
(* first failure cancels, and the aggregation of the lists that came back. *)
(*                                                                         *)
(* A sub-request is its index in req.Requests, which stands for its id,    *)
(* and a list of articles is the set of the sub-requests it came from. No  *)
(* reranker is set, as in search/config/search_config.json, so a goroutine *)
(* only searches; the ranking itself is module RankFusion.                 *)
(***************************************************************************)
EXTENDS Integers, Sequences, FiniteSets

CONSTANTS
  N,               \* how many sub-requests the request has
  CanFail,         \* the sub-requests whose search may fail by itself
  ClientMayLeave,  \* whether the caller may cancel
  None             \* no answer yet

Request == 1 .. N

\* The aggregation asked for; the method is "none" if Aggregate is not set.
Aggregation ==
  [method : {"none", "rrf", "flatten_reranker", "unknown"}, preserve : BOOLEAN]

ASSUME ConstantsAssumption ==
  /\ N \in Nat \ {0}
  /\ CanFail \subseteq Request
  /\ ClientMayLeave \in BOOLEAN

ErrChanCapacity == 1

SearchError == {"search failed", "context canceled"}
Error == SearchError \union {"reranker failed", "invalid aggregate method"}

\* A list of the response: its id, 0 for none, and where its articles are from.
List == [id : Nat, from : SUBSET Request]

Answer == [error : Error] \union [lists : Seq(List)]

ASSUME NoneAssumption == None \notin Answer

VARIABLES
  aggregate,  \* what the request asks for (it never changes)
  phase,      \* getMultiSearchResults waits, MSearch aggregates, has answered
  task,       \* task[r]: where the goroutine of r is
  failure,    \* failure[r]: the error of its search
  canceled,   \* whether the derived context is cancelled
  left,       \* whether the caller has gone, which cancels it too
  errChan,    \* the buffer of errChan
  itemsList,  \* the sub-requests appended to aggregatedItemsList, in order
  answer      \* what MSearch returns

taskVars == <<task, failure>>
vars == <<aggregate, phase, taskVars, canceled, left, errChan, itemsList, answer>>

Init ==
  /\ aggregate \in Aggregation
  /\ phase = "waiting"
  /\ task = [r \in Request |-> "ready"]
  /\ failure = [r \in Request |-> "none"]
  /\ canceled = FALSE
  /\ left = FALSE
  /\ errChan = <<>>
  /\ itemsList = <<>>
  /\ answer = None

---------------------------------------------------------------------------
(* One goroutine.                                                          *)

Move(r, from, to) == task[r] = from /\ task' = [task EXCEPT ![r] = to]

Fail(r, from, e) == Move(r, from, "failed") /\ failure' = [failure EXCEPT ![r] = e]

\* The search is sent, unless its context is already cancelled.
StartSearch(r) ==
  /\ \/ canceled /\ Fail(r, "ready", "context canceled")
     \/ ~canceled /\ Move(r, "ready", "searching") /\ UNCHANGED failure
  /\ UNCHANGED <<aggregate, phase, canceled, left, errChan, itemsList, answer>>

\* OpenSearch answers with an error, or the cancelled context ends the search.
SearchFails(r) ==
  /\ \/ r \in CanFail /\ Fail(r, "searching", "search failed")
     \/ canceled /\ Fail(r, "searching", "context canceled")
  /\ UNCHANGED <<aggregate, phase, canceled, left, errChan, itemsList, answer>>

\* Faulty variant: without the mutex an append may overwrite another.
SearchSucceedsUnlocked(r) ==
  /\ Move(r, "searching", "done")
  /\ \/ itemsList' = Append(itemsList, r)
     \/ /\ itemsList # <<>>
        /\ itemsList' = [itemsList EXCEPT ![Len(itemsList)] = r]
  /\ UNCHANGED <<aggregate, phase, failure, canceled, left, errChan, answer>>

\* Faulty variant: the goroutine cancels the context whenever it ends.
SearchSucceedsCancels(r) ==
  /\ Move(r, "searching", "done")
  /\ itemsList' = Append(itemsList, r)
  /\ canceled' = TRUE
  /\ UNCHANGED <<aggregate, phase, failure, left, errChan, answer>>

\* The list is appended under the mutex; wg.Done follows.
SearchSucceeds(r) ==
  /\ Move(r, "searching", "done")
  /\ itemsList' = Append(itemsList, r)
  /\ UNCHANGED <<aggregate, phase, failure, canceled, left, errChan, answer>>

\* errChan <- err blocks while the buffer is full, and nobody receives before
\* every goroutine is done.
SendError(r) ==
  /\ Len(errChan) < ErrChanCapacity
  /\ Move(r, "failed", "sent")
  /\ errChan' = Append(errChan, failure[r])
  /\ UNCHANGED <<aggregate, phase, failure, canceled, left, itemsList, answer>>

\* Faulty variant: the goroutine ends without wg.Done.
CancelWithoutDone(r) ==
  /\ Move(r, "sent", "gone")
  /\ canceled' = TRUE
  /\ UNCHANGED <<aggregate, phase, failure, left, errChan, itemsList, answer>>

\* cancel(); wg.Done follows.
Cancel(r) ==
  /\ Move(r, "sent", "done")
  /\ canceled' = TRUE
  /\ UNCHANGED <<aggregate, phase, failure, left, errChan, itemsList, answer>>

---------------------------------------------------------------------------
(* The request.                                                            *)

ClientLeaves ==
  /\ ClientMayLeave /\ ~left /\ phase # "answered"
  /\ left' = TRUE
  /\ canceled' = TRUE
  /\ UNCHANGED <<aggregate, phase, taskVars, errChan, itemsList, answer>>

\* Faulty variant: wg.Add is called by each goroutine when it starts.
StartedDone == phase = "waiting" /\ \A r \in Request : task[r] \in {"ready", "done"}

\* wg.Wait.
AllDone == phase = "waiting" /\ \A r \in Request : task[r] = "done"

Respond(a) == phase' = "answered" /\ answer' = a

\* The select takes the error that the closed channel still holds ...
ReceiveError ==
  /\ AllDone
  /\ errChan # <<>>
  /\ Respond([error |-> Head(errChan)])
  /\ errChan' = Tail(errChan)
  /\ UNCHANGED <<aggregate, taskVars, canceled, left, itemsList>>

\* ... or the context, at random when both are ready, ...
ReturnContextError ==
  /\ AllDone
  /\ canceled
  /\ Respond([error |-> "context canceled"])
  /\ UNCHANGED <<aggregate, taskVars, canceled, left, errChan, itemsList>>

\* ... or the nil that a closed and empty channel yields.
ReceiveNil ==
  /\ AllDone
  /\ errChan = <<>>
  /\ phase' = "aggregating"
  /\ UNCHANGED <<aggregate, taskVars, canceled, left, errChan, itemsList, answer>>

\* With PreserveSource the i-th list takes the id of the i-th sub-request.
SplitLists == [i \in DOMAIN itemsList |-> [id |-> i, from |-> {itemsList[i]}]]

FlatList == <<[id |-> 0, from |-> {itemsList[i] : i \in DOMAIN itemsList}]>>

OwnLists == [i \in DOMAIN itemsList |-> [id |-> itemsList[i], from |-> {itemsList[i]}]]

\* aggregateMsearchResults. A reranker that times out is replaced by rrf.
Aggregate ==
  /\ phase = "aggregating"
  /\ \/ aggregate.method = "none" /\ Respond([lists |-> OwnLists])
     \/ /\ aggregate.method \in {"rrf", "flatten_reranker"}
        /\ Respond([lists |-> IF aggregate.preserve THEN SplitLists ELSE FlatList])
     \/ aggregate.method = "flatten_reranker" /\ Respond([error |-> "reranker failed"])
     \/ aggregate.method = "unknown" /\ Respond([error |-> "invalid aggregate method"])
  /\ UNCHANGED <<aggregate, taskVars, canceled, left, errChan, itemsList>>

---------------------------------------------------------------------------
Task(r) ==
  \/ StartSearch(r) \/ SearchFails(r) \/ SearchSucceeds(r)
  \/ SendError(r) \/ Cancel(r)

Select == ReceiveError \/ ReturnContextError \/ ReceiveNil

Next == (\E r \in Request : Task(r)) \/ Select \/ Aggregate \/ ClientLeaves

Spec == Init /\ [][Next]_vars

\* OpenSearch answers every search and every goroutine that can run runs; the
\* caller need not leave.
FairSpec ==
  /\ Spec
  /\ \A r \in Request : WF_vars(Task(r))
  /\ WF_vars(Select) /\ WF_vars(Aggregate)
---------------------------------------------------------------------------
(* Properties.                                                             *)

TypeOK ==
  /\ aggregate \in Aggregation
  /\ phase \in {"waiting", "aggregating", "answered"}
  /\ task \in [Request -> {"ready", "searching", "failed", "sent", "done"}]
  /\ failure \in [Request -> SearchError \union {"none"}]
  /\ canceled \in BOOLEAN
  /\ left \in BOOLEAN
  /\ errChan \in Seq(SearchError)
  /\ itemsList \in Seq(Request)
  /\ answer \in Answer \union {None}

Failed == {r \in Request : failure[r] # "none"}

HasLists == answer # None /\ "lists" \in DOMAIN answer

\* A response with articles is complete: no search of it failed and every
\* sub-request contributed its list exactly once, whatever the interleaving.
ResponseIsComplete ==
  phase = "aggregating" \/ HasLists =>
    /\ Failed = {}
    /\ \A r \in Request : \E i \in DOMAIN itemsList : itemsList[i] = r
    /\ \A i, j \in DOMAIN itemsList : itemsList[i] = itemsList[j] => i = j

\* A caller that stays is told that its context is cancelled only if a search
\* failed by itself. (Which of the two errors it gets is the choice of select.)
CancellationHasCause ==
  answer = [error |-> "context canceled"] =>
    left \/ \E r \in Request : failure[r] = "search failed"

\* "If preserve_source, split rerankedItems into itemsList" (search.go:268):
\* the list with the id of a sub-request has the articles of that sub-request.
SourceIsPreserved ==
  HasLists => \A i \in DOMAIN answer.lists :
    answer.lists[i].id # 0 => answer.lists[i].from = {answer.lists[i].id}

\* Every sub-request is in the response under exactly one id, if not its own.
NothingIsMissing ==
  HasLists =>
    /\ UNION {answer.lists[i].from : i \in DOMAIN answer.lists} = Request
    /\ \A i, j \in DOMAIN answer.lists :
         i # j => answer.lists[i].id # answer.lists[j].id

\* An answer with lists is whole, both in what was gathered and in what it says.
AnswerIsWhole == ResponseIsComplete /\ NothingIsMissing

\* The channel that delivers the error (search.go:320) has room for one: the
\* caller is answered unless two searches fail, for the error of the second
\* finds it full, and nobody receives before all of them are done.
AnswersUnlessTwoFail == <>(phase = "answered" \/ Cardinality(Failed) >= 2)

Gathered == {itemsList[i] : i \in DOMAIN itemsList}

Promised == INSTANCE Gathering WITH
  gathered <- Gathered,
  outcome  <- IF answer = None THEN "none" ELSE IF HasLists THEN "lists" ELSE "error",
  given    <- IF HasLists THEN UNION {answer.lists[i].from : i \in DOMAIN answer.lists} ELSE {}

\* MSearch implements Gathering: each goroutine adds its list once, none after the
\* answer, and the answer is an error or has the articles of all of them.
GathersEveryList == Promised!Spec
=============================================================================
