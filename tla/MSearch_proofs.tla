---------------------------- MODULE MSearch_proofs ----------------------------
(***************************************************************************)
(* Proofs about MSearch, for every number of sub-requests and every choice *)
(* of those that fail: the types, that a response with articles is         *)
(* complete and misses nothing, that a caller is told of a cancellation    *)
(* only for a reason, and that MSearch implements Gathering.               *)
(*                                                                         *)
(* ResponseIsComplete is not inductive: why the select may trust an empty  *)
(* channel is a fact about the goroutines. FailureIsSent says that, while  *)
(* the request waits, a goroutine that failed and got past its send left   *)
(* an error in the channel; ListsAreDone and DoneHasList tie the appended  *)
(* lists to the goroutines that are done.                                  *)
(*                                                                         *)
(* The invariant is extended twice. WInv says what an answer is made of,   *)
(* and that no goroutine is left when there is one, so nothing is appended *)
(* behind its back. CInv follows a cancellation back, through the context, *)
(* the channel and the failures, to its first cause.                       *)
(***************************************************************************)
EXTENDS MSearch, TLAPS

TaskPlace == {"ready", "searching", "failed", "sent", "done"}

\* Where a goroutine is says whether its search failed.
FailureMatchesTask ==
  \A r \in Request :
    /\ task[r] \in {"ready", "searching"} => failure[r] = "none"
    /\ task[r] \in {"failed", "sent"} => failure[r] # "none"

\* Only goroutines that are done without a failure have appended a list.
ListsAreDone ==
  \A i \in DOMAIN itemsList : task[itemsList[i]] = "done" /\ failure[itemsList[i]] = "none"

\* Each of them has.
DoneHasList ==
  \A r \in Request : task[r] = "done" /\ failure[r] = "none" =>
    \E i \in DOMAIN itemsList : itemsList[i] = r

\* None has appended two.
ListsAreDistinct ==
  \A i, j \in DOMAIN itemsList : itemsList[i] = itemsList[j] => i = j

\* Nobody receives while the request waits, so a sent error is still there.
FailureIsSent ==
  phase = "waiting" =>
    \A r \in Request : task[r] \in {"sent", "done"} /\ failure[r] # "none" => errChan # <<>>

\* There is no answer before the end.
NoEarlyAnswer == phase # "answered" => answer = None

\* The request goes on without an error only when every search succeeded.
AggregatesWhenAllSucceed ==
  phase = "aggregating" \/ HasLists =>
    \A r \in Request : task[r] = "done" /\ failure[r] = "none"

IInv ==
  /\ TypeOK
  /\ FailureMatchesTask
  /\ ListsAreDone /\ DoneHasList /\ ListsAreDistinct
  /\ FailureIsSent
  /\ NoEarlyAnswer
  /\ AggregatesWhenAllSucceed

---------------------------------------------------------------------------
\* The types hold at the start.
LEMMA InitTypeOK == ASSUME Init PROVE TypeOK
<1>1. task \in [Request -> {"ready", "searching", "failed", "sent", "done"}]
  BY DEF Init
<1>2. failure \in [Request -> SearchError \union {"none"}]
  BY DEF Init
<1>3. errChan \in Seq(SearchError) /\ itemsList \in Seq(Request)
  BY DEF Init
<1>4. /\ aggregate \in Aggregation
      /\ phase \in {"waiting", "aggregating", "answered"}
      /\ canceled \in BOOLEAN /\ left \in BOOLEAN
      /\ answer \in Answer \union {None}
  BY DEF Init
<1> QED BY <1>1, <1>2, <1>3, <1>4 DEF TypeOK

\* A goroutine's move keeps the types of the goroutines.
LEMMA MoveType ==
  ASSUME NEW r \in Request, NEW from, NEW to \in TaskPlace,
         task \in [Request -> TaskPlace], Move(r, from, to)
  PROVE  task' \in [Request -> TaskPlace] /\ task[r] = from
         /\ task' = [task EXCEPT ![r] = to]
BY DEF Move, TaskPlace

\* So does a goroutine's failure.
LEMMA FailType ==
  ASSUME NEW r \in Request, NEW from, NEW e \in SearchError, TypeOK, Fail(r, from, e)
  PROVE  /\ task' \in [Request -> TaskPlace]
         /\ failure' \in [Request -> SearchError \union {"none"}]
         /\ task[r] = from
         /\ task' = [task EXCEPT ![r] = "failed"]
         /\ failure' = [failure EXCEPT ![r] = e]
<1>1. task \in [Request -> TaskPlace] /\ failure \in [Request -> SearchError \union {"none"}]
  BY DEF TypeOK, TaskPlace
<1>2. Move(r, from, "failed") /\ failure' = [failure EXCEPT ![r] = e]
  BY DEF Fail
<1>3. "failed" \in TaskPlace
  BY DEF TaskPlace
<1> QED BY <1>1, <1>2, <1>3, MoveType

\* The lists of a response are lists.
LEMMA ResponseTypes ==
  ASSUME TypeOK
  PROVE  /\ OwnLists \in Seq(List)
         /\ SplitLists \in Seq(List)
         /\ FlatList \in Seq(List)
<1>1. itemsList \in Seq(Request) /\ N \in Nat /\ N > 0
  BY ConstantsAssumption DEF TypeOK
<1>2. DOMAIN itemsList = 1 .. Len(itemsList) /\ Len(itemsList) \in Nat
  BY <1>1
<1>3. \A i \in DOMAIN itemsList : itemsList[i] \in Request
  BY <1>1
<1>4. OwnLists \in Seq(List)
  <2>1. \A i \in DOMAIN itemsList : [id |-> itemsList[i], from |-> {itemsList[i]}] \in List
    BY <1>1, <1>3 DEF List, Request
  <2> QED BY <1>2, <2>1 DEF OwnLists
<1>5. SplitLists \in Seq(List)
  <2>1. \A i \in DOMAIN itemsList : [id |-> i, from |-> {itemsList[i]}] \in List
    BY <1>2, <1>3 DEF List
  <2> QED BY <1>2, <2>1 DEF SplitLists
<1>6. FlatList \in Seq(List)
  <2> DEFINE all == {itemsList[i] : i \in DOMAIN itemsList}
  <2>1. all \in SUBSET Request
    BY <1>3
  <2>2. [id |-> 0, from |-> all] \in List
    BY <1>1, <2>1 DEF List
  <2>3. FlatList = <<[id |-> 0, from |-> all]>>
    BY DEF FlatList
  <2> HIDE DEF all
  <2> QED BY <2>2, <2>3
<1> QED BY <1>4, <1>5, <1>6

\* Every step keeps the types.
LEMMA NextTypeOK == ASSUME TypeOK, FailureMatchesTask, [Next]_vars PROVE TypeOK'
<1> USE DEF TaskPlace, taskVars
<1>1. ASSUME NEW r \in Request, StartSearch(r) PROVE TypeOK'
  <2>1. task' \in [Request -> TaskPlace] /\ failure' \in [Request -> SearchError \union {"none"}]
    <3>1. CASE Fail(r, "ready", "context canceled")
      BY <3>1, FailType DEF SearchError
    <3>2. CASE Move(r, "ready", "searching") /\ UNCHANGED failure
      BY <3>2, MoveType DEF TypeOK
    <3> QED BY <1>1, <3>1, <3>2 DEF StartSearch
  <2> QED BY <1>1, <2>1 DEF TypeOK, StartSearch
<1>2. ASSUME NEW r \in Request, SearchFails(r) PROVE TypeOK'
  <2>1. PICK e \in SearchError : Fail(r, "searching", e)
    BY <1>2 DEF SearchFails, SearchError
  <2> QED BY <1>2, <2>1, FailType DEF TypeOK, SearchFails
<1>3. ASSUME NEW r \in Request, SearchSucceeds(r) PROVE TypeOK'
  <2>1. task' \in [Request -> TaskPlace]
    BY <1>3, MoveType DEF TypeOK, SearchSucceeds
  <2>2. itemsList' \in Seq(Request)
    BY <1>3 DEF TypeOK, SearchSucceeds
  <2> QED BY <1>3, <2>1, <2>2 DEF TypeOK, SearchSucceeds
<1>4. ASSUME NEW r \in Request, SendError(r) PROVE TypeOK'
  <2>1. task' \in [Request -> TaskPlace]
    BY <1>4, MoveType DEF TypeOK, SendError
  <2>2. failure[r] \in SearchError
    BY <1>4 DEF TypeOK, SendError, Move, FailureMatchesTask
  <2>3. errChan' \in Seq(SearchError)
    BY <1>4, <2>2 DEF TypeOK, SendError
  <2> QED BY <1>4, <2>1, <2>3 DEF TypeOK, SendError
<1>5. ASSUME NEW r \in Request, Cancel(r) PROVE TypeOK'
  <2>1. task' \in [Request -> TaskPlace]
    BY <1>5, MoveType DEF TypeOK, Cancel
  <2> QED BY <1>5, <2>1 DEF TypeOK, Cancel
<1>6. CASE ReceiveError
  <2>1. Head(errChan) \in SearchError /\ Tail(errChan) \in Seq(SearchError)
    BY <1>6 DEF TypeOK, ReceiveError
  <2>2. answer' \in Answer
    BY <1>6, <2>1 DEF ReceiveError, Respond, Answer, Error
  <2> QED BY <1>6, <2>1, <2>2 DEF TypeOK, ReceiveError, Respond
<1>7. CASE ReturnContextError
  <2>1. answer' \in Answer
    BY <1>7 DEF ReturnContextError, Respond, Answer, Error, SearchError
  <2> QED BY <1>7, <2>1 DEF TypeOK, ReturnContextError, Respond
<1>8. CASE ReceiveNil
  BY <1>8 DEF TypeOK, ReceiveNil
<1>9. CASE Aggregate
  <2>1. answer' \in Answer
    <3>1. \A lists \in Seq(List) : [lists |-> lists] \in Answer
      BY DEF Answer
    <3>2. \A e \in Error : [error |-> e] \in Answer
      BY DEF Answer
    <3>3. \/ \E lists \in Seq(List) : answer' = [lists |-> lists]
          \/ \E e \in Error : answer' = [error |-> e]
      <4>1. CASE aggregate.method = "none" /\ Respond([lists |-> OwnLists])
        BY <4>1, ResponseTypes DEF Respond
      <4>2. CASE Respond([lists |-> IF aggregate.preserve THEN SplitLists ELSE FlatList])
        BY <4>2, ResponseTypes DEF Respond
      <4>3. CASE Respond([error |-> "reranker failed"])
        BY <4>3 DEF Respond, Error
      <4>4. CASE Respond([error |-> "invalid aggregate method"])
        BY <4>4 DEF Respond, Error
      <4> QED BY <1>9, <4>1, <4>2, <4>3, <4>4 DEF Aggregate
    <3> QED BY <3>1, <3>2, <3>3
  <2> QED BY <1>9, <2>1 DEF TypeOK, Aggregate, Respond
<1>10. CASE ClientLeaves
  BY <1>10 DEF TypeOK, ClientLeaves
<1>11. CASE UNCHANGED vars
  BY <1>11 DEF TypeOK, vars
<1> QED
  BY <1>1, <1>2, <1>3, <1>4, <1>5, <1>6, <1>7, <1>8, <1>9, <1>10, <1>11
  DEF Next, Task, Select

Parts ==
  /\ FailureMatchesTask
  /\ ListsAreDone /\ DoneHasList /\ ListsAreDistinct
  /\ FailureIsSent
  /\ NoEarlyAnswer
  /\ AggregatesWhenAllSucceed

\* The start has the rest of the invariant: nothing has been appended or sent.
LEMMA InitParts == ASSUME Init PROVE Parts
BY DEF Init, Parts, FailureMatchesTask, ListsAreDone, DoneHasList, ListsAreDistinct,
       FailureIsSent, NoEarlyAnswer, AggregatesWhenAllSucceed, HasLists

\* A goroutine that fails was not done, so what the lists say of the goroutines
\* that are stays as it is.
LEMMA FailStep ==
  ASSUME IInv, NEW r \in Request, NEW from \in {"ready", "searching"}, NEW e \in SearchError,
         Fail(r, from, e), UNCHANGED <<phase, errChan, itemsList, answer>>
  PROVE  Parts'
<1> USE DEF IInv
<1>1. /\ task[r] = from
      /\ task' = [task EXCEPT ![r] = "failed"]
      /\ failure' = [failure EXCEPT ![r] = e]
  BY FailType
<1>2. /\ task \in [Request -> TaskPlace]
      /\ failure \in [Request -> SearchError \union {"none"}]
      /\ \A i \in DOMAIN itemsList : itemsList[i] \in Request
  BY DEF TypeOK, TaskPlace
<1>3. e # "none"
  BY DEF SearchError
<1>4. FailureMatchesTask'
  BY <1>1, <1>2, <1>3 DEF FailureMatchesTask
<1>5. ListsAreDone'
  BY <1>1, <1>2 DEF ListsAreDone
<1>6. DoneHasList'
  BY <1>1, <1>2 DEF DoneHasList
<1>7. ListsAreDistinct' /\ NoEarlyAnswer'
  BY DEF ListsAreDistinct, NoEarlyAnswer
<1>8. FailureIsSent'
  BY <1>1, <1>2 DEF FailureIsSent
<1>9. AggregatesWhenAllSucceed'
  BY <1>1, <1>2 DEF AggregatesWhenAllSucceed, HasLists
<1> QED BY <1>4, <1>5, <1>6, <1>7, <1>8, <1>9 DEF Parts

\* Every step of a goroutine keeps the rest of the invariant.
LEMMA TaskParts == ASSUME IInv, NEW r \in Request, Task(r) PROVE Parts'
<1> USE DEF IInv, taskVars
<1>0. /\ task \in [Request -> TaskPlace]
      /\ failure \in [Request -> SearchError \union {"none"}]
      /\ itemsList \in Seq(Request)
      /\ \A i \in DOMAIN itemsList : itemsList[i] \in Request
  BY DEF TypeOK, TaskPlace
<1>1. CASE StartSearch(r)
  <2>1. CASE Fail(r, "ready", "context canceled")
    BY <1>1, <2>1, FailStep DEF StartSearch, SearchError
  <2>2. CASE Move(r, "ready", "searching") /\ UNCHANGED failure
    <3>1. task[r] = "ready" /\ task' = [task EXCEPT ![r] = "searching"]
      BY <2>2 DEF Move
    <3>2. FailureMatchesTask'
      BY <1>0, <2>2, <3>1 DEF FailureMatchesTask
    <3>3. ListsAreDone' /\ DoneHasList' /\ ListsAreDistinct'
      BY <1>0, <1>1, <2>2, <3>1
      DEF StartSearch, ListsAreDone, DoneHasList, ListsAreDistinct
    <3>4. FailureIsSent' /\ NoEarlyAnswer' /\ AggregatesWhenAllSucceed'
      BY <1>0, <1>1, <2>2, <3>1
      DEF StartSearch, FailureIsSent, NoEarlyAnswer, AggregatesWhenAllSucceed, HasLists
    <3> QED BY <3>2, <3>3, <3>4 DEF Parts
  <2> QED BY <1>1, <2>1, <2>2 DEF StartSearch
<1>2. CASE SearchFails(r)
  <2>1. PICK e \in SearchError : Fail(r, "searching", e)
    BY <1>2 DEF SearchFails, SearchError
  <2> QED BY <1>2, <2>1, FailStep DEF SearchFails
<1>3. CASE SearchSucceeds(r)
  <2>1. /\ task[r] = "searching" /\ task' = [task EXCEPT ![r] = "done"]
        /\ failure[r] = "none"
    BY <1>0, <1>3 DEF SearchSucceeds, Move, FailureMatchesTask
  <2>2. UNCHANGED <<phase, failure, errChan, answer>>
    BY <1>3 DEF SearchSucceeds
  <2>3. /\ itemsList' = Append(itemsList, r)
        /\ DOMAIN itemsList' = DOMAIN itemsList \union {Len(itemsList) + 1}
        /\ Len(itemsList) + 1 \notin DOMAIN itemsList
        /\ itemsList'[Len(itemsList) + 1] = r
        /\ \A i \in DOMAIN itemsList : itemsList'[i] = itemsList[i]
    BY <1>0, <1>3 DEF SearchSucceeds
  <2>4. \A i \in DOMAIN itemsList : itemsList[i] # r
    BY <2>1 DEF ListsAreDone
  <2>5. FailureMatchesTask'
    BY <1>0, <2>1, <2>2 DEF FailureMatchesTask
  <2>6. ListsAreDone'
    BY <1>0, <2>1, <2>2, <2>3, <2>4 DEF ListsAreDone
  <2>7. DoneHasList'
    <3> SUFFICES ASSUME NEW q \in Request, task'[q] = "done", failure'[q] = "none"
                 PROVE  \E i \in DOMAIN itemsList' : itemsList'[i] = q
      BY DEF DoneHasList
    <3>1. CASE q = r
      BY <3>1, <2>3
    <3>2. CASE q # r
      BY <3>2, <1>0, <2>1, <2>2, <2>3 DEF DoneHasList
    <3> QED BY <3>1, <3>2
  <2>8. ListsAreDistinct'
    BY <2>3, <2>4 DEF ListsAreDistinct
  <2>9. FailureIsSent' /\ NoEarlyAnswer' /\ AggregatesWhenAllSucceed'
    BY <1>0, <2>1, <2>2 DEF FailureIsSent, NoEarlyAnswer, AggregatesWhenAllSucceed, HasLists
  <2> QED BY <2>5, <2>6, <2>7, <2>8, <2>9 DEF Parts
<1>4. CASE SendError(r)
  <2>1. task[r] = "failed" /\ task' = [task EXCEPT ![r] = "sent"] /\ failure[r] # "none"
    BY <1>0, <1>4 DEF SendError, Move, FailureMatchesTask
  <2>2. UNCHANGED <<phase, failure, itemsList, answer>>
    BY <1>4 DEF SendError
  <2>3. errChan' # <<>>
    BY <1>4 DEF SendError, TypeOK
  <2>4. FailureMatchesTask' /\ FailureIsSent'
    BY <1>0, <2>1, <2>2, <2>3 DEF FailureMatchesTask, FailureIsSent
  <2>5. ListsAreDone' /\ DoneHasList' /\ ListsAreDistinct'
    BY <1>0, <2>1, <2>2 DEF ListsAreDone, DoneHasList, ListsAreDistinct
  <2>6. NoEarlyAnswer' /\ AggregatesWhenAllSucceed'
    BY <1>0, <2>1, <2>2 DEF NoEarlyAnswer, AggregatesWhenAllSucceed, HasLists
  <2> QED BY <2>4, <2>5, <2>6 DEF Parts
<1>5. CASE Cancel(r)
  <2>1. task[r] = "sent" /\ task' = [task EXCEPT ![r] = "done"] /\ failure[r] # "none"
    BY <1>0, <1>5 DEF Cancel, Move, FailureMatchesTask
  <2>2. UNCHANGED <<phase, failure, errChan, itemsList, answer>>
    BY <1>5 DEF Cancel
  <2>3. FailureMatchesTask' /\ FailureIsSent'
    BY <1>0, <2>1, <2>2 DEF FailureMatchesTask, FailureIsSent
  <2>4. ListsAreDone' /\ DoneHasList' /\ ListsAreDistinct'
    BY <1>0, <2>1, <2>2 DEF ListsAreDone, DoneHasList, ListsAreDistinct
  <2>5. NoEarlyAnswer' /\ AggregatesWhenAllSucceed'
    BY <1>0, <2>1, <2>2 DEF NoEarlyAnswer, AggregatesWhenAllSucceed, HasLists
  <2> QED BY <2>3, <2>4, <2>5 DEF Parts
<1> QED BY <1>1, <1>2, <1>3, <1>4, <1>5 DEF Task

\* A step that leaves goroutines and lists alone keeps what relates them.
LEMMA QuietTasks ==
  ASSUME IInv, UNCHANGED <<taskVars, itemsList>>
  PROVE  FailureMatchesTask' /\ ListsAreDone' /\ DoneHasList' /\ ListsAreDistinct'
BY DEF IInv, taskVars, FailureMatchesTask, ListsAreDone, DoneHasList, ListsAreDistinct

\* Every step of the request or the caller keeps the rest of the invariant.
LEMMA RequestParts ==
  ASSUME IInv, Select \/ Aggregate \/ ClientLeaves \/ UNCHANGED vars
  PROVE  Parts'
<1> USE DEF IInv
<1>1. FailureMatchesTask' /\ ListsAreDone' /\ DoneHasList' /\ ListsAreDistinct'
  BY QuietTasks
  DEF Select, ReceiveError, ReturnContextError, ReceiveNil, Aggregate, ClientLeaves, vars
<1>2. CASE ReceiveError \/ ReturnContextError
  <2>1. phase' = "answered" /\ ~HasLists'
    BY <1>2 DEF ReceiveError, ReturnContextError, Respond, HasLists
  <2> QED BY <1>1, <2>1 DEF Parts, FailureIsSent, NoEarlyAnswer, AggregatesWhenAllSucceed
<1>3. CASE ReceiveNil
  <2>1. \A r \in Request : task[r] = "done" /\ failure[r] = "none"
    BY <1>3 DEF ReceiveNil, AllDone, FailureIsSent
  <2>2. phase' = "aggregating" /\ answer' = None /\ UNCHANGED taskVars
    BY <1>3 DEF ReceiveNil, AllDone, NoEarlyAnswer
  <2> QED BY <1>1, <2>1, <2>2
      DEF Parts, FailureIsSent, NoEarlyAnswer, AggregatesWhenAllSucceed, taskVars
<1>4. CASE Aggregate
  <2>1. phase' = "answered" /\ UNCHANGED taskVars
    BY <1>4 DEF Aggregate, Respond
  <2>2. \A r \in Request : task[r] = "done" /\ failure[r] = "none"
    BY <1>4 DEF Aggregate, AggregatesWhenAllSucceed
  <2> QED BY <1>1, <2>1, <2>2
      DEF Parts, FailureIsSent, NoEarlyAnswer, AggregatesWhenAllSucceed, taskVars
<1>5. CASE ClientLeaves \/ UNCHANGED vars
  <2>1. UNCHANGED <<phase, taskVars, errChan, answer>>
    BY <1>5 DEF ClientLeaves, vars
  <2> QED BY <1>1, <2>1
      DEF Parts, FailureIsSent, NoEarlyAnswer, AggregatesWhenAllSucceed, HasLists, taskVars
<1> QED BY <1>2, <1>3, <1>4, <1>5 DEF Select

\* IInv is inductive.
LEMMA InductiveInvariant == Spec => []IInv
<1>1. Init => IInv
  BY InitTypeOK, InitParts DEF IInv, Parts
<1>2. IInv /\ [Next]_vars => IInv'
  <2> SUFFICES ASSUME IInv, [Next]_vars PROVE IInv'
    OBVIOUS
  <2>1. TypeOK'
    BY NextTypeOK DEF IInv
  <2>2. Parts'
    BY TaskParts, RequestParts DEF Next
  <2> QED BY <2>1, <2>2 DEF IInv, Parts
<1> QED BY <1>1, <1>2, PTL DEF Spec

---------------------------------------------------------------------------
\* The variables have their types, however many sub-requests there are.
THEOREM TypeCorrect == Spec => []TypeOK
<1>1. IInv => TypeOK
  BY DEF IInv
<1> QED BY <1>1, InductiveInvariant, PTL

\* A response with articles is complete, for every number of sub-requests,
\* every interleaving of their goroutines, every failure and cancellation.
THEOREM ResponseComplete == Spec => []ResponseIsComplete
<1>1. IInv => ResponseIsComplete
  <2> SUFFICES ASSUME IInv, phase = "aggregating" \/ HasLists
               PROVE  /\ Failed = {}
                      /\ \A r \in Request : \E i \in DOMAIN itemsList : itemsList[i] = r
                      /\ \A i, j \in DOMAIN itemsList : itemsList[i] = itemsList[j] => i = j
    BY DEF ResponseIsComplete
  <2>1. \A r \in Request : task[r] = "done" /\ failure[r] = "none"
    BY DEF IInv, AggregatesWhenAllSucceed
  <2>2. Failed = {}
    BY <2>1 DEF Failed
  <2>3. \A r \in Request : \E i \in DOMAIN itemsList : itemsList[i] = r
    BY <2>1 DEF IInv, DoneHasList
  <2> QED BY <2>2, <2>3 DEF IInv, ListsAreDistinct
<1> QED BY <1>1, InductiveInvariant, PTL
---------------------------------------------------------------------------

\* Nothing goes on after the wait.
DoneWhenWaitEnds == phase # "waiting" => \A r \in Request : task[r] = "done"

\* The lists of an answer are those that were appended, as one of three shapes.
AnswerIsFromLists == HasLists => answer.lists \in {OwnLists, SplitLists, FlatList}

WInv == IInv /\ DoneWhenWaitEnds /\ AnswerIsFromLists

---------------------------------------------------------------------------
\* A goroutine moves only while the request waits, so there is no answer yet.
LEMMA TaskWhileWaiting ==
  ASSUME WInv, NEW r \in Request, Task(r)
  PROVE  phase = "waiting" /\ phase' = "waiting" /\ answer = None /\ answer' = None
<1>1. task[r] # "done"
  BY DEF Task, StartSearch, SearchFails, SearchSucceeds, SendError, Cancel, Fail, Move
<1>2. phase = "waiting"
  BY <1>1 DEF WInv, DoneWhenWaitEnds
<1>3. answer = None
  BY <1>2 DEF WInv, IInv, NoEarlyAnswer
<1>4. UNCHANGED <<phase, answer>>
  BY DEF Task, StartSearch, SearchFails, SearchSucceeds, SendError, Cancel
<1> QED BY <1>2, <1>3, <1>4

\* The appended lists name the sub-requests, as soon as one may aggregate them.
LEMMA GatheredIsRequest ==
  ASSUME WInv, phase = "aggregating" \/ HasLists
  PROVE  Gathered = Request
<1>1. \A r \in Request : \E i \in DOMAIN itemsList : itemsList[i] = r
  BY DEF WInv, IInv, AggregatesWhenAllSucceed, DoneHasList
<1>2. \A i \in DOMAIN itemsList : itemsList[i] \in Request
  BY DEF WInv, IInv, TypeOK
<1> QED BY <1>1, <1>2 DEF Gathered

\* Each of the three shapes has every article, under ids that differ.
LEMMA ShapesAreWhole ==
  ASSUME IInv, NEW lists \in {OwnLists, SplitLists, FlatList}
  PROVE  /\ UNION {lists[i].from : i \in DOMAIN lists} = Gathered
         /\ \A i, j \in DOMAIN lists : i # j => lists[i].id # lists[j].id
<1>1. CASE lists = OwnLists
  <2>1. /\ DOMAIN lists = DOMAIN itemsList
        /\ \A i \in DOMAIN lists : lists[i].from = {itemsList[i]} /\ lists[i].id = itemsList[i]
    BY <1>1 DEF OwnLists
  <2>2. UNION {lists[i].from : i \in DOMAIN lists} = Gathered
    BY <2>1 DEF Gathered
  <2> QED BY <2>1, <2>2 DEF IInv, ListsAreDistinct
<1>2. CASE lists = SplitLists
  <2>1. /\ DOMAIN lists = DOMAIN itemsList
        /\ \A i \in DOMAIN lists : lists[i].from = {itemsList[i]} /\ lists[i].id = i
    BY <1>2 DEF SplitLists
  <2>2. UNION {lists[i].from : i \in DOMAIN lists} = Gathered
    BY <2>1 DEF Gathered
  <2> QED BY <2>1, <2>2
<1>3. CASE lists = FlatList
  <2>1. DOMAIN lists = {1} /\ lists[1].from = Gathered
    BY <1>3 DEF FlatList, Gathered
  <2> QED BY <2>1
<1> QED BY <1>1, <1>2, <1>3

\* WInv is inductive.
LEMMA WholeInvariant == Spec => []WInv
<1>1. Init /\ IInv => WInv
  BY DEF Init, WInv, DoneWhenWaitEnds, AnswerIsFromLists, HasLists
<1>2. WInv /\ IInv' /\ [Next]_vars => WInv'
  <2> SUFFICES ASSUME WInv, [Next]_vars
               PROVE  DoneWhenWaitEnds' /\ AnswerIsFromLists'
    BY DEF WInv
  <2>1. ASSUME NEW r \in Request, Task(r) PROVE DoneWhenWaitEnds' /\ AnswerIsFromLists'
    BY <2>1, TaskWhileWaiting DEF DoneWhenWaitEnds, AnswerIsFromLists, HasLists
  <2>2. CASE ReceiveError \/ ReturnContextError
    <3>1. ~HasLists' /\ UNCHANGED task /\ \A r \in Request : task[r] = "done"
      BY <2>2 DEF ReceiveError, ReturnContextError, AllDone, Respond, HasLists, taskVars
    <3> QED BY <3>1 DEF DoneWhenWaitEnds, AnswerIsFromLists
  <2>3. CASE ReceiveNil
    <3>1. ~HasLists' /\ UNCHANGED task /\ \A r \in Request : task[r] = "done"
      BY <2>3 DEF ReceiveNil, AllDone, HasLists, taskVars, WInv, IInv, NoEarlyAnswer
    <3> QED BY <3>1 DEF DoneWhenWaitEnds, AnswerIsFromLists
  <2>4. CASE Aggregate
    <3>1. DoneWhenWaitEnds'
      BY <2>4 DEF Aggregate, Respond, WInv, DoneWhenWaitEnds, taskVars
    <3>2. \/ \E lists \in {OwnLists, SplitLists, FlatList} : answer' = [lists |-> lists]
          \/ \E e \in Error : answer' = [error |-> e]
      BY <2>4 DEF Aggregate, Respond, Error
    <3>3. UNCHANGED itemsList
      BY <2>4 DEF Aggregate
    <3>4. AnswerIsFromLists'
      BY <3>2, <3>3 DEF AnswerIsFromLists, HasLists, OwnLists, SplitLists, FlatList
    <3> QED BY <3>1, <3>4
  <2>5. CASE ClientLeaves \/ UNCHANGED vars
    <3>1. UNCHANGED <<phase, task, itemsList, answer>>
      BY <2>5 DEF ClientLeaves, vars, taskVars
    <3> QED BY <3>1
        DEF WInv, DoneWhenWaitEnds, AnswerIsFromLists, HasLists, OwnLists, SplitLists, FlatList
  <2> QED BY <2>1, <2>2, <2>3, <2>4, <2>5 DEF Next, Select
<1> QED BY <1>1, <1>2, InductiveInvariant, PTL DEF Spec

\* The response has the articles of every sub-request, under ids that differ.
THEOREM NothingMissing == Spec => []NothingIsMissing
<1>1. WInv => NothingIsMissing
  <2> SUFFICES ASSUME WInv, HasLists
               PROVE  /\ UNION {answer.lists[i].from : i \in DOMAIN answer.lists} = Request
                      /\ \A i, j \in DOMAIN answer.lists :
                           i # j => answer.lists[i].id # answer.lists[j].id
    BY DEF NothingIsMissing
  <2>1. answer.lists \in {OwnLists, SplitLists, FlatList} /\ IInv
    BY DEF WInv, AnswerIsFromLists
  <2>2. Gathered = Request
    BY GatheredIsRequest
  <2> QED BY <2>1, <2>2, ShapesAreWhole
<1> QED BY <1>1, WholeInvariant, PTL

---------------------------------------------------------------------------
(* The refinement.                                                         *)

Outcome == IF answer = None THEN "none" ELSE IF HasLists THEN "lists" ELSE "error"
Given == IF HasLists THEN UNION {answer.lists[i].from : i \in DOMAIN answer.lists} ELSE {}

\* The substitution of Promised, spelt out.
LEMMA PromisedSteps ==
  /\ Promised!Init <=> Gathered = {} /\ Outcome = "none" /\ Given = {}
  /\ Promised!Gather <=> /\ Outcome = "none"
                         /\ \E r \in Request \ Gathered : Gathered' = Gathered \union {r}
                         /\ Outcome' = Outcome /\ Given' = Given
  /\ Promised!GiveLists <=> /\ Outcome = "none" /\ Gathered = Request
                            /\ Outcome' = "lists" /\ Given' = Request
                            /\ Gathered' = Gathered
  /\ Promised!GiveError <=> /\ Outcome = "none" /\ Outcome' = "error"
                            /\ Gathered' = Gathered /\ Given' = Given
BY DEF Promised!Init, Promised!Gather, Promised!GiveLists, Promised!GiveError, Outcome, Given

\* What stays in a stutter.
LEMMA PromisedVars ==
  /\ Promised!vars = <<Gathered, Outcome, Given>>
  /\ Promised!vars' = <<Gathered, Outcome, Given>>'
BY DEF Promised!vars, Outcome, Given

\* A step that leaves the lists and the answer alone is a stutter.
LEMMA QuietIsStutter ==
  ASSUME UNCHANGED <<itemsList, answer>>
  PROVE  Gathered' = Gathered /\ Outcome' = Outcome /\ Given' = Given
BY DEF Gathered, Outcome, Given, HasLists

\* Every step of MSearch is a step of Gathering, or a stutter.
LEMMA StepSimulation ==
  ASSUME WInv, WInv', [Next]_vars
  PROVE  [Promised!Next]_(Promised!vars)
<1>1. ASSUME NEW r \in Request, Task(r), ~SearchSucceeds(r)
      PROVE  [Promised!Next]_(Promised!vars)
  <2>1. UNCHANGED <<itemsList, answer>>
    BY <1>1 DEF Task, StartSearch, SearchFails, SendError, Cancel
  <2>2. <<Gathered, Outcome, Given>>' = <<Gathered, Outcome, Given>>
    BY <2>1, QuietIsStutter
  <2> QED BY <2>2, PromisedVars
<1>2. ASSUME NEW r \in Request, SearchSucceeds(r)
      PROVE  Promised!Next
  <2>1. answer = None /\ answer' = None
    BY <1>2, TaskWhileWaiting DEF Task
  <2>2. Outcome = "none" /\ Outcome' = Outcome /\ Given' = Given
    BY <2>1 DEF Outcome, Given, HasLists
  <2>3. itemsList \in Seq(Request) /\ itemsList' = Append(itemsList, r)
    BY <1>2 DEF SearchSucceeds, WInv, IInv, TypeOK
  <2>4. Gathered' = Gathered \union {r}
    BY <2>3 DEF Gathered
  <2>5. r \notin Gathered
    <3>1. task[r] = "searching"
      BY <1>2 DEF SearchSucceeds, Move
    <3> QED BY <3>1 DEF Gathered, WInv, IInv, ListsAreDone
  <2>6. Promised!Gather
    BY <2>2, <2>4, <2>5, PromisedSteps
  <2> QED BY <2>6 DEF Promised!Next
<1>3. CASE ReceiveError \/ ReturnContextError
  <2>1. answer = None /\ ~HasLists /\ UNCHANGED itemsList
    BY <1>3 DEF ReceiveError, ReturnContextError, AllDone, WInv, IInv, NoEarlyAnswer, HasLists
  <2>2. answer' # None /\ ~HasLists'
    <3>1. \E e : answer' = [error |-> e]
      BY <1>3 DEF ReceiveError, ReturnContextError, Respond
    <3>2. phase' = "answered" /\ answer' \in Answer \union {None}
      BY <1>3 DEF ReceiveError, ReturnContextError, Respond, WInv, IInv, TypeOK
    <3>3. \E e \in Error : answer' = [error |-> e]
      <4>1. CASE ReturnContextError
        BY <4>1 DEF ReturnContextError, Respond, Error, SearchError
      <4>2. CASE ReceiveError
        <5>1. errChan \in Seq(SearchError) /\ errChan # <<>>
          BY <4>2 DEF ReceiveError, WInv, IInv, TypeOK
        <5>2. Head(errChan) \in SearchError
          <6> HIDE DEF SearchError
          <6> QED BY <5>1
        <5>3. Head(errChan) \in Error
          BY <5>2 DEF Error
        <5> QED BY <4>2, <5>3 DEF ReceiveError, Respond
      <4> QED BY <1>3, <4>1, <4>2
    <3>4. answer' \in Answer
      BY <3>3 DEF Answer
    <3> QED BY <3>3, <3>4, NoneAssumption DEF HasLists
  <2>3. Outcome = "none" /\ Outcome' = "error" /\ Given' = Given /\ Gathered' = Gathered
    BY <2>1, <2>2 DEF Outcome, Given, Gathered
  <2>4. Promised!GiveError
    BY <2>3, PromisedSteps
  <2> QED BY <2>4 DEF Promised!Next
<1>4. CASE ReceiveNil \/ ClientLeaves \/ UNCHANGED vars
  <2>1. UNCHANGED <<itemsList, answer>>
    BY <1>4 DEF ReceiveNil, ClientLeaves, vars
  <2>2. <<Gathered, Outcome, Given>>' = <<Gathered, Outcome, Given>>
    BY <2>1, QuietIsStutter
  <2> QED BY <2>2, PromisedVars
<1>5. CASE Aggregate
  <2>1. answer = None /\ ~HasLists /\ UNCHANGED itemsList
    BY <1>5 DEF Aggregate, WInv, IInv, NoEarlyAnswer, HasLists
  <2>2. Outcome = "none" /\ Given = {} /\ Gathered' = Gathered
    BY <2>1 DEF Outcome, Given, Gathered
  <2>3. Gathered = Request
    BY <1>5, GatheredIsRequest DEF Aggregate
  <2>4. ASSUME NEW e \in Error, answer' = [error |-> e] PROVE Promised!Next
    <3>1. answer' \in Answer /\ ~HasLists'
      BY <2>4 DEF Answer, HasLists
    <3>2. Outcome' = "error" /\ Given' = {}
      BY <3>1, NoneAssumption DEF Outcome, Given
    <3>3. Promised!GiveError
      BY <2>2, <3>2, PromisedSteps
    <3> QED BY <3>3 DEF Promised!Next
  <2>5. ASSUME NEW lists \in {OwnLists, SplitLists, FlatList}, answer' = [lists |-> lists]
        PROVE  Promised!Next
    <3>1. lists \in Seq(List)
      BY ResponseTypes DEF WInv, IInv
    <3>2. answer' \in Answer /\ HasLists' /\ answer'.lists = lists
      <4>1. answer' \in Answer
        BY <2>5, <3>1 DEF Answer
      <4> QED BY <2>5, <4>1, NoneAssumption DEF HasLists
    <3>3. UNION {lists[i].from : i \in DOMAIN lists} = Request
      BY <2>3, ShapesAreWhole DEF WInv
    <3>4. Outcome' = "lists" /\ Given' = Request
      BY <3>2, <3>3, NoneAssumption DEF Outcome, Given
    <3>5. Promised!GiveLists
      BY <2>2, <2>3, <3>4, PromisedSteps
    <3> QED BY <3>5 DEF Promised!Next
  <2>6. \/ \E lists \in {OwnLists, SplitLists, FlatList} : answer' = [lists |-> lists]
        \/ \E e \in Error : answer' = [error |-> e]
    BY <1>5 DEF Aggregate, Respond, Error
  <2> QED BY <2>4, <2>5, <2>6
<1> QED BY <1>1, <1>2, <1>3, <1>4, <1>5 DEF Next, Select

\* MSearch implements Gathering: each sub-request's list is gathered once, and the
\* one answer, behind all of them, has every article or is an error.
THEOREM ImplementsGathering == Spec => GathersEveryList
<1>1. Init => Promised!Init
  <2> SUFFICES ASSUME Init PROVE Gathered = {} /\ Outcome = "none" /\ Given = {}
    BY PromisedSteps
  <2>1. answer = None /\ itemsList = <<>>
    BY DEF Init
  <2> QED BY <2>1 DEF Gathered, Outcome, Given, HasLists
<1>2. WInv /\ WInv' /\ [Next]_vars => [Promised!Next]_(Promised!vars)
  BY StepSimulation
<1> QED BY <1>1, <1>2, WholeInvariant, PTL DEF Spec, GathersEveryList, Promised!Spec

---------------------------------------------------------------------------
(* Cancellation.                                                           *)

HasCause == left \/ \E r \in Request : failure[r] = "search failed"

\* Whoever was told of a cancellation was told by one that has a cause.
CancellationIsTraced ==
  /\ canceled => HasCause
  /\ \A r \in Request : failure[r] = "context canceled" => canceled
  /\ \A i \in DOMAIN errChan : errChan[i] = "context canceled" => canceled

CInv == IInv /\ CancellationIsTraced /\ CancellationHasCause

\* A cause stays.
LEMMA CausesStay == ASSUME IInv, [Next]_vars, HasCause PROVE HasCause'
<1>1. ASSUME NEW r \in Request, Task(r) PROVE HasCause'
  <2>1. \A q \in Request : failure[q] = "search failed" => failure'[q] = "search failed"
    <3>1. failure \in [Request -> SearchError \union {"none"}]
      BY DEF IInv, TypeOK
    <3>2. CASE StartSearch(r) \/ SearchFails(r)
      <4>1. UNCHANGED failure \/ \E e : failure' = [failure EXCEPT ![r] = e]
        BY <3>2 DEF StartSearch, SearchFails, Fail
      <4>2. failure[r] = "none"
        BY <3>2 DEF StartSearch, SearchFails, Fail, Move, IInv, FailureMatchesTask
      <4> QED BY <3>1, <4>1, <4>2
    <3>3. CASE SearchSucceeds(r) \/ SendError(r) \/ Cancel(r)
      BY <3>3 DEF SearchSucceeds, SendError, Cancel
    <3> QED BY <1>1, <3>2, <3>3 DEF Task
  <2>2. UNCHANGED left
    BY <1>1 DEF Task, StartSearch, SearchFails, SearchSucceeds, SendError, Cancel
  <2> QED BY <2>1, <2>2 DEF HasCause
<1>2. CASE ClientLeaves
  BY <1>2 DEF ClientLeaves, HasCause
<1>3. CASE Select \/ Aggregate \/ UNCHANGED vars
  <2>1. UNCHANGED <<left, failure>>
    BY <1>3
    DEF Select, ReceiveError, ReturnContextError, ReceiveNil, Aggregate, vars, taskVars
  <2> QED BY <2>1 DEF HasCause
<1> QED BY <1>1, <1>2, <1>3 DEF Next

\* The trace stays, whatever happens.
LEMMA TraceStays ==
  ASSUME CInv, [Next]_vars
  PROVE  CancellationIsTraced'
<1> USE DEF CInv
<1>0. /\ failure \in [Request -> SearchError \union {"none"}]
      /\ errChan \in Seq(SearchError)
      /\ canceled => HasCause'
  BY CausesStay DEF IInv, TypeOK, CancellationIsTraced
<1>1. ASSUME NEW r \in Request, StartSearch(r) \/ SearchFails(r) PROVE CancellationIsTraced'
  <2>1. UNCHANGED <<canceled, errChan>>
    BY <1>1 DEF StartSearch, SearchFails
  <2>2. \A q \in Request : failure'[q] = "context canceled" => canceled
    BY <1>0, <1>1 DEF StartSearch, SearchFails, Fail, CancellationIsTraced
  <2> QED BY <1>0, <2>1, <2>2 DEF CancellationIsTraced
<1>2. ASSUME NEW r \in Request, SearchSucceeds(r) PROVE CancellationIsTraced'
  BY <1>0, <1>2 DEF SearchSucceeds, CancellationIsTraced
<1>3. ASSUME NEW r \in Request, SendError(r) PROVE CancellationIsTraced'
  <2>1. /\ UNCHANGED <<canceled, failure>>
        /\ errChan' = Append(errChan, failure[r])
    BY <1>3 DEF SendError
  <2>2. \A i \in DOMAIN errChan' : errChan'[i] = "context canceled" => canceled
    <3>1. \A i \in DOMAIN errChan' : \/ i \in DOMAIN errChan /\ errChan'[i] = errChan[i]
                                     \/ errChan'[i] = failure[r]
      BY <1>0, <2>1
    <3> QED BY <3>1 DEF CancellationIsTraced
  <2> QED BY <1>0, <2>1, <2>2 DEF CancellationIsTraced
<1>4. ASSUME NEW r \in Request, Cancel(r) PROVE CancellationIsTraced'
  <2>1. UNCHANGED <<failure, errChan, left>> /\ canceled' = TRUE
    BY <1>4 DEF Cancel
  <2>2. failure[r] \in SearchError
    BY <1>0, <1>4 DEF Cancel, Move, IInv, FailureMatchesTask
  <2>3. HasCause
    BY <2>2 DEF SearchError, CancellationIsTraced, HasCause
  <2>4. HasCause'
    BY <2>3, CausesStay
  <2> QED BY <2>1, <2>4 DEF CancellationIsTraced
<1>5. CASE ClientLeaves
  BY <1>5 DEF ClientLeaves, taskVars, CancellationIsTraced, HasCause
<1>6. CASE Select \/ Aggregate \/ UNCHANGED vars
  <2>1. UNCHANGED <<canceled, failure>>
    BY <1>6
    DEF Select, ReceiveError, ReturnContextError, ReceiveNil, Aggregate, vars, taskVars
  <2>2. \A i \in DOMAIN errChan' : \/ i + 1 \in DOMAIN errChan /\ errChan'[i] = errChan[i + 1]
                                   \/ i \in DOMAIN errChan /\ errChan'[i] = errChan[i]
    <3>1. errChan' = errChan \/ (errChan # <<>> /\ errChan' = Tail(errChan))
      BY <1>6 DEF Select, ReceiveError, ReturnContextError, ReceiveNil, Aggregate, vars
    <3>2. \A i \in DOMAIN Tail(errChan) :
            errChan # <<>> => i + 1 \in DOMAIN errChan /\ Tail(errChan)[i] = errChan[i + 1]
      <4> HIDE DEF SearchError
      <4> QED BY <1>0
    <3> QED BY <3>1, <3>2
  <2> QED BY <1>0, <2>1, <2>2 DEF CancellationIsTraced
<1> QED BY <1>1, <1>2, <1>3, <1>4, <1>5, <1>6 DEF Next, Task

\* An answer about a cancellation is given when there was one.
LEMMA AnswerHasCause ==
  ASSUME CInv, WInv, [Next]_vars
  PROVE  CancellationHasCause'
<1> USE DEF CInv
<1>0. HasCause => HasCause'
  BY CausesStay
<1>1. CASE UNCHANGED answer
  BY <1>0, <1>1 DEF CancellationHasCause, HasCause
<1>2. CASE ReceiveError
  <2>1. errChan \in Seq(SearchError) /\ errChan # <<>>
    BY <1>2 DEF ReceiveError, IInv, TypeOK
  <2>2. 1 \in DOMAIN errChan /\ Head(errChan) = errChan[1]
    BY <2>1
  <2>3. answer' = [error |-> errChan[1]]
    BY <1>2, <2>2 DEF ReceiveError, Respond
  <2>4. answer'.error = errChan[1]
    BY <2>3
  <2>5. ASSUME answer' = [error |-> "context canceled"] PROVE HasCause
    <3>1. answer'.error = "context canceled"
      BY <2>5
    <3> QED BY <2>2, <2>4, <3>1 DEF CancellationIsTraced
  <2> QED BY <1>0, <2>5 DEF CancellationHasCause, HasCause
<1>3. CASE ReturnContextError
  <2>1. HasCause
    BY <1>3 DEF ReturnContextError, CancellationIsTraced
  <2> QED BY <1>0, <2>1 DEF CancellationHasCause, HasCause
<1>4. CASE Aggregate
  <2>1. \/ \E lists : answer' = [lists |-> lists]
        \/ \E e \in {"reranker failed", "invalid aggregate method"} : answer' = [error |-> e]
    BY <1>4 DEF Aggregate, Respond
  <2>2. answer' # [error |-> "context canceled"]
    <3>1. ASSUME NEW lists PROVE [lists |-> lists] # [error |-> "context canceled"]
      <4>1. DOMAIN [lists |-> lists] = {"lists"}
        OBVIOUS
      <4>2. DOMAIN [error |-> "context canceled"] = {"error"}
        OBVIOUS
      <4> QED BY <4>1, <4>2
    <3>2. ASSUME NEW e \in {"reranker failed", "invalid aggregate method"}
          PROVE  [error |-> e] # [error |-> "context canceled"]
      <4>1. [error |-> e].error # [error |-> "context canceled"].error
        OBVIOUS
      <4> QED BY <4>1
    <3> QED BY <2>1, <3>1, <3>2
  <2> QED BY <2>2 DEF CancellationHasCause
<1>5. ASSUME NEW r \in Request, Task(r) PROVE CancellationHasCause'
  <2>1. UNCHANGED answer
    BY <1>5, TaskWhileWaiting
  <2> QED BY <1>1, <2>1
<1>6. CASE ReceiveNil \/ ClientLeaves \/ UNCHANGED vars
  BY <1>1, <1>6 DEF ReceiveNil, ClientLeaves, vars
<1> QED BY <1>2, <1>3, <1>4, <1>5, <1>6 DEF Next, Select

\* An answer with articles is whole, in its lists and in their names.
THEOREM AnswerWhole == Spec => []AnswerIsWhole
<1>1. ResponseIsComplete /\ NothingIsMissing => AnswerIsWhole
  BY DEF AnswerIsWhole
<1> QED BY <1>1, ResponseComplete, NothingMissing, PTL

\* A caller that stays is told of a cancellation only if a search failed by itself.
THEOREM CancellationCaused == Spec => []CancellationHasCause
<1>1. Init /\ IInv => CInv
  <2>0. None # [error |-> "context canceled"]
    <3>1. [error |-> "context canceled"] \in [error : Error]
      BY DEF Error, SearchError
    <3> QED BY <3>1, NoneAssumption DEF Answer
  <2> SUFFICES ASSUME Init PROVE CancellationIsTraced /\ answer = None
    BY <2>0 DEF CInv, CancellationHasCause
  <2>1. ~canceled /\ errChan = <<>> /\ failure = [r \in Request |-> "none"] /\ answer = None
    BY DEF Init
  <2>2. DOMAIN errChan = {}
    BY <2>1
  <2> QED BY <2>1, <2>2 DEF CancellationIsTraced
<1>2. CInv /\ WInv /\ IInv' /\ [Next]_vars => CInv'
  BY TraceStays, AnswerHasCause DEF CInv
<1>3. CInv => CancellationHasCause
  BY DEF CInv
<1> QED BY <1>1, <1>2, <1>3, InductiveInvariant, WholeInvariant, PTL DEF Spec
=============================================================================
