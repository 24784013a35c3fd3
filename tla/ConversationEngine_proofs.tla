----------------------- MODULE ConversationEngine_proofs -----------------------
(***************************************************************************)
(* Proofs about ConversationEngine, for every list of models, every number *)
(* of keys and chunks, every capacity of the channel and every fault:      *)
(* types; that the attempts follow the list; that nothing is sent on the   *)
(* closed channel; that an answer to a search is whole; and that the       *)
(* engine implements AnswerStream.                                         *)
(*                                                                         *)
(* TriesFollowTheList is not inductive: CountIsTries says that the count   *)
(* of the code is that of the attempts with the current model. Nor is      *)
(* NoSendAfterClose: ClosedIsExited says that the channel is closed only   *)
(* by a goroutine that has ended, so it starts no keywords any more.       *)
(* FlowInv is about what was sent, whether or not the client has it:       *)
(* nothing but keywords is behind a terminal, and the references and the   *)
(* keywords of an attempt are in front of its Done.                        *)
(***************************************************************************)
EXTENDS ConversationEngine, FunctionTheorems, FiniteSetTheorems, TLAPS

\* The count restarts with every model.
CountIsTries == modelIndex <= Len(models) => tries[modelIndex] = fallbackCount

\* Whoever closed the channel has sent everything, and so have the keywords.
ClosedIsExited == closed => engine = "exited" /\ pending = <<>> /\ KeywordsEnded

IInv == TypeOK /\ CountIsTries /\ TriesFollowTheList /\ ClosedIsExited

---------------------------------------------------------------------------
\* A list of models is a sequence of entries.
LEMMA ModelsType ==
  ASSUME TypeOK
  PROVE  /\ models \in Seq([provider : Provider, retries : Nat])
         /\ Len(models) \in Nat /\ DOMAIN models = 1 .. Len(models)
         /\ \A m \in DOMAIN models : models[m].retries \in Nat
<1> DEFINE Entry == [provider : Provider, retries : Nat]
<1>1. models \in Seq(Entry)
  BY ConstantsAssumption DEF TypeOK
<1>2. \A m \in DOMAIN models : models[m] \in Entry
  <2> HIDE DEF Entry
  <2> QED BY <1>1
<1>3. Len(models) \in Nat /\ DOMAIN models = 1 .. Len(models)
  <2> HIDE DEF Entry
  <2> QED BY <1>1
<1> QED BY <1>1, <1>2, <1>3

---------------------------------------------------------------------------
(* The types.                                                              *)

Place == {"choosing", "connecting", "looping", "receiving", "calling", "waiting", "closing", "exited"}

\* Types of what the fallback loop decides.
LoopType ==
  /\ models \in ModelLists
  /\ modelIndex \in 1 .. Len(models) + 1
  /\ keyIndex \in 0 .. AzureKeys
  /\ fallbackCount \in Nat
  /\ modelIndex <= Len(models) => fallbackCount <= Model.retries
  /\ tries \in [DOMAIN models -> Nat]

\* Types of the rest.
RestType ==
  /\ engine \in Place
  /\ pending \in Seq(Kind)
  /\ loopError \in LoopError
  /\ chunks \in 0 .. MaxChunks
  /\ broken \in BOOLEAN
  /\ searched \in BOOLEAN
  /\ keywords \in {"none", "generating", "sending", "ended"}
  /\ sendKeywords \in BOOLEAN
  /\ channel \in Seq(Kind)
  /\ Len(channel) <= Capacity
  /\ closed \in BOOLEAN
  /\ handler \in {"reading", "returned"}
  /\ output \in Seq(Kind)
  /\ ctxDone \in BOOLEAN
  /\ panicked \in BOOLEAN

LEMMA TypeParts == (TypeOK <=> LoopType /\ RestType) /\ (TypeOK' <=> LoopType' /\ RestType')
BY DEF TypeOK, LoopType, RestType, Place

\* The start has the invariant.
LEMMA InitInvariant == Init => IInv
<1> SUFFICES ASSUME Init PROVE IInv
  OBVIOUS
<1> DEFINE Entry == [provider : Provider, retries : Nat]
<1>1. models \in Seq(Entry) /\ models # <<>>
  BY ConstantsAssumption DEF Init
<1>2. /\ Len(models) \in Nat \ {0} /\ DOMAIN models = 1 .. Len(models)
      /\ \A m \in DOMAIN models : models[m].retries \in Nat
  <2>1. /\ Len(models) \in Nat \ {0} /\ DOMAIN models = 1 .. Len(models)
        /\ \A m \in DOMAIN models : models[m] \in Entry
    <3> HIDE DEF Entry
    <3> QED BY <1>1
  <2> QED BY <2>1
<1>3. tries \in [DOMAIN models -> Nat] /\ tries[1] = 0
  BY <1>2 DEF Init
<1>4. TypeOK
  <2>1. modelIndex \in 1 .. Len(models) + 1 /\ fallbackCount = 0 /\ keyIndex \in 0 .. AzureKeys
    BY <1>2, ConstantsAssumption DEF Init
  <2>2. fallbackCount <= Model.retries
    BY <1>2, <2>1 DEF Init, Model
  <2>3. /\ models \in ModelLists /\ loopError \in LoopError /\ chunks \in 0 .. MaxChunks
        /\ Len(channel) <= Capacity
    BY ConstantsAssumption DEF Init, LoopError
  <2>4. pending \in Seq(Kind) /\ channel \in Seq(Kind) /\ output \in Seq(Kind)
    BY DEF Init
  <2>5. LoopType
    BY <1>3, <2>1, <2>2, <2>3 DEF LoopType
  <2>6. RestType
    <3> HIDE DEF Kind, LoopError
    <3> QED BY <2>3, <2>4 DEF Init, RestType, Place
  <2> QED BY <2>5, <2>6, TypeParts
<1>5. CountIsTries /\ TriesFollowTheList /\ ClosedIsExited
  BY <1>2, <1>3 DEF Init, CountIsTries, TriesFollowTheList, ClosedIsExited
<1> QED BY <1>4, <1>5 DEF IInv

\* Only two actions touch the loop.
LEMMA LoopStays ==
  ASSUME LoopType, UNCHANGED loopVars
  PROVE  LoopType'
BY DEF LoopType, loopVars, Model

\* The next model starts with its first key and no attempt.
LEMMA NextModelLoop ==
  ASSUME IInv, NextModel
  PROVE  LoopType'
<1>1. models' = models /\ modelIndex' = modelIndex + 1 /\ fallbackCount' = 0 /\ keyIndex' = 0
      /\ tries' = tries /\ modelIndex <= Len(models)
  BY DEF NextModel
<1>2. LoopType /\ AzureKeys \in Nat
  BY TypeParts, ConstantsAssumption DEF IInv
<1>3. Len(models) \in Nat /\ DOMAIN models = 1 .. Len(models)
      /\ \A m \in DOMAIN models : models[m].retries \in Nat
  BY ModelsType DEF IInv
<1>4. modelIndex' <= Len(models) => 0 <= models[modelIndex'].retries
  BY <1>1, <1>2, <1>3 DEF LoopType
<1> QED BY <1>1, <1>2, <1>3, <1>4 DEF LoopType, Model

\* An attempt is counted, and never goes past the last key.
LEMMA TryModelLoop ==
  ASSUME IInv, TryModel
  PROVE  LoopType'
<1>1. /\ models' = models /\ modelIndex' = modelIndex
      /\ modelIndex <= Len(models) /\ fallbackCount + 1 <= Model.retries
      /\ fallbackCount' = fallbackCount + 1 /\ keyIndex' = NextKey
      /\ tries' = [tries EXCEPT ![modelIndex] = @ + 1]
  BY DEF TryModel
<1>2. LoopType /\ AzureKeys \in Nat
  BY TypeParts, ConstantsAssumption DEF IInv
<1>3. Len(models) \in Nat /\ DOMAIN models = 1 .. Len(models)
  BY ModelsType DEF IInv
<1>4. modelIndex \in DOMAIN models /\ tries' \in [DOMAIN models -> Nat]
  BY <1>1, <1>2, <1>3 DEF LoopType
<1>5. keyIndex' \in 0 .. AzureKeys
  <2>1. NextKey \in {keyIndex, keyIndex + 1} /\ (NextKey # keyIndex => keyIndex < AzureKeys)
    BY DEF NextKey
  <2> QED BY <1>1, <1>2, <2>1 DEF LoopType
<1> QED BY <1>1, <1>2, <1>3, <1>4, <1>5 DEF LoopType, Model

\* Every step keeps the types of the rest.
LEMMA ChooseRest == ASSUME RestType, Choose PROVE RestType'
<1>1. CASE SearchFailed \/ AllFallbackFailed
  <2>1. engine' = "closing" /\ pending' = <<"error">>
    BY <1>1 DEF SearchFailed, AllFallbackFailed, Finish
  <2>2. pending' \in Seq(Kind)
    BY <2>1 DEF Kind
  <2> QED BY <1>1, <2>1, <2>2
      DEF SearchFailed, AllFallbackFailed, RestType, Place, streamVars, keywordVars, handlerVars
<1>2. CASE NextModel
  BY <1>2 DEF NextModel, RestType, LoopError, streamVars, keywordVars, handlerVars
<1>3. CASE TryModel
  <2>1. engine' \in Place /\ loopError' \in LoopError /\ UNCHANGED pending
    BY <1>3 DEF TryModel, GiveUp, At, Place, LoopError
  <2> QED BY <1>3, <2>1 DEF TryModel, RestType, streamVars, handlerVars
<1> QED BY <1>1, <1>2, <1>3 DEF Choose

LEMMA StreamRest == ASSUME RestType, Stream \/ BreakStream PROVE RestType'
<1> USE DEF RestType, Place, loopVars, streamVars, keywordVars, handlerVars
<1>1. CASE ConnectAzure \/ ReceiveNothing \/ BreakStream
  BY <1>1 DEF ConnectAzure, ReceiveNothing, BreakStream
<1>2. CASE Connect
  <2>1. pending' \in Seq(Kind) /\ chunks' \in 0 .. MaxChunks
    BY <1>2, ConstantsAssumption DEF Connect, Kind
  <2> QED BY <1>2, <2>1 DEF Connect
<1>3. CASE ConnectFails
  BY <1>3 DEF ConnectFails, GiveUp, LoopError
<1>4. CASE CheckContext
  <2>1. pending' \in Seq(Kind) /\ engine' \in Place
    <3>1. <<"error">> \in Seq(Kind)
      BY DEF Kind
    <3> QED BY <1>4, <3>1 DEF CheckContext, Finish
  <2> QED BY <1>4, <2>1 DEF CheckContext
<1>5. CASE ReceiveText
  <2>1. pending' \in Seq(Kind) /\ chunks' \in 0 .. MaxChunks
    BY <1>5, ConstantsAssumption DEF ReceiveText, Kind
  <2> QED BY <1>5, <2>1 DEF ReceiveText
<1>6. CASE ReceiveBadLine \/ ReceiveBroken
  BY <1>6 DEF ReceiveBadLine, ReceiveBroken, LoopError
<1>7. CASE ReceiveStop \/ ReceiveStopAfterError
  BY <1>7 DEF ReceiveStop, ReceiveStopAfterError, GiveUp
<1>8. CASE ReceiveFunctionCall
  <2>1. pending' \in Seq(Kind)
    BY <1>8 DEF ReceiveFunctionCall, Kind
  <2> QED BY <1>8, <2>1 DEF ReceiveFunctionCall
<1> QED BY <1>1, <1>2, <1>3, <1>4, <1>5, <1>6, <1>7, <1>8 DEF Stream

LEMMA CallRest == ASSUME RestType, CallSucceeds \/ CallFails \/ Close PROVE RestType'
<1> USE DEF RestType, Place, loopVars, streamVars, keywordVars, handlerVars
<1>1. CASE CallSucceeds
  <2>1. pending' \in Seq(Kind)
    BY <1>1 DEF CallSucceeds, Kind
  <2> QED BY <1>1, <2>1 DEF CallSucceeds
<1>2. CASE CallFails
  BY <1>2 DEF CallFails, GiveUp, LoopError
<1>3. CASE Close
  BY <1>3 DEF Close
<1> QED BY <1>1, <1>2, <1>3

LEMMA ChannelRest ==
  ASSUME RestType, Send \/ SendDone \/ Keywords \/ Handler \/ ClientLeaves
  PROVE  RestType'
<1> USE DEF RestType, Place, loopVars, streamVars, keywordVars, handlerVars
<1>0. Capacity \in Nat /\ Len(channel) \in Nat
  BY ConstantsAssumption
<1>1. CASE Send
  <2>1. Head(pending) \in Kind /\ pending' \in Seq(Kind)
    <3> HIDE DEF Kind
    <3> QED BY <1>1 DEF Send
  <2>2. channel' \in Seq(Kind) /\ Len(channel') <= Capacity
    <3> HIDE DEF Kind
    <3> QED BY <1>0, <1>1, <2>1 DEF Send
  <2> QED BY <1>1, <2>1, <2>2 DEF Send
<1>2. CASE SendDone
  <2>1. pending' \in Seq(Kind)
    BY <1>2 DEF SendDone, Finish, Kind
  <2> QED BY <1>2, <2>1 DEF SendDone, Finish
<1>3. CASE GenerateKeywords
  BY <1>3 DEF GenerateKeywords
<1>4. CASE SendKeywords
  <2>1. channel' \in Seq(Kind) /\ Len(channel') <= Capacity
    <3>1. "keywords" \in Kind
      BY DEF Kind
    <3> HIDE DEF Kind
    <3> QED BY <1>0, <1>4, <3>1 DEF SendKeywords
  <2> QED BY <1>4, <2>1 DEF SendKeywords
<1>5. CASE Take
  <2>1. Head(channel) \in Kind /\ channel' \in Seq(Kind) /\ Len(channel') <= Capacity
    <3> HIDE DEF Kind
    <3> QED BY <1>0, <1>5 DEF Take
  <2>2. output' \in Seq(Kind)
    <3> HIDE DEF Kind
    <3> QED BY <1>5, <2>1 DEF Take
  <2>3. handler' \in {"reading", "returned"} /\ ctxDone' \in BOOLEAN
    BY <1>5 DEF Take, Return
  <2> QED BY <1>5, <2>1, <2>2, <2>3 DEF Take
<1>6. CASE HandlerStops \/ ClientLeaves
  BY <1>6 DEF HandlerStops, ClientLeaves, Return
<1> QED BY <1>1, <1>2, <1>3, <1>4, <1>5, <1>6 DEF Keywords, Handler

\* Every step but two leaves the loop alone.
LEMMA OthersKeepLoop ==
  ASSUME Next, ~NextModel, ~TryModel
  PROVE  UNCHANGED loopVars
BY DEF Next, Engine, Work, Call, Choose, SearchFailed, AllFallbackFailed, Stream, ConnectAzure, Connect,
       ConnectFails, CheckContext, ReceiveText, ReceiveBadLine, ReceiveBroken, ReceiveStop,
       ReceiveStopAfterError, ReceiveNothing, ReceiveFunctionCall, CallSucceeds, CallFails,
       Send, SendDone, Close, Keywords, GenerateKeywords, SendKeywords, Handler, Take,
       HandlerStops, BreakStream, ClientLeaves

LEMMA NextTypeOK == ASSUME IInv, [Next]_vars PROVE TypeOK'
<1>0. LoopType /\ RestType
  BY TypeParts DEF IInv
<1>1. CASE Next
  <2>1. LoopType'
    BY <1>0, <1>1, NextModelLoop, TryModelLoop, OthersKeepLoop, LoopStays
  <2>2. RestType'
    <3>1. \/ Choose \/ (Stream \/ BreakStream) \/ (CallSucceeds \/ CallFails \/ Close)
          \/ (Send \/ SendDone \/ Keywords \/ Handler \/ ClientLeaves)
      BY <1>1 DEF Next, Engine, Work, Call
    <3> QED BY <1>0, <3>1, ChooseRest, StreamRest, CallRest, ChannelRest
  <2> QED BY <2>1, <2>2, TypeParts
<1>2. CASE UNCHANGED vars
  BY <1>0, <1>2, TypeParts
  DEF vars, LoopType, RestType, Model, loopVars, streamVars, keywordVars, handlerVars
<1> QED BY <1>1, <1>2

---------------------------------------------------------------------------
(* The attempts.                                                           *)

Attempts == CountIsTries /\ TriesFollowTheList

LEMMA NextModelAttempts == ASSUME IInv, NextModel PROVE Attempts'
<1>1. /\ models' = models /\ modelIndex' = modelIndex + 1 /\ fallbackCount' = 0 /\ tries' = tries
      /\ modelIndex <= Len(models) /\ fallbackCount + 1 > Model.retries
  BY DEF NextModel
<1>2. /\ modelIndex \in 1 .. Len(models) + 1 /\ fallbackCount \in Nat
      /\ fallbackCount <= Model.retries
      /\ tries[modelIndex] = fallbackCount
  BY <1>1 DEF IInv, TypeOK, CountIsTries
<1>3. Len(models) \in Nat /\ DOMAIN models = 1 .. Len(models)
      /\ \A m \in DOMAIN models : models[m].retries \in Nat
  BY ModelsType DEF IInv
<1>4. tries[modelIndex] = models[modelIndex].retries
  BY <1>1, <1>2, <1>3 DEF Model
<1>5. CountIsTries'
  BY <1>1, <1>2, <1>3 DEF CountIsTries, IInv, TriesFollowTheList
<1>6. TriesFollowTheList'
  BY <1>1, <1>2, <1>3, <1>4 DEF IInv, TriesFollowTheList
<1> QED BY <1>5, <1>6 DEF Attempts

LEMMA TryModelAttempts == ASSUME IInv, TryModel PROVE Attempts'
<1>1. /\ models' = models /\ modelIndex' = modelIndex
      /\ modelIndex <= Len(models) /\ fallbackCount + 1 <= Model.retries
      /\ fallbackCount' = fallbackCount + 1
      /\ tries' = [tries EXCEPT ![modelIndex] = @ + 1]
  BY DEF TryModel
<1>2. /\ modelIndex \in DOMAIN models /\ fallbackCount \in Nat
      /\ tries \in [DOMAIN models -> Nat] /\ tries[modelIndex] = fallbackCount
  BY <1>1, ModelsType DEF IInv, TypeOK, CountIsTries
<1>3. tries'[modelIndex] = fallbackCount + 1
      /\ \A m \in DOMAIN models : m # modelIndex => tries'[m] = tries[m]
  BY <1>1, <1>2
<1>4. CountIsTries'
  BY <1>1, <1>3 DEF CountIsTries
<1>5. TriesFollowTheList'
  BY <1>1, <1>2, <1>3, ModelsType DEF IInv, TriesFollowTheList, Model
<1> QED BY <1>4, <1>5 DEF Attempts

LEMMA NextAttempts == ASSUME IInv, [Next]_vars PROVE Attempts'
<1>1. CASE NextModel \/ TryModel
  BY <1>1, NextModelAttempts, TryModelAttempts
<1>2. CASE UNCHANGED loopVars
  BY <1>2 DEF IInv, Attempts, CountIsTries, TriesFollowTheList, loopVars
<1> QED BY <1>1, <1>2, OthersKeepLoop DEF vars

---------------------------------------------------------------------------
(* The closed channel.                                                     *)

\* A goroutine that has ended does nothing more.
LEMMA ExitedIsIdle ==
  ASSUME engine = "exited", pending = <<>>, KeywordsEnded, [Next]_vars
  PROVE  UNCHANGED <<engine, pending, keywords, closed>>
<1>1. ~Engine
  BY DEF Engine, Work, Call, Choose, SearchFailed, AllFallbackFailed, NextModel, TryModel, Stream,
         ConnectAzure, Connect, ConnectFails, CheckContext, ReceiveText, ReceiveBadLine,
         ReceiveBroken, ReceiveStop, ReceiveStopAfterError, ReceiveNothing, ReceiveFunctionCall,
         CallSucceeds, CallFails, Send, SendDone, Close, At
<1>2. ~Keywords
  BY DEF Keywords, GenerateKeywords, SendKeywords, KeywordsEnded
<1>3. ~BreakStream
  BY DEF BreakStream
<1> QED BY <1>1, <1>2, <1>3
    DEF Next, Handler, Take, HandlerStops, ClientLeaves, vars, keywordVars

LEMMA NextClosed == ASSUME IInv, [Next]_vars PROVE ClosedIsExited'
<1>1. CASE closed
  <2>1. UNCHANGED <<engine, pending, keywords, closed>>
    BY <1>1, ExitedIsIdle DEF IInv, ClosedIsExited
  <2> QED BY <1>1, <2>1 DEF IInv, ClosedIsExited, KeywordsEnded
<1>2. CASE Close
  BY <1>2 DEF Close, At, ClosedIsExited, KeywordsEnded, keywordVars
<1>3. CASE ~closed /\ ~Close
  <2>1. UNCHANGED closed
    BY <1>3
    DEF Next, Engine, Work, Call, Choose, SearchFailed, AllFallbackFailed, NextModel, TryModel, Stream,
        ConnectAzure, Connect, ConnectFails, CheckContext, ReceiveText, ReceiveBadLine,
        ReceiveBroken, ReceiveStop, ReceiveStopAfterError, ReceiveNothing, ReceiveFunctionCall,
        CallSucceeds, CallFails, Send, SendDone, Keywords, GenerateKeywords, SendKeywords,
        Handler, Take, HandlerStops, BreakStream, ClientLeaves, vars
  <2> QED BY <1>3, <2>1 DEF ClosedIsExited
<1> QED BY <1>1, <1>2, <1>3

\* IInv is inductive.
LEMMA InductiveInvariant == Spec => []IInv
<1>1. IInv /\ [Next]_vars => IInv'
  BY NextTypeOK, NextAttempts, NextClosed DEF IInv, Attempts
<1> QED BY <1>1, InitInvariant, PTL DEF Spec

---------------------------------------------------------------------------
\* The variables have their types, whatever the list, the faults and the sizes.
THEOREM TypeCorrect == Spec => []TypeOK
<1>1. IInv => TypeOK
  BY DEF IInv
<1> QED BY <1>1, InductiveInvariant, PTL

\* The models are tried in order, each as often as the list says and no more.
THEOREM TriesInOrder == Spec => []TriesFollowTheList
<1>1. IInv => TriesFollowTheList
  BY DEF IInv
<1> QED BY <1>1, InductiveInvariant, PTL

\* Nothing is sent on the closed channel, which would end the process.
THEOREM ClosedIsSafe == Spec => []NoSendAfterClose
<1>1. IInv => NoSendAfterClose
  BY DEF IInv, ClosedIsExited, NoSendAfterClose
<1> QED BY <1>1, InductiveInvariant, PTL
---------------------------------------------------------------------------
(* What was sent, in order. Only Send and SendKeywords add to it: the      *)
(* handler takes from its front.                                           *)

Sent == output \o channel

Terminal == {"error", "done"}

\* The goroutine has at most one result to send before it goes on.
OnePending ==
  pending \in {<<>>, <<"usage">>, <<"text">>, <<"references">>, <<"error">>, <<"done">>}

Places ==
  /\ engine \in {"connecting", "looping", "receiving", "calling", "waiting"} =>
       modelIndex <= Len(models) /\ loopError # "searchFailed"
  /\ engine = "calling" => ~searched
  /\ pending = <<"references">> => engine = "connecting"
  /\ pending \in {<<"error">>, <<"done">>} => engine = "closing"
  /\ engine = "exited" => pending = <<>>

\* One search, one generation of keywords, one result with them.
KeywordsOnce ==
  /\ keywords = "none" <=> ~searched
  /\ sendKeywords => searched
  /\ keywords # "ended" => \A i \in DOMAIN Sent : Sent[i] # "keywords"
  /\ keywords = "ended" =>
       \E k \in DOMAIN Sent : \A i \in DOMAIN Sent : Sent[i] = "keywords" <=> i = k

\* Behind a terminal come keywords at most.
TerminalIsLast ==
  \A i \in DOMAIN Sent : Sent[i] \in Terminal =>
    /\ engine \in {"closing", "exited"} /\ pending = <<>>
    /\ \A j \in DOMAIN Sent : i < j => Sent[j] = "keywords"

\* The references, and the keywords of the attempt, are sent before Done.
SentBeforeDone ==
  /\ searched => pending = <<"references">> \/ \E i \in DOMAIN Sent : Sent[i] = "references"
  /\ pending = <<"done">> /\ sendKeywords => keywords = "ended"
  /\ \A i \in DOMAIN Sent : Sent[i] = "done" =>
       /\ searched => \E j \in DOMAIN Sent : j < i /\ Sent[j] = "references"
       /\ sendKeywords => \E j \in DOMAIN Sent : j < i /\ Sent[j] = "keywords"

\* The handler returns with the first terminal.
ReadsToTerminal == handler = "reading" => \A i \in DOMAIN output : output[i] \notin Terminal

FlowInv ==
  OnePending /\ Places /\ KeywordsOnce /\ TerminalIsLast /\ SentBeforeDone /\ ReadsToTerminal

\* A result that is appended comes last.
LEMMA Appended ==
  ASSUME NEW S, NEW s \in Seq(S), NEW k \in S
  PROVE  /\ Append(s, k) \in Seq(S)
         /\ Len(s) \in Nat /\ DOMAIN s = 1 .. Len(s)
         /\ DOMAIN Append(s, k) = 1 .. Len(s) + 1
         /\ Append(s, k)[Len(s) + 1] = k
         /\ \A i \in DOMAIN s : Append(s, k)[i] = s[i] /\ i \in DOMAIN Append(s, k)
OBVIOUS

LEMMA AppendToSecond ==
  ASSUME NEW S, NEW s \in Seq(S), NEW c \in Seq(S), NEW k \in S
  PROVE  s \o Append(c, k) = Append(s \o c, k)
OBVIOUS

LEMMA HandOver ==
  ASSUME NEW S, NEW s \in Seq(S), NEW c \in Seq(S), c # <<>>
  PROVE  Append(s, Head(c)) \o Tail(c) = s \o c
OBVIOUS

LEMMA SentTypes ==
  ASSUME TypeOK
  PROVE  /\ output \in Seq(Kind) /\ channel \in Seq(Kind) /\ pending \in Seq(Kind)
         /\ Sent \in Seq(Kind) /\ Len(Sent) \in Nat /\ DOMAIN Sent = 1 .. Len(Sent)
         /\ Len(output) \in Nat /\ DOMAIN output = 1 .. Len(output)
         /\ \A i \in DOMAIN output : i \in DOMAIN Sent /\ Sent[i] = output[i]
<1>1. output \in Seq(Kind) /\ channel \in Seq(Kind) /\ pending \in Seq(Kind)
  BY DEF TypeOK
<1> HIDE DEF Kind
<1> QED BY <1>1 DEF Sent

LEMMA PendingFirst ==
  ASSUME OnePending, pending # <<>>
  PROVE  /\ Tail(pending) = <<>> /\ pending = <<Head(pending)>>
         /\ Head(pending) \in Kind \ {"keywords"}
<1>1. PICK k \in {"usage", "text", "references", "error", "done"} : pending = <<k>>
  BY DEF OnePending
<1>2. Head(pending) = k /\ Tail(pending) = <<>>
  BY <1>1
<1> QED BY <1>1, <1>2 DEF Kind

Local == Choose \/ Stream \/ CallSucceeds \/ CallFails \/ SendDone \/ Close

\* What the goroutine does between two results.
LEMMA LocalPending ==
  ASSUME Local
  PROVE  /\ pending = <<>> /\ UNCHANGED <<output, channel, handler>>
         /\ pending' \in {<<>>, <<"usage">>, <<"text">>, <<"references">>, <<"error">>, <<"done">>}
         /\ engine # "exited" /\ (engine = "closing" => Close)
         /\ pending' = <<"references">> => CallSucceeds
         /\ pending' = <<"done">> => SendDone
         /\ pending' \in {<<"error">>, <<"done">>} => engine' = "closing"
         /\ engine' = "exited" => pending' = <<>>
<1> USE DEF handlerVars
<1>1. CASE SearchFailed \/ AllFallbackFailed
  BY <1>1 DEF SearchFailed, AllFallbackFailed, Finish, At
<1>2. CASE NextModel \/ TryModel
  BY <1>2 DEF NextModel, TryModel, GiveUp, At
<1>3. CASE ConnectAzure \/ ReceiveNothing \/ ReceiveBadLine \/ ReceiveBroken \/ ReceiveStop
  BY <1>3 DEF ConnectAzure, ReceiveNothing, ReceiveBadLine, ReceiveBroken, ReceiveStop, At
<1>4. CASE ConnectFails \/ ReceiveStopAfterError \/ CallFails
  BY <1>4 DEF ConnectFails, ReceiveStopAfterError, CallFails, GiveUp, At
<1>5. CASE Connect \/ ReceiveText \/ ReceiveFunctionCall
  BY <1>5 DEF Connect, ReceiveText, ReceiveFunctionCall, At
<1>6. CASE CheckContext \/ SendDone
  BY <1>6 DEF CheckContext, SendDone, Finish, At
<1>7. CASE CallSucceeds
  BY <1>7 DEF CallSucceeds, At
<1>8. CASE Close
  BY <1>8 DEF Close, At
<1> QED BY <1>1, <1>2, <1>3, <1>4, <1>5, <1>6, <1>7, <1>8 DEF Local, Choose, Stream

LEMMA LocalKeywords ==
  ASSUME Local
  PROVE  \/ CallSucceeds /\ searched' /\ keywords' = "generating" /\ engine = "calling"
         \/ /\ ~CallSucceeds /\ UNCHANGED <<searched, keywords>>
            /\ sendKeywords' = sendKeywords \/ (~sendKeywords' /\ engine = "choosing")
<1> USE DEF keywordVars
<1>1. CASE CallSucceeds
  BY <1>1 DEF CallSucceeds, At
<1>2. CASE ~CallSucceeds /\ Choose
  BY <1>2 DEF Choose, SearchFailed, AllFallbackFailed, NextModel, TryModel, At
<1>3. CASE ~CallSucceeds /\ ~Choose
  BY <1>3 DEF Local, Stream, ConnectAzure, Connect, ConnectFails, CheckContext, ReceiveText,
              ReceiveBadLine, ReceiveBroken, ReceiveStop, ReceiveStopAfterError, ReceiveNothing,
              ReceiveFunctionCall, CallFails, SendDone, Close
<1> QED BY <1>1, <1>2, <1>3

\* Only the fallback loop moves to another model, and it leaves no attempt open.
LEMMA LocalPlaces ==
  ASSUME Places, Local
  PROVE  Places'
<1>1. CASE Choose
  BY <1>1 DEF Choose, SearchFailed, AllFallbackFailed, NextModel, TryModel, At, Finish, GiveUp,
              Places, loopVars
<1>2. CASE Stream
  <2>1. CASE ConnectAzure \/ ReceiveNothing \/ ReceiveStop
    BY <1>2, <2>1 DEF ConnectAzure, ReceiveNothing, ReceiveStop, At, Places, loopVars
  <2>2. CASE ConnectFails \/ ReceiveStopAfterError
    BY <1>2, <2>2 DEF ConnectFails, ReceiveStopAfterError, GiveUp, At, Places, loopVars
  <2>3. CASE Connect \/ ReceiveText
    BY <1>2, <2>3 DEF Connect, ReceiveText, At, Places, loopVars
  <2>4. CASE CheckContext
    BY <1>2, <2>4 DEF CheckContext, Finish, At, Places, loopVars
  <2>5. CASE ReceiveBadLine \/ ReceiveBroken
    BY <1>2, <2>5 DEF ReceiveBadLine, ReceiveBroken, At, Places, loopVars
  <2>6. CASE ReceiveFunctionCall
    BY <1>2, <2>6 DEF ReceiveFunctionCall, At, Places, loopVars
  <2> QED BY <1>2, <2>1, <2>2, <2>3, <2>4, <2>5, <2>6 DEF Stream
<1>3. CASE CallSucceeds \/ SendDone
  BY <1>3 DEF CallSucceeds, SendDone, Finish, At, Places, loopVars
<1>4. CASE CallFails \/ Close
  BY <1>4 DEF CallFails, GiveUp, Close, At, Places, loopVars
<1> QED BY <1>1, <1>2, <1>3, <1>4 DEF Local

LEMMA LocalFlow ==
  ASSUME TypeOK, FlowInv, Local
  PROVE  FlowInv'
<1> USE DEF FlowInv
<1>1. OnePending'
  BY LocalPending DEF OnePending
<1>2. Places'
  BY LocalPlaces
<1>3. UNCHANGED <<output, channel, handler>> /\ Sent' = Sent
  BY LocalPending DEF Sent
<1>4. KeywordsOnce'
  <2>1. CASE CallSucceeds
    <3>1. ~searched /\ searched' /\ keywords' = "generating"
      BY <2>1, LocalKeywords DEF Places
    <3>2. keywords = "none"
      BY <3>1 DEF KeywordsOnce
    <3> QED BY <1>3, <3>1, <3>2 DEF KeywordsOnce
  <2>2. CASE ~CallSucceeds
    BY <1>3, <2>2, LocalKeywords DEF KeywordsOnce
  <2> QED BY <2>1, <2>2
<1>5. TerminalIsLast'
  <2> SUFFICES ASSUME NEW i \in DOMAIN Sent, Sent[i] \in Terminal
               PROVE  engine' \in {"closing", "exited"} /\ pending' = <<>>
    BY <1>3 DEF TerminalIsLast
  <2>1. Close
    BY LocalPending DEF TerminalIsLast
  <2> QED BY <2>1, LocalPending DEF Close
<1>6. SentBeforeDone'
  <2>1. searched' => pending' = <<"references">> \/ \E i \in DOMAIN Sent : Sent[i] = "references"
    <3>1. CASE CallSucceeds
      BY <3>1 DEF CallSucceeds
    <3>2. CASE ~CallSucceeds
      <4>1. searched' = searched /\ pending = <<>>
        BY <3>2, LocalKeywords, LocalPending
      <4> QED BY <4>1 DEF SentBeforeDone
    <3> QED BY <3>1, <3>2
  <2>2. pending' = <<"done">> /\ sendKeywords' => keywords' = "ended"
    <3> SUFFICES ASSUME pending' = <<"done">>, sendKeywords' PROVE keywords' = "ended"
      OBVIOUS
    <3>1. SendDone
      BY LocalPending
    <3>2. UNCHANGED <<keywords, sendKeywords>> /\ KeywordsEnded
      BY <3>1 DEF SendDone, keywordVars
    <3> QED BY <3>2 DEF KeywordsOnce, KeywordsEnded
  <2>3. ASSUME NEW i \in DOMAIN Sent, Sent[i] = "done"
        PROVE  /\ searched' => \E j \in DOMAIN Sent : j < i /\ Sent[j] = "references"
               /\ sendKeywords' => \E j \in DOMAIN Sent : j < i /\ Sent[j] = "keywords"
    <3>1. Close
      BY <2>3, LocalPending DEF TerminalIsLast, Terminal
    <3>2. UNCHANGED <<searched, sendKeywords>>
      BY <3>1 DEF Close, keywordVars
    <3> QED BY <2>3, <3>2 DEF SentBeforeDone
  <2> QED BY <1>3, <2>1, <2>2, <2>3 DEF SentBeforeDone
<1>7. ReadsToTerminal'
  BY <1>3 DEF ReadsToTerminal
<1> QED BY <1>1, <1>2, <1>4, <1>5, <1>6, <1>7

\* A result is sent.
LEMMA SendFlow ==
  ASSUME TypeOK, FlowInv, Send
  PROVE  FlowInv'
<1> USE DEF FlowInv
<1> DEFINE k == Head(pending)
           n == Len(Sent) + 1
<1>1. /\ pending = <<k>> /\ pending' = <<>> /\ k \in Kind \ {"keywords"}
      /\ channel' = Append(channel, k)
      /\ UNCHANGED <<engine, modelIndex, models, loopError, searched, keywords, sendKeywords,
                     output, handler>>
  BY PendingFirst DEF Send, loopVars, keywordVars, handlerVars
<1> HIDE DEF k
<1>2. Sent' = Append(Sent, k)
  <2>1. output \in Seq(Kind) /\ channel \in Seq(Kind)
    BY SentTypes
  <2> QED BY <1>1, <2>1, AppendToSecond DEF Sent
<1>3. /\ n \in Nat \ {0} /\ n \in DOMAIN Sent' /\ DOMAIN Sent = 1 .. n - 1 /\ DOMAIN Sent' = 1 .. n
      /\ Sent'[n] = k
      /\ \A i \in DOMAIN Sent : Sent'[i] = Sent[i] /\ i \in DOMAIN Sent' /\ i < n
      /\ \A i \in DOMAIN Sent' : i # n => i \in DOMAIN Sent
  <2>1. Sent \in Seq(Kind) /\ k \in Kind
    BY <1>1, SentTypes
  <2> QED BY <1>2, <2>1, Appended
<1> HIDE DEF n
<1>4. \A i \in DOMAIN Sent : Sent[i] \notin Terminal
  BY <1>1 DEF TerminalIsLast
<1>5. k \in Terminal => engine = "closing"
  BY <1>1 DEF Places, Terminal
<1>6. OnePending' /\ Places'
  <2>1. <<>> # <<"references">> /\ <<>> # <<"error">> /\ <<>> # <<"done">>
    OBVIOUS
  <2> QED BY <1>1, <2>1 DEF OnePending, Places
<1>7. KeywordsOnce'
  <2>1. \A i \in DOMAIN Sent' : Sent'[i] = "keywords" => i \in DOMAIN Sent
    BY <1>1, <1>3
  <2>2. keywords # "ended" => \A i \in DOMAIN Sent' : Sent'[i] # "keywords"
    BY <1>3, <2>1 DEF KeywordsOnce
  <2>3. ASSUME keywords = "ended"
        PROVE  \E x \in DOMAIN Sent' : \A i \in DOMAIN Sent' : Sent'[i] = "keywords" <=> i = x
    <3>1. PICK x \in DOMAIN Sent : \A i \in DOMAIN Sent : Sent[i] = "keywords" <=> i = x
      BY <2>3 DEF KeywordsOnce
    <3>2. \A i \in DOMAIN Sent' : Sent'[i] = "keywords" <=> i = x
      BY <1>3, <2>1, <3>1
    <3> QED BY <1>3, <3>1, <3>2
  <2> QED BY <1>1, <2>2, <2>3 DEF KeywordsOnce
<1>8. TerminalIsLast'
  <2> SUFFICES ASSUME NEW i \in DOMAIN Sent', Sent'[i] \in Terminal
               PROVE  /\ engine \in {"closing", "exited"}
                      /\ \A j \in DOMAIN Sent' : i < j => Sent'[j] = "keywords"
    BY <1>1 DEF TerminalIsLast
  <2>1. i = n
    BY <1>3, <1>4
  <2> QED BY <1>3, <1>5, <2>1
<1>9. SentBeforeDone'
  <2>1. searched => \E i \in DOMAIN Sent' : Sent'[i] = "references"
    <3>1. CASE k = "references"
      BY <1>3, <3>1
    <3>2. CASE k # "references"
      <4>1. pending # <<"references">>
        BY <1>1, <3>2
      <4> QED BY <1>3, <4>1 DEF SentBeforeDone
    <3> QED BY <3>1, <3>2
  <2>2. ASSUME NEW i \in DOMAIN Sent', Sent'[i] = "done"
        PROVE  /\ searched => \E j \in DOMAIN Sent' : j < i /\ Sent'[j] = "references"
               /\ sendKeywords => \E j \in DOMAIN Sent' : j < i /\ Sent'[j] = "keywords"
    <3>1. i = n /\ k = "done"
      BY <1>3, <1>4, <2>2 DEF Terminal
    <3>2. pending = <<"done">> /\ pending # <<"references">>
      BY <1>1, <3>1
    <3>3. searched => \E j \in DOMAIN Sent : Sent[j] = "references"
      BY <3>2 DEF SentBeforeDone
    <3>4. sendKeywords => \E j \in DOMAIN Sent : Sent[j] = "keywords"
      BY <3>2 DEF SentBeforeDone, KeywordsOnce
    <3> QED BY <1>3, <3>1, <3>3, <3>4
  <2>3. pending' # <<"done">>
    BY <1>1
  <2> QED BY <1>1, <2>1, <2>2, <2>3 DEF SentBeforeDone
<1>10. ReadsToTerminal'
  BY <1>1 DEF ReadsToTerminal
<1> QED BY <1>6, <1>7, <1>8, <1>9, <1>10

\* The keywords are sent, once.
LEMMA KeywordsFlow ==
  ASSUME TypeOK, FlowInv, SendKeywords
  PROVE  FlowInv'
<1> USE DEF FlowInv
<1> DEFINE n == Len(Sent) + 1
<1>1. /\ keywords = "sending" /\ keywords' = "ended"
      /\ channel' = Append(channel, "keywords")
      /\ UNCHANGED <<engine, pending, modelIndex, models, loopError, searched, sendKeywords,
                     output, handler>>
  BY DEF SendKeywords, loopVars, handlerVars
<1>2. Sent' = Append(Sent, "keywords") /\ "keywords" \in Kind
  <2>1. output \in Seq(Kind) /\ channel \in Seq(Kind) /\ "keywords" \in Kind
    BY SentTypes DEF Kind
  <2> QED BY <1>1, <2>1, AppendToSecond DEF Sent
<1>3. /\ n \in Nat \ {0} /\ n \in DOMAIN Sent' /\ DOMAIN Sent = 1 .. n - 1 /\ DOMAIN Sent' = 1 .. n
      /\ Sent'[n] = "keywords"
      /\ \A i \in DOMAIN Sent : Sent'[i] = Sent[i] /\ i \in DOMAIN Sent' /\ i < n
      /\ \A i \in DOMAIN Sent' : i # n => i \in DOMAIN Sent
  <2>1. Sent \in Seq(Kind)
    BY SentTypes
  <2> QED BY <1>2, <2>1, Appended
<1> HIDE DEF n
<1>4. OnePending' /\ Places'
  BY <1>1 DEF OnePending, Places
<1>5. KeywordsOnce'
  <2>1. \A i \in DOMAIN Sent : Sent[i] # "keywords"
    BY <1>1 DEF KeywordsOnce
  <2>2. \A i \in DOMAIN Sent' : Sent'[i] = "keywords" <=> i = n
    BY <1>3, <2>1
  <2>3. n \in DOMAIN Sent'
    BY <1>3
  <2> QED BY <1>1, <2>2, <2>3 DEF KeywordsOnce
<1>6. TerminalIsLast'
  <2> SUFFICES ASSUME NEW i \in DOMAIN Sent', Sent'[i] \in Terminal
               PROVE  /\ engine \in {"closing", "exited"} /\ pending = <<>>
                      /\ \A j \in DOMAIN Sent' : i < j => Sent'[j] = "keywords"
    BY <1>1 DEF TerminalIsLast
  <2>1. i \in DOMAIN Sent /\ Sent[i] \in Terminal
    BY <1>3 DEF Terminal
  <2> QED BY <1>3, <2>1 DEF TerminalIsLast
<1>7. SentBeforeDone'
  <2>1. searched => pending = <<"references">> \/ \E i \in DOMAIN Sent' : Sent'[i] = "references"
    BY <1>3 DEF SentBeforeDone
  <2>2. ASSUME NEW i \in DOMAIN Sent', Sent'[i] = "done"
        PROVE  /\ searched => \E j \in DOMAIN Sent' : j < i /\ Sent'[j] = "references"
               /\ sendKeywords => \E j \in DOMAIN Sent' : j < i /\ Sent'[j] = "keywords"
    <3>1. i \in DOMAIN Sent /\ Sent[i] = "done"
      BY <1>3, <2>2
    <3> QED BY <1>3, <3>1 DEF SentBeforeDone
  <2> QED BY <1>1, <2>1, <2>2 DEF SentBeforeDone
<1>8. ReadsToTerminal'
  BY <1>1 DEF ReadsToTerminal
<1> QED BY <1>4, <1>5, <1>6, <1>7, <1>8

\* The handler, the client and the stream send nothing.
LEMMA HandlerFlow ==
  ASSUME TypeOK, FlowInv, Handler \/ GenerateKeywords \/ BreakStream \/ ClientLeaves \/ UNCHANGED vars
  PROVE  FlowInv'
<1> USE DEF FlowInv
<1>1. /\ UNCHANGED <<engine, pending, modelIndex, models, loopError, searched, sendKeywords>>
      /\ keywords' = keywords \/ (keywords = "generating" /\ keywords' = "sending")
  BY DEF Handler, Take, HandlerStops, GenerateKeywords, BreakStream, ClientLeaves, vars, loopVars,
         keywordVars
<1>2. Sent' = Sent
  <2>1. CASE Take
    <3>1. output \in Seq(Kind) /\ channel \in Seq(Kind)
      BY SentTypes
    <3> QED BY <2>1, <3>1, HandOver DEF Take, Sent
  <2>2. CASE ~Take
    BY <2>2 DEF Handler, HandlerStops, GenerateKeywords, BreakStream, ClientLeaves, vars,
                handlerVars, Sent
  <2> QED BY <2>1, <2>2
<1>3. OnePending' /\ Places'
  BY <1>1 DEF OnePending, Places
<1>4. KeywordsOnce' /\ TerminalIsLast'
  BY <1>1, <1>2 DEF KeywordsOnce, TerminalIsLast
<1>5. SentBeforeDone'
  BY <1>1, <1>2 DEF SentBeforeDone
<1>6. ReadsToTerminal'
  <2>1. CASE Take
    <3>1. output \in Seq(Kind) /\ channel \in Seq(Kind) /\ channel # <<>>
      BY <2>1, SentTypes DEF Take
    <3>2. Head(channel) \in Kind
      BY <3>1
    <3>3. /\ output' = Append(output, Head(channel)) /\ handler = "reading"
          /\ handler' = "reading" => Head(channel) \notin Terminal
      BY <2>1 DEF Take, Return, Terminal
    <3>4. /\ Len(output) \in Nat /\ DOMAIN output = 1 .. Len(output)
          /\ DOMAIN output' = 1 .. Len(output) + 1
          /\ output'[Len(output) + 1] = Head(channel)
          /\ \A i \in DOMAIN output : output'[i] = output[i]
      BY <3>1, <3>2, <3>3, Appended
    <3>5. \A i \in DOMAIN output : output[i] \notin Terminal
      BY <3>3 DEF ReadsToTerminal
    <3>6. \A i \in DOMAIN output' : i \in DOMAIN output \/ i = Len(output) + 1
      BY <3>4
    <3> QED BY <3>3, <3>4, <3>5, <3>6 DEF ReadsToTerminal
  <2>2. CASE ~Take
    <3>1. output' = output /\ (handler' = handler \/ handler' = "returned")
      BY <2>2 DEF Handler, HandlerStops, Return, GenerateKeywords, BreakStream, ClientLeaves, vars,
                  handlerVars
    <3> QED BY <3>1 DEF ReadsToTerminal
  <2> QED BY <2>1, <2>2
<1> QED BY <1>3, <1>4, <1>5, <1>6

LEMMA NextFlow == ASSUME TypeOK, FlowInv, [Next]_vars PROVE FlowInv'
  BY LocalFlow, SendFlow, KeywordsFlow, HandlerFlow DEF Next, Engine, Work, Call, Keywords, Local

LEMMA InitFlow == Init => FlowInv
<1> SUFFICES ASSUME Init PROVE FlowInv
  OBVIOUS
<1>1. Sent = <<>> /\ output = <<>> /\ pending = <<>> /\ engine = "choosing"
  BY DEF Init, Sent
<1>2. <<>> # <<"references">> /\ <<>> # <<"error">> /\ <<>> # <<"done">>
  OBVIOUS
<1> QED BY <1>1, <1>2 DEF Init, FlowInv, OnePending, Places, KeywordsOnce, TerminalIsLast,
                          SentBeforeDone, ReadsToTerminal

LEMMA FlowInvariant == Spec => [](IInv /\ FlowInv)
<1>1. TypeOK /\ FlowInv /\ [Next]_vars => FlowInv'
  BY NextFlow
<1>2. IInv => TypeOK
  BY DEF IInv
<1> QED BY <1>1, <1>2, InductiveInvariant, InitFlow, PTL DEF Spec

\* What the client is shown of an answer that ended well after a search includes the
\* references, and the keywords once, if the attempt that ended it made the search.
THEOREM SearchAnswerIsWholeHolds == Spec => []SearchAnswerIsWhole
<1> DEFINE places == {i \in DOMAIN output : output[i] = "keywords"}
<1>1. ASSUME TypeOK, FlowInv
      PROVE  SearchAnswerIsWhole
  <2> SUFFICES ASSUME Shown("done"), searched
               PROVE  /\ Shown("references") /\ Cardinality(places) <= 1
                      /\ sendKeywords => Cardinality(places) = 1
    BY DEF SearchAnswerIsWhole
  <2>0. /\ Len(output) \in Nat /\ DOMAIN output = 1 .. Len(output) /\ DOMAIN Sent = 1 .. Len(Sent)
        /\ \A i \in DOMAIN output : i \in DOMAIN Sent /\ Sent[i] = output[i]
    BY <1>1, SentTypes
  <2>1. PICK d \in DOMAIN output : output[d] = "done"
    BY DEF Shown
  <2>2. d \in DOMAIN Sent /\ Sent[d] = "done"
    BY <2>0, <2>1
  <2>3. \A j \in DOMAIN Sent : j < d => j \in DOMAIN output /\ output[j] = Sent[j]
    BY <2>0, <2>1
  <2>4. Shown("references")
    BY <1>1, <2>2, <2>3 DEF FlowInv, SentBeforeDone, Shown
  <2>5. ASSUME NEW k \in DOMAIN Sent, \A i \in DOMAIN Sent : Sent[i] = "keywords" <=> i = k
        PROVE  places = {} \/ places = {k}
    BY <2>0, <2>5
  <2>6. places = {} \/ \E k : places = {k}
    <3>1. CASE keywords = "ended"
      BY <1>1, <2>5, <3>1 DEF FlowInv, KeywordsOnce
    <3>2. CASE keywords # "ended"
      BY <1>1, <2>0, <3>2 DEF FlowInv, KeywordsOnce
    <3> QED BY <3>1, <3>2
  <2>7. Cardinality({}) = 0 /\ \A k : Cardinality({k}) = 1
    BY FS_EmptySet, FS_Singleton
  <2>8. sendKeywords => places # {}
    BY <1>1, <2>2, <2>3 DEF FlowInv, SentBeforeDone
  <2> QED BY <2>4, <2>6, <2>7, <2>8
<1>2. IInv => TypeOK
  BY DEF IInv
<1> QED BY <1>1, <1>2, FlowInvariant, PTL
---------------------------------------------------------------------------
(* The refinement: the text in flight.                                     *)

TextAfter(s) == {i \in DOMAIN s : s[i] = "text" /\ \A j \in DOMAIN s : s[j] = "usage" => j < i}

Texts(s) == Cardinality(TextAfter(s))

LEMMA TextsAreFinite ==
  ASSUME NEW s \in Seq(Kind)
  PROVE  /\ IsFiniteSet(TextAfter(s)) /\ TextAfter(s) \subseteq 1 .. Len(s)
         /\ Texts(s) \in Nat /\ (Texts(s) = 0 <=> TextAfter(s) = {})
<1>1. Len(s) \in Nat /\ DOMAIN s = 1 .. Len(s)
  <2> HIDE DEF Kind
  <2> QED OBVIOUS
<1>2. TextAfter(s) \subseteq 1 .. Len(s)
  BY <1>1 DEF TextAfter
<1>3. IsFiniteSet(1 .. Len(s))
  BY <1>1, FS_Interval
<1>4. IsFiniteSet(TextAfter(s))
  BY <1>2, <1>3, FS_Subset
<1> QED BY <1>2, <1>4, FS_CardinalityType, FS_EmptySet DEF Texts

\* A usage makes the text before it void; a text that is appended counts.
LEMMA TextsAppend ==
  ASSUME NEW s \in Seq(Kind), NEW k \in Kind
  PROVE  Texts(Append(s, k)) = IF k = "usage" THEN 0
                               ELSE IF k = "text" THEN Texts(s) + 1 ELSE Texts(s)
<1> DEFINE n == Len(s) + 1
           t == Append(s, k)
<1>1. /\ n \in Nat \ {0} /\ DOMAIN s = 1 .. n - 1 /\ DOMAIN t = 1 .. n /\ t[n] = k
      /\ \A i \in 1 .. n - 1 : t[i] = s[i]
  <2> HIDE DEF Kind
  <2> QED BY Appended
<1> HIDE DEF n, t
<1>2. CASE k = "usage"
  <2>1. TextAfter(t) = {}
    BY <1>1, <1>2 DEF TextAfter
  <2> QED BY <1>2, <2>1, FS_EmptySet DEF Texts, t
<1>3. CASE k = "text"
  <2>1. TextAfter(t) = TextAfter(s) \union {n}
    BY <1>1, <1>3 DEF TextAfter
  <2>2. n \notin TextAfter(s)
    BY <1>1 DEF TextAfter
  <2>3. Cardinality(TextAfter(s) \union {n}) = Cardinality(TextAfter(s)) + 1
    BY <2>2, TextsAreFinite, FS_AddElement
  <2> QED BY <1>3, <2>1, <2>3 DEF Texts, t
<1>4. CASE k \notin {"usage", "text"}
  <2>1. TextAfter(t) = TextAfter(s)
    BY <1>1, <1>4 DEF TextAfter
  <2> QED BY <1>4, <2>1 DEF Texts, t
<1> QED BY <1>2, <1>3, <1>4

\* What is taken is the first text that counts, or leaves their number as it is.
LEMMA TextsTail ==
  ASSUME NEW s \in Seq(Kind), s # <<>>
  PROVE  Texts(Tail(s)) = IF 1 \in TextAfter(s) THEN Texts(s) - 1 ELSE Texts(s)
<1> DEFINE n == Len(s)
           t == Tail(s)
           rest == TextAfter(s) \ {1}
           down == [i \in rest |-> i - 1]
<1>1. /\ n \in Nat \ {0} /\ DOMAIN s = 1 .. n /\ DOMAIN t = 1 .. n - 1
      /\ \A i \in 1 .. n - 1 : t[i] = s[i + 1]
  <2> HIDE DEF Kind
  <2> QED OBVIOUS
<1> HIDE DEF n, t
<1>2. TextAfter(s) \subseteq 1 .. n /\ IsFiniteSet(TextAfter(s)) /\ Texts(s) \in Nat
  BY TextsAreFinite DEF n
<1>3. TextAfter(t) = {i - 1 : i \in rest}
  <2>1. ASSUME NEW i \in TextAfter(t) PROVE i + 1 \in rest /\ i = (i + 1) - 1
    <3>1. i \in 1 .. n - 1 /\ s[i + 1] = "text" /\ i + 1 \in 1 .. n
      BY <1>1, <2>1 DEF TextAfter
    <3>2. ASSUME NEW j \in 1 .. n, s[j] = "usage" PROVE j < i + 1
      <4>1. CASE j = 1
        BY <1>1, <3>1, <4>1
      <4>2. CASE j # 1
        <5>1. j - 1 \in 1 .. n - 1 /\ t[j - 1] = s[(j - 1) + 1] /\ (j - 1) + 1 = j
          BY <1>1, <4>2
        <5>2. j - 1 < i
          BY <1>1, <2>1, <3>2, <5>1 DEF TextAfter
        <5> QED BY <1>1, <3>1, <5>2
      <4> QED BY <4>1, <4>2
    <3> QED BY <1>1, <3>1, <3>2 DEF TextAfter
  <2>2. ASSUME NEW i \in rest PROVE i - 1 \in TextAfter(t)
    <3>1. i \in 2 .. n /\ s[i] = "text" /\ i - 1 \in 1 .. n - 1 /\ (i - 1) + 1 = i
      BY <1>1, <1>2, <2>2 DEF TextAfter
    <3>2. ASSUME NEW j \in 1 .. n - 1, t[j] = "usage" PROVE j < i - 1
      <4>1. j + 1 \in 1 .. n /\ s[j + 1] = "usage"
        BY <1>1, <3>2
      <4>2. j + 1 < i
        BY <1>1, <2>2, <4>1 DEF TextAfter
      <4> QED BY <3>1, <4>2
    <3> QED BY <1>1, <3>1, <3>2 DEF TextAfter
  <2> HIDE DEF rest
  <2> QED BY <2>1, <2>2
<1>4. IsFiniteSet(rest) /\ rest \subseteq 1 .. n
  BY <1>2, FS_Subset
<1>5. down \in Bijection(rest, TextAfter(t))
  <2>1. down \in [rest -> TextAfter(t)]
    BY <1>3
  <2>2. \A i, j \in rest : down[i] = down[j] => i = j
    <3> SUFFICES ASSUME NEW i \in rest, NEW j \in rest, down[i] = down[j] PROVE i = j
      OBVIOUS
    <3>1. i \in Nat /\ j \in Nat /\ i - 1 = j - 1
      BY <1>1, <1>4
    <3> QED BY <3>1
  <2>3. \A k \in TextAfter(t) : \E i \in rest : down[i] = k
    BY <1>3
  <2> QED BY <2>1, <2>2, <2>3, Fun_IsBij
<1>6. Cardinality(TextAfter(t)) = Cardinality(rest)
  <2>1. ExistsBijection(rest, TextAfter(t))
    BY <1>5 DEF ExistsBijection
  <2> QED BY <1>4, <2>1, FS_Bijection
<1>7. CASE 1 \in TextAfter(s)
  <2>1. Cardinality(rest) = Cardinality(TextAfter(s)) - 1
    BY <1>2, <1>7, FS_RemoveElement
  <2> QED BY <1>6, <1>7, <2>1 DEF Texts, t
<1>8. CASE 1 \notin TextAfter(s)
  <2>1. rest = TextAfter(s)
    BY <1>8
  <2> QED BY <1>6, <1>8, <2>1 DEF Texts, t
<1> QED BY <1>7, <1>8

---------------------------------------------------------------------------
(* The refinement: the steps.                                              *)

ReceivedNow == IF Counts THEN chunks ELSE 0

DeliveredNow == IF Counts THEN chunks - Texts(InFlight) ELSE 0

SourceNow == IF engine = "waiting" \/ SomewhereIs("done") THEN "complete"
             ELSE IF SomewhereIs("error") \/ panicked THEN "failed" ELSE "open"

EndNow == IF handler # "returned" THEN "none"
          ELSE IF Shown("done") THEN "complete"
          ELSE IF Shown("error") THEN "error" ELSE "left"

\* The substitution of Promised, spelt out.
LEMMA PromisedSteps ==
  /\ Promised!Init <=> /\ ReceivedNow = 0 /\ DeliveredNow = 0
                       /\ SourceNow = "open" /\ EndNow = "none"
  /\ Promised!Receive <=> /\ SourceNow = "open" /\ ReceivedNow' = ReceivedNow + 1
                          /\ DeliveredNow' = DeliveredNow /\ SourceNow' = SourceNow
                          /\ EndNow' = EndNow
  /\ Promised!Restart <=> /\ SourceNow = "open" /\ ReceivedNow' = 0 /\ DeliveredNow' = 0
                          /\ SourceNow' = SourceNow /\ EndNow' = EndNow
  /\ Promised!SourceEnds <=> /\ SourceNow = "open" /\ SourceNow' \in {"complete", "failed"}
                             /\ ReceivedNow' = ReceivedNow /\ DeliveredNow' = DeliveredNow
                             /\ EndNow' = EndNow
  /\ Promised!Deliver <=> /\ EndNow = "none" /\ DeliveredNow < ReceivedNow
                          /\ DeliveredNow' = DeliveredNow + 1
                          /\ ReceivedNow' = ReceivedNow /\ SourceNow' = SourceNow
                          /\ EndNow' = EndNow
  /\ Promised!Complete <=> /\ SourceNow = "complete" /\ DeliveredNow = ReceivedNow
                           /\ EndNow' = "complete"
  /\ Promised!Fail <=> /\ DeliveredNow = ReceivedNow
                       /\ SourceNow = "failed" \/ ReceivedNow = 0
                       /\ EndNow' = "error"
  /\ Promised!Leave <=> EndNow' = "left"
  /\ Promised!End <=> /\ EndNow = "none"
                      /\ Promised!Complete \/ Promised!Fail \/ Promised!Leave
                      /\ ReceivedNow' = ReceivedNow /\ DeliveredNow' = DeliveredNow
                      /\ SourceNow' = SourceNow
BY DEF Promised!Init, Promised!Receive, Promised!Restart, Promised!SourceEnds,
   Promised!Deliver, Promised!Complete, Promised!Fail, Promised!Leave, Promised!End,
   Promised!Whole, ReceivedNow, DeliveredNow, SourceNow, EndNow, Texts,
   TextAfter, TextInFlight

\* A stutter.
LEMMA Stutter ==
  ASSUME ReceivedNow' = ReceivedNow, DeliveredNow' = DeliveredNow,
         SourceNow' = SourceNow, EndNow' = EndNow
  PROVE  [Promised!Next]_(Promised!vars)
<1>1. /\ Promised!vars = <<ReceivedNow, DeliveredNow, SourceNow, EndNow>>
      /\ Promised!vars' = <<ReceivedNow, DeliveredNow, SourceNow, EndNow>>'
  BY DEF Promised!vars, ReceivedNow, DeliveredNow, SourceNow, EndNow, Texts,
   TextAfter, TextInFlight
<1> QED BY <1>1

Has(s, kind) == \E i \in DOMAIN s : s[i] = kind

LEMMA HasConcat ==
  ASSUME NEW s \in Seq(Kind), NEW t \in Seq(Kind), NEW kind
  PROVE  Has(s \o t, kind) <=> Has(s, kind) \/ Has(t, kind)
<1> DEFINE m == Len(s)
           n == Len(t)
           u == s \o t
<1>1. /\ m \in Nat /\ n \in Nat /\ DOMAIN s = 1 .. m /\ DOMAIN t = 1 .. n
      /\ DOMAIN u = 1 .. m + n
      /\ \A i \in 1 .. m : u[i] = s[i]
      /\ \A i \in 1 .. n : u[m + i] = t[i]
  <2> HIDE DEF Kind
  <2> QED OBVIOUS
<1> HIDE DEF m, n, u
<1>2. ASSUME Has(u, kind) PROVE Has(s, kind) \/ Has(t, kind)
  <2>1. PICK i \in 1 .. m + n : u[i] = kind
    BY <1>1, <1>2 DEF Has
  <2>2. CASE i <= m
    BY <1>1, <2>1, <2>2 DEF Has
  <2>3. CASE i > m
    <3>1. i - m \in 1 .. n /\ m + (i - m) = i
      BY <1>1, <2>1, <2>3
    <3>2. t[i - m] = u[i]
      BY <1>1, <3>1
    <3> QED BY <1>1, <2>1, <3>1, <3>2 DEF Has
  <2> QED BY <1>1, <2>1, <2>2, <2>3
<1>3. ASSUME Has(s, kind) PROVE Has(u, kind)
  <2>1. PICK i \in 1 .. m : s[i] = kind
    BY <1>1, <1>3 DEF Has
  <2> QED BY <1>1, <2>1 DEF Has
<1>4. ASSUME Has(t, kind) PROVE Has(u, kind)
  <2>1. PICK i \in 1 .. n : t[i] = kind
    BY <1>1, <1>4 DEF Has
  <2>2. m + i \in 1 .. m + n
    BY <1>1, <2>1
  <2> QED BY <1>1, <2>1, <2>2 DEF Has
<1> QED BY <1>2, <1>3, <1>4 DEF u

\* A result is with the client, in the channel or waiting to be sent.
LEMMA SomewhereHas ==
  ASSUME NEW kind
  PROVE  /\ TypeOK => (SomewhereIs(kind) <=> Has(Sent, kind) \/ Has(pending, kind))
         /\ TypeOK' => (SomewhereIs(kind)' <=> Has(Sent', kind) \/ Has(pending', kind))
<1>1. ASSUME NEW o \in Seq(Kind), NEW c \in Seq(Kind), NEW p \in Seq(Kind)
      PROVE  Has(o \o (c \o p), kind) <=> Has(o \o c, kind) \/ Has(p, kind)
  <2>1. c \o p \in Seq(Kind)
    <3> HIDE DEF Kind
    <3> QED OBVIOUS
  <2> QED BY <2>1, HasConcat
<1>2. SomewhereIs(kind) <=> Has(output \o (channel \o pending), kind)
  BY DEF SomewhereIs, InFlight, Has
<1>3. SomewhereIs(kind)' <=> Has(output' \o (channel' \o pending'), kind)
  BY DEF SomewhereIs, InFlight, Has
<1>4. TypeOK => output \in Seq(Kind) /\ channel \in Seq(Kind) /\ pending \in Seq(Kind)
  BY DEF TypeOK
<1>5. TypeOK' => output' \in Seq(Kind) /\ channel' \in Seq(Kind) /\ pending' \in Seq(Kind)
  BY DEF TypeOK
<1> QED BY <1>1, <1>2, <1>3, <1>4, <1>5 DEF Sent

\* One result that waits behind the channel.
LEMMA TextsBehind ==
  ASSUME NEW c \in Seq(Kind), NEW k \in Kind
  PROVE  c \o <<>> = c /\ c \o <<k>> = Append(c, k)
OBVIOUS

\* What the goroutine does between two results, seen from AnswerStream.
LEMMA LocalView ==
  ASSUME TypeOK, TypeOK', FlowInv, Local, ~Close
  PROVE  /\ pending = <<>> /\ ~panicked /\ EndNow' = EndNow /\ Texts(InFlight) \in Nat
         /\ SourceNow = IF engine = "waiting" THEN "complete" ELSE "open"
         /\ SourceNow' = IF engine' = "waiting" \/ pending' = <<"done">> THEN "complete"
                         ELSE IF pending' = <<"error">> \/ panicked' THEN "failed" ELSE "open"
         /\ pending' = <<"usage">> => Texts(InFlight)' = 0
         /\ pending' = <<"text">> => Texts(InFlight)' = Texts(InFlight) + 1
         /\ pending' \notin {<<"usage">>, <<"text">>} => Texts(InFlight)' = Texts(InFlight)
<1>1. /\ pending = <<>> /\ UNCHANGED <<output, channel, handler>>
      /\ pending' \in {<<>>, <<"usage">>, <<"text">>, <<"references">>, <<"error">>, <<"done">>}
      /\ engine \notin {"closing", "exited"} /\ Sent' = Sent
  BY LocalPending DEF Sent
<1>2. ~panicked
  BY DEF Local, Choose, SearchFailed, AllFallbackFailed, NextModel, TryModel, Stream,
         ConnectAzure, Connect, ConnectFails, CheckContext, ReceiveText, ReceiveBadLine,
         ReceiveBroken, ReceiveStop, ReceiveStopAfterError, ReceiveNothing, ReceiveFunctionCall,
         CallSucceeds, CallFails, SendDone, At
<1>3. EndNow' = EndNow
  BY <1>1 DEF EndNow, Shown
<1>4. ~Has(Sent, "done") /\ ~Has(Sent, "error")
  BY <1>1 DEF FlowInv, TerminalIsLast, Terminal, Has
<1>5. /\ ~Has(<<>>, "done") /\ ~Has(<<>>, "error")
      /\ \A k \in Kind : (Has(<<k>>, "done") <=> k = "done") /\ (Has(<<k>>, "error") <=> k = "error")
  BY DEF Has
<1>6. (Has(pending', "done") <=> pending' = <<"done">>) /\ (Has(pending', "error") <=> pending' = <<"error">>)
  <2>1. <<>> # <<"done">> /\ <<>> # <<"error">>
    OBVIOUS
  <2>2. {"usage", "text", "references", "error", "done"} \subseteq Kind
    BY DEF Kind
  <2>3. CASE pending' = <<>>
    BY <1>5, <2>1, <2>3
  <2>4. CASE \E k \in {"usage", "text", "references", "error", "done"} : pending' = <<k>>
    BY <1>5, <2>2, <2>4
  <2> QED BY <1>1, <2>3, <2>4
<1>7. SourceNow = IF engine = "waiting" THEN "complete" ELSE "open"
  <2>1. ~SomewhereIs("done") /\ ~SomewhereIs("error")
    BY <1>1, <1>4, <1>5, SomewhereHas
  <2> QED BY <1>2, <2>1 DEF SourceNow
<1>8. SourceNow' = IF engine' = "waiting" \/ pending' = <<"done">> THEN "complete"
                   ELSE IF pending' = <<"error">> \/ panicked' THEN "failed" ELSE "open"
  <2>1. /\ SomewhereIs("done")' <=> pending' = <<"done">>
        /\ SomewhereIs("error")' <=> pending' = <<"error">>
    BY <1>1, <1>4, <1>6, SomewhereHas
  <2> QED BY <2>1 DEF SourceNow
<1>9. /\ channel \in Seq(Kind) /\ InFlight = channel /\ InFlight' = channel \o pending'
      /\ Texts(InFlight) \in Nat
  BY <1>1, SentTypes, TextsBehind, TextsAreFinite DEF InFlight
<1>10. Texts(InFlight)' = Texts(InFlight')
  BY DEF Texts, TextAfter
<1>11. Texts(channel \o <<>>) = Texts(channel)
  BY <1>9
<1>12. ASSUME NEW k \in {"usage", "text", "references", "error", "done"}, pending' = <<k>>
       PROVE  Texts(InFlight)' = IF k = "usage" THEN 0
                                 ELSE IF k = "text" THEN Texts(channel) + 1 ELSE Texts(channel)
  <2>1. k \in Kind
    BY DEF Kind
  <2>2. InFlight' = Append(channel, k)
    BY <1>9, <1>12, <2>1, TextsBehind
  <2>3. Texts(Append(channel, k)) = IF k = "usage" THEN 0
                                    ELSE IF k = "text" THEN Texts(channel) + 1 ELSE Texts(channel)
    BY <1>9, <2>1, TextsAppend
  <2> QED BY <1>10, <2>2, <2>3
<1>13. /\ pending' = <<"usage">> => Texts(InFlight)' = 0
       /\ pending' = <<"text">> => Texts(InFlight)' = Texts(InFlight) + 1
  BY <1>9, <1>12
<1>14. pending' \notin {<<"usage">>, <<"text">>} => Texts(InFlight)' = Texts(InFlight)
  <2>1. CASE pending' = <<>>
    BY <1>9, <1>10, <1>11, <2>1
  <2>2. CASE \E k \in {"references", "error", "done"} : pending' = <<k>>
    BY <1>9, <1>12, <2>2
  <2> QED BY <1>1, <2>1, <2>2
<1> QED BY <1>1, <1>2, <1>3, <1>7, <1>8, <1>9, <1>13, <1>14

\* Every step of the goroutine but that of sending a result is one of AnswerStream, or a
\* stutter: it receives a chunk, or gives up an attempt, or ends the source.
LEMMA LocalSimulation ==
  ASSUME TypeOK, TypeOK', FlowInv, FlowInv', Local
  PROVE  [Promised!Next]_(Promised!vars)
<1>1. CASE Close
  <2>1. /\ engine = "closing" /\ engine' = "exited"
        /\ UNCHANGED <<pending, models, modelIndex, loopError, chunks, channel, handler, output,
                       panicked>>
    BY <1>1 DEF Close, At, loopVars, streamVars, handlerVars
  <2>2. (Counts <=> Counts') /\ Texts(InFlight)' = Texts(InFlight)
    BY <2>1 DEF Counts, InFlight, Texts, TextAfter
  <2>3. SourceNow' = SourceNow /\ EndNow' = EndNow
    BY <2>1 DEF SourceNow, SomewhereIs, InFlight, EndNow, Shown
  <2> QED BY <2>1, <2>2, <2>3, Stutter DEF ReceivedNow, DeliveredNow
<1>2. CASE ~Close
  <2>0. /\ pending = <<>> /\ ~panicked /\ EndNow' = EndNow /\ Texts(InFlight) \in Nat
        /\ SourceNow = IF engine = "waiting" THEN "complete" ELSE "open"
        /\ SourceNow' = IF engine' = "waiting" \/ pending' = <<"done">> THEN "complete"
                        ELSE IF pending' = <<"error">> \/ panicked' THEN "failed" ELSE "open"
        /\ pending' = <<"usage">> => Texts(InFlight)' = 0
        /\ pending' = <<"text">> => Texts(InFlight)' = Texts(InFlight) + 1
        /\ pending' \notin {<<"usage">>, <<"text">>} => Texts(InFlight)' = Texts(InFlight)
    BY <1>2, LocalView
  <2>a. chunks \in Nat
    BY ConstantsAssumption DEF TypeOK
  <2>b. /\ <<>> \notin {<<"usage">>, <<"text">>, <<"error">>, <<"done">>}
        /\ <<"error">> \notin {<<"usage">>, <<"text">>, <<"done">>}
        /\ <<"done">> \notin {<<"usage">>, <<"text">>, <<"error">>}
        /\ <<"usage">> \notin {<<"error">>, <<"done">>}
        /\ <<"text">> \notin {<<"error">>, <<"done">>}
        /\ <<"references">> \notin {<<"error">>, <<"done">>}
    OBVIOUS
  <2>c. ASSUME ~Counts, ~Counts', SourceNow' = SourceNow PROVE [Promised!Next]_(Promised!vars)
    <3>1. ReceivedNow' = ReceivedNow /\ DeliveredNow' = DeliveredNow
      BY <2>c DEF ReceivedNow, DeliveredNow
    <3> QED BY <2>0, <2>c, <3>1, Stutter
  <2>d. ASSUME Counts <=> Counts', UNCHANGED chunks, Texts(InFlight)' = Texts(InFlight)
        PROVE  /\ ReceivedNow' = ReceivedNow /\ DeliveredNow' = DeliveredNow
               /\ SourceNow' = SourceNow => [Promised!Next]_(Promised!vars)
               /\ SourceNow = "open" /\ SourceNow' \in {"complete", "failed"} =>
                    [Promised!Next]_(Promised!vars)
    <3>1. ReceivedNow' = ReceivedNow /\ DeliveredNow' = DeliveredNow
      BY <2>d DEF ReceivedNow, DeliveredNow
    <3> QED BY <2>0, <3>1, Stutter, PromisedSteps DEF Promised!Next
  <2>e. ASSUME SourceNow = "open", SourceNow' = "open", ~Counts'
        PROVE  [Promised!Next]_(Promised!vars)
    <3>1. ReceivedNow' = 0 /\ DeliveredNow' = 0
      BY <2>e DEF ReceivedNow, DeliveredNow
    <3> QED BY <2>0, <2>e, <3>1, PromisedSteps DEF Promised!Next
  <2> USE DEF loopVars, streamVars
  <2>1. CASE SearchFailed \/ AllFallbackFailed
    <3>1. /\ engine = "choosing" /\ engine' = "closing" /\ pending' = <<"error">>
          /\ UNCHANGED <<models, modelIndex, loopError, chunks, panicked>>
          /\ modelIndex > Len(models) \/ loopError = "searchFailed"
      BY <2>1 DEF SearchFailed, AllFallbackFailed, At, Finish
    <3>2. ~Counts /\ ~Counts'
      BY <3>1, ModelsType DEF Counts, TypeOK
    <3> QED BY <2>0, <2>b, <2>d, <3>1, <3>2
  <2>2. CASE NextModel \/ TryModel \/ ConnectFails \/ CallFails
    <3>1. /\ engine \in {"choosing", "connecting", "calling"}
          /\ engine' \in {"choosing", "connecting"} /\ UNCHANGED <<pending, panicked>>
      BY <2>2 DEF NextModel, TryModel, ConnectFails, CallFails, At, GiveUp
    <3>2. ~Counts /\ ~Counts'
      BY <3>1 DEF Counts
    <3>3. SourceNow' = SourceNow
      BY <2>0, <2>b, <3>1
    <3> QED BY <2>c, <3>2, <3>3
  <2>3. CASE ConnectAzure \/ ReceiveNothing
    <3>1. /\ engine \in {"connecting", "receiving"} /\ panicked'
          /\ UNCHANGED <<engine, pending, models, modelIndex, loopError, chunks>>
      BY <2>3 DEF ConnectAzure, ReceiveNothing, At
    <3>2. (Counts <=> Counts') /\ Texts(InFlight)' = Texts(InFlight)
      BY <2>0, <2>b, <3>1 DEF Counts
    <3> QED BY <2>0, <2>b, <2>d, <3>1, <3>2
  <2>4. CASE Connect
    <3>1. /\ engine = "connecting" /\ engine' = "looping" /\ pending' = <<"usage">>
          /\ chunks' = 0 /\ panicked' = panicked
      BY <2>4 DEF Connect, At
    <3>2. ReceivedNow = 0 /\ DeliveredNow = 0
      BY <3>1 DEF ReceivedNow, DeliveredNow, Counts
    <3>3. ReceivedNow' = 0 /\ DeliveredNow' = 0
      BY <2>0, <3>1 DEF ReceivedNow, DeliveredNow
    <3>4. SourceNow' = SourceNow
      BY <2>0, <2>b, <3>1
    <3> QED BY <2>0, <3>2, <3>3, <3>4, Stutter
  <2>5. CASE CheckContext
    <3>1. /\ engine = "looping" /\ UNCHANGED <<models, modelIndex, loopError, chunks, panicked>>
          /\ \/ engine' = "closing" /\ pending' = <<"error">>
             \/ engine' = "receiving" /\ pending' = <<>>
      BY <2>5 DEF CheckContext, At, Finish
    <3>2. (Counts <=> Counts') /\ Texts(InFlight)' = Texts(InFlight)
      BY <2>0, <2>b, <3>1 DEF Counts
    <3> QED BY <2>0, <2>b, <2>d, <3>1, <3>2
  <2>6. CASE ReceiveText
    <3>1. /\ engine = "receiving" /\ engine' = "looping" /\ pending' = <<"text">>
          /\ chunks' = chunks + 1
          /\ UNCHANGED <<models, modelIndex, loopError, panicked>>
      BY <2>6 DEF ReceiveText, At
    <3>2. Counts /\ Counts'
      BY <3>1 DEF Counts, FlowInv, Places
    <3>3. ReceivedNow' = ReceivedNow + 1 /\ DeliveredNow' = DeliveredNow
      BY <2>0, <2>a, <3>1, <3>2 DEF ReceivedNow, DeliveredNow
    <3>4. SourceNow = "open" /\ SourceNow' = "open"
      BY <2>0, <2>b, <3>1
    <3> QED BY <2>0, <3>3, <3>4, PromisedSteps DEF Promised!Next
  <2>7. CASE ReceiveBadLine \/ ReceiveBroken
    <3>1. /\ engine = "receiving" /\ engine' = "looping" /\ loopError' = "other"
          /\ UNCHANGED <<pending, models, modelIndex, chunks, panicked>>
      BY <2>7 DEF ReceiveBadLine, ReceiveBroken, At
    <3>2. Counts /\ Counts' /\ Texts(InFlight)' = Texts(InFlight)
      BY <2>0, <2>b, <3>1 DEF Counts, FlowInv, Places
    <3> QED BY <2>0, <2>b, <2>d, <3>1, <3>2
  <2>8. CASE ReceiveStop
    <3>1. /\ engine = "receiving" /\ engine' = "waiting"
          /\ UNCHANGED <<pending, models, modelIndex, loopError, chunks>>
      BY <2>8 DEF ReceiveStop, At
    <3>2. (Counts <=> Counts') /\ Texts(InFlight)' = Texts(InFlight)
      BY <2>0, <2>b, <3>1 DEF Counts
    <3> QED BY <2>0, <2>d, <3>1, <3>2
  <2>9. CASE ReceiveStopAfterError \/ ReceiveFunctionCall
    <3>1. /\ engine = "receiving" /\ engine' \in {"choosing", "calling"}
          /\ pending' \in {<<>>, <<"usage">>} /\ panicked' = panicked
      BY <2>0, <2>9 DEF ReceiveStopAfterError, ReceiveFunctionCall, At, GiveUp
    <3>2. ~Counts'
      BY <3>1 DEF Counts
    <3> QED BY <2>0, <2>b, <2>e, <3>1, <3>2
  <2>10. CASE CallSucceeds
    <3>1. /\ engine = "calling" /\ engine' = "connecting" /\ pending' = <<"references">>
          /\ panicked' = panicked
      BY <2>10 DEF CallSucceeds, At
    <3>2. ~Counts /\ ~Counts'
      BY <3>1 DEF Counts
    <3> QED BY <2>0, <2>b, <2>c, <3>1, <3>2
  <2>11. CASE SendDone
    <3>1. /\ engine = "waiting" /\ engine' = "closing" /\ pending' = <<"done">>
          /\ UNCHANGED <<models, modelIndex, loopError, chunks>>
      BY <2>11 DEF SendDone, At, Finish
    <3>2. (Counts <=> Counts') /\ Texts(InFlight)' = Texts(InFlight)
      BY <2>0, <2>b, <3>1 DEF Counts
    <3> QED BY <2>0, <2>d, <3>1, <3>2
  <2> QED BY <1>2, <2>1, <2>2, <2>3, <2>4, <2>5, <2>6, <2>7, <2>8, <2>9, <2>10, <2>11
          DEF Local, Choose, Stream
<1> QED BY <1>1, <1>2

\* What is sent is in flight before and after, and keywords are no text.
LEMMA SendSimulation ==
  ASSUME TypeOK, TypeOK', FlowInv, Send \/ SendKeywords
  PROVE  [Promised!Next]_(Promised!vars)
<1>1. /\ UNCHANGED <<engine, models, modelIndex, loopError, chunks, handler, output, panicked>>
      /\ (Counts <=> Counts') /\ EndNow' = EndNow
  BY DEF Send, SendKeywords, loopVars, streamVars, handlerVars, Counts, EndNow, Shown
<1>2. channel \in Seq(Kind) /\ output \in Seq(Kind) /\ Sent \in Seq(Kind)
  BY SentTypes
<1>3. CASE Send
  <2>1. PICK k \in Kind : pending = <<k>> /\ pending' = <<>> /\ channel' = Append(channel, k)
    BY <1>3, PendingFirst DEF Send, FlowInv
  <2>2. InFlight' = InFlight
    <3>1. channel' \in Seq(Kind)
      BY DEF TypeOK
    <3> QED BY <1>2, <2>1, <3>1, TextsBehind DEF InFlight
  <2>3. SourceNow' = SourceNow /\ Texts(InFlight)' = Texts(InFlight)
    BY <1>1, <2>2 DEF SourceNow, SomewhereIs, Texts, TextAfter
  <2> QED BY <1>1, <2>3, Stutter DEF ReceivedNow, DeliveredNow
<1>4. CASE SendKeywords
  <2>1. /\ channel' = Append(channel, "keywords") /\ pending' = pending /\ "keywords" \in Kind
        /\ Append(channel, "keywords") \in Seq(Kind)
    <3>1. "keywords" \in Kind
      BY DEF Kind
    <3> QED BY <1>2, <1>4, <3>1, Appended DEF SendKeywords
  <2>2. \A kind \in Terminal : Has(Sent', kind) <=> Has(Sent, kind)
    <3>1. Sent' = Append(Sent, "keywords")
      BY <1>1, <1>2, <2>1, AppendToSecond DEF Sent
    <3>2. /\ DOMAIN Sent = 1 .. Len(Sent) /\ DOMAIN Sent' = 1 .. Len(Sent) + 1
          /\ Sent'[Len(Sent) + 1] = "keywords" /\ Len(Sent) \in Nat
          /\ \A i \in DOMAIN Sent : Sent'[i] = Sent[i] /\ i \in DOMAIN Sent'
      BY <1>2, <2>1, <3>1, Appended
    <3>3. \A i \in DOMAIN Sent' : i \in DOMAIN Sent \/ i = Len(Sent) + 1
      BY <3>2
    <3> QED BY <3>2, <3>3 DEF Has, Terminal
  <2>3. SourceNow' = SourceNow
    <3>1. /\ SomewhereIs("done")' <=> SomewhereIs("done")
          /\ SomewhereIs("error")' <=> SomewhereIs("error")
      BY <2>1, <2>2, SomewhereHas DEF Terminal
    <3> QED BY <1>1, <3>1 DEF SourceNow
  <2>4. Texts(InFlight') = Texts(InFlight)
    <3>1. Texts(Append(channel, "keywords")) = Texts(channel)
      BY <1>2, <2>1, TextsAppend
    <3>2. CASE pending = <<>>
      <4>1. InFlight = channel /\ InFlight' = Append(channel, "keywords")
        BY <1>2, <2>1, <3>2, TextsBehind DEF InFlight
      <4> QED BY <3>1, <4>1
    <3>3. CASE pending # <<>>
      <4>1. PICK k \in Kind : pending = <<k>>
        BY <3>3, PendingFirst DEF FlowInv
      <4>2. InFlight = Append(channel, k) /\ InFlight' = Append(Append(channel, "keywords"), k)
        BY <1>2, <2>1, <4>1, TextsBehind DEF InFlight
      <4> QED BY <1>2, <2>1, <3>1, <4>2, TextsAppend
    <3> QED BY <3>2, <3>3
  <2>5. Texts(InFlight)' = Texts(InFlight)
    BY <2>4 DEF Texts, TextAfter
  <2> QED BY <1>1, <2>3, <2>5, Stutter DEF ReceivedNow, DeliveredNow
<1> QED BY <1>3, <1>4

\* Behind a terminal, no text is in flight.
LEMMA NothingBehindTerminal ==
  ASSUME TypeOK, FlowInv, channel # <<>>, Head(channel) \in Terminal
  PROVE  /\ pending = <<>> /\ Texts(InFlight) = 0
         /\ engine \in {"closing", "exited"}
         /\ \A i \in DOMAIN channel : i > 1 => channel[i] = "keywords"
<1> DEFINE n == Len(output) + 1
<1>1. /\ channel \in Seq(Kind) /\ output \in Seq(Kind) /\ Len(output) \in Nat
  BY SentTypes
<1>2. /\ n \in DOMAIN Sent /\ Sent[n] = Head(channel) /\ DOMAIN channel = 1 .. Len(channel)
      /\ Head(channel) = channel[1] /\ Len(channel) \in Nat \ {0}
      /\ \A i \in 1 .. Len(channel) : Len(output) + i \in DOMAIN Sent
                                      /\ Sent[Len(output) + i] = channel[i]
  <2> HIDE DEF Kind
  <2> QED BY <1>1 DEF Sent
<1>3. /\ engine \in {"closing", "exited"} /\ pending = <<>>
      /\ \A j \in DOMAIN Sent : n < j => Sent[j] = "keywords"
  BY <1>2 DEF FlowInv, TerminalIsLast
<1>4. \A i \in DOMAIN channel : i > 1 => channel[i] = "keywords"
  <2> SUFFICES ASSUME NEW i \in 1 .. Len(channel), i > 1 PROVE channel[i] = "keywords"
    BY <1>2
  <2>1. Len(output) + i > n
    BY <1>1, <1>2
  <2> QED BY <1>2, <1>3, <2>1
<1>5. InFlight = channel
  BY <1>1, <1>3, TextsBehind DEF InFlight
<1>6. ASSUME NEW i \in DOMAIN channel PROVE channel[i] # "text"
  <2>1. CASE i = 1
    BY <1>2, <2>1 DEF Terminal
  <2>2. CASE i # 1
    BY <1>2, <1>4, <1>6, <2>2
  <2> QED BY <2>1, <2>2
<1>7. TextAfter(InFlight) = {}
  BY <1>5, <1>6 DEF TextAfter
<1> QED BY <1>3, <1>4, <1>7, FS_EmptySet DEF Texts

\* The handler delivers the text that counts, and ends as the source did; the rest of
\* what it does, the client does and the stream does is a stutter.
LEMMA HandlerSimulation ==
  ASSUME TypeOK, TypeOK', FlowInv, Handler \/ GenerateKeywords \/ BreakStream \/ ClientLeaves
  PROVE  [Promised!Next]_(Promised!vars)
<1>1. CASE GenerateKeywords \/ BreakStream \/ ClientLeaves
  <2>1. UNCHANGED <<engine, pending, models, modelIndex, loopError, chunks, channel, handler,
                    output, panicked>>
    BY <1>1 DEF GenerateKeywords, BreakStream, ClientLeaves, loopVars, streamVars, handlerVars
  <2>2. (Counts <=> Counts') /\ Texts(InFlight)' = Texts(InFlight)
    BY <2>1 DEF Counts, InFlight, Texts, TextAfter
  <2>3. SourceNow' = SourceNow /\ EndNow' = EndNow
    BY <2>1 DEF SourceNow, SomewhereIs, InFlight, EndNow, Shown
  <2> QED BY <2>1, <2>2, <2>3, Stutter DEF ReceivedNow, DeliveredNow
<1>2. CASE HandlerStops
  <2>1. /\ UNCHANGED <<engine, pending, models, modelIndex, loopError, chunks, channel, output,
                       panicked>>
        /\ handler = "reading" /\ handler' = "returned"
    BY <1>2 DEF HandlerStops, Return, loopVars, streamVars
  <2>2. (Counts <=> Counts') /\ Texts(InFlight)' = Texts(InFlight)
    BY <2>1 DEF Counts, InFlight, Texts, TextAfter
  <2>3. ReceivedNow' = ReceivedNow /\ DeliveredNow' = DeliveredNow
    BY <2>1, <2>2 DEF ReceivedNow, DeliveredNow
  <2>4. SourceNow' = SourceNow
    BY <2>1 DEF SourceNow, SomewhereIs, InFlight
  <2>5. EndNow = "none" /\ EndNow' = "left"
    <3>1. \A i \in DOMAIN output : output[i] \notin Terminal
      BY <2>1 DEF FlowInv, ReadsToTerminal
    <3>2. ~Shown("done")' /\ ~Shown("error")'
      BY <2>1, <3>1 DEF Shown, Terminal
    <3> QED BY <2>1, <3>2 DEF EndNow
  <2> QED BY <2>3, <2>4, <2>5, PromisedSteps DEF Promised!Next
<1>3. CASE Take
  <2> DEFINE head == Head(channel)
  <2>1. /\ UNCHANGED <<engine, pending, models, modelIndex, loopError, chunks, panicked>>
        /\ handler = "reading" /\ ~panicked /\ channel # <<>> /\ channel' = Tail(channel)
        /\ output' = Append(output, head)
        /\ head \in Terminal => handler' = "returned"
        /\ head \notin Terminal => handler' = handler
        /\ (Counts <=> Counts')
    BY <1>3 DEF Take, Return, Terminal, loopVars, streamVars, Counts
  <2>2. /\ channel \in Seq(Kind) /\ pending \in Seq(Kind) /\ output \in Seq(Kind)
        /\ Sent \in Seq(Kind)
    BY SentTypes
  <2>3. head \in Kind
    <3> HIDE DEF Kind
    <3> QED BY <2>1, <2>2
  <2>4. /\ InFlight \in Seq(Kind) /\ InFlight # <<>> /\ InFlight[1] = head
        /\ InFlight' = Tail(InFlight)
    <3> HIDE DEF Kind
    <3> QED BY <2>1, <2>2 DEF InFlight
  <2>5. Sent' = Sent
    BY <2>1, <2>2, HandOver DEF Sent
  <2>6. SourceNow' = SourceNow
    <3>1. /\ SomewhereIs("done")' <=> SomewhereIs("done")
          /\ SomewhereIs("error")' <=> SomewhereIs("error")
      BY <2>1, <2>5, SomewhereHas
    <3> QED BY <2>1, <3>1 DEF SourceNow
  <2>7. /\ EndNow = "none"
        /\ EndNow' = IF head = "done" THEN "complete" ELSE IF head = "error" THEN "error" ELSE "none"
    <3> HIDE DEF head
    <3>1. \A i \in DOMAIN output : output[i] \notin Terminal
      BY <2>1 DEF FlowInv, ReadsToTerminal
    <3>2. /\ DOMAIN output = 1 .. Len(output) /\ DOMAIN output' = 1 .. Len(output) + 1
          /\ output'[Len(output) + 1] = head /\ Len(output) \in Nat
          /\ \A i \in DOMAIN output : output'[i] = output[i]
      BY <2>1, <2>2, <2>3, Appended
    <3>3. \A i \in DOMAIN output' : i \in DOMAIN output \/ i = Len(output) + 1
      BY <3>2
    <3>4. \A kind \in Terminal : (\E i \in DOMAIN output' : output'[i] = kind) <=> head = kind
      BY <3>1, <3>2, <3>3
    <3>5. (Shown("done")' <=> head = "done") /\ (Shown("error")' <=> head = "error")
      BY <3>4 DEF Shown, Terminal
    <3> QED BY <2>1, <3>5 DEF EndNow, Terminal
  <2>8. /\ Texts(InFlight)' = Texts(InFlight')
        /\ Texts(InFlight') = IF 1 \in TextAfter(InFlight) THEN Texts(InFlight) - 1
                              ELSE Texts(InFlight)
        /\ Texts(InFlight) \in Nat
        /\ 1 \in TextAfter(InFlight) => head = "text" /\ Texts(InFlight) # 0
    <3>1. Texts(InFlight)' = Texts(InFlight')
      BY DEF Texts, TextAfter
    <3>2. Texts(InFlight') = IF 1 \in TextAfter(InFlight) THEN Texts(InFlight) - 1
                             ELSE Texts(InFlight)
      BY <2>4, TextsTail
    <3>3. Texts(InFlight) \in Nat /\ (Texts(InFlight) = 0 <=> TextAfter(InFlight) = {})
      BY <2>4, TextsAreFinite
    <3>4. 1 \in TextAfter(InFlight) => InFlight[1] = "text"
      BY DEF TextAfter
    <3> QED BY <2>4, <3>1, <3>2, <3>3, <3>4
  <2> HIDE DEF head
  <2>9. chunks \in Nat
    BY ConstantsAssumption DEF TypeOK
  <2>10. CASE Counts /\ 1 \in TextAfter(InFlight)
    <3>1. /\ DeliveredNow < ReceivedNow /\ DeliveredNow' = DeliveredNow + 1
          /\ ReceivedNow' = ReceivedNow
      BY <2>1, <2>8, <2>9, <2>10 DEF DeliveredNow, ReceivedNow
    <3>2. EndNow' = "none"
      BY <2>7, <2>8, <2>10
    <3> QED BY <2>6, <2>7, <3>1, <3>2, PromisedSteps DEF Promised!Next
  <2>11. CASE ~(Counts /\ 1 \in TextAfter(InFlight))
    <3>1. DeliveredNow' = DeliveredNow /\ ReceivedNow' = ReceivedNow
      BY <2>1, <2>8, <2>11 DEF DeliveredNow, ReceivedNow
    <3>2. CASE head \notin Terminal
      <4>1. EndNow' = EndNow
        BY <2>7, <3>2 DEF Terminal
      <4> QED BY <2>6, <3>1, <4>1, Stutter
    <3>3. CASE head \in Terminal
      <4>1. /\ pending = <<>> /\ Texts(InFlight) = 0 /\ engine \in {"closing", "exited"}
            /\ \A i \in DOMAIN channel : i > 1 => channel[i] = "keywords"
        BY <2>1, <3>3, NothingBehindTerminal DEF head
      <4>2. DeliveredNow = ReceivedNow
        BY <2>9, <4>1 DEF DeliveredNow, ReceivedNow
      <4>3. \A kind \in Terminal : SomewhereIs(kind) <=> kind = head
        <5>1. \A i \in DOMAIN output : output[i] \notin Terminal
          BY <2>1 DEF FlowInv, ReadsToTerminal
        <5>2. 1 \in DOMAIN channel /\ channel[1] = head
          BY <2>1, <2>2 DEF head
        <5>3. DOMAIN channel = 1 .. Len(channel) /\ Len(channel) \in Nat
          BY <2>2
        <5>4. \A i \in DOMAIN channel : i # 1 => channel[i] \notin Terminal
          BY <4>1, <5>3 DEF Terminal
        <5>5. \A kind \in Terminal : Has(channel, kind) <=> kind = head
          BY <5>2, <5>4 DEF Has
        <5>6. \A kind \in Terminal : ~Has(output, kind) /\ ~Has(pending, kind)
          BY <4>1, <5>1 DEF Has
        <5> QED BY <2>2, <5>5, <5>6, HasConcat, SomewhereHas DEF Sent
      <4>4. SourceNow = IF head = "done" THEN "complete" ELSE "failed"
        BY <2>1, <3>3, <4>1, <4>3 DEF SourceNow, Terminal
      <4>5. Promised!Complete \/ Promised!Fail
        BY <2>7, <3>3, <4>2, <4>4, PromisedSteps DEF Terminal
      <4> QED BY <2>6, <2>7, <3>1, <4>5, PromisedSteps DEF Promised!Next
    <3> QED BY <3>2, <3>3
  <2> QED BY <2>10, <2>11
<1> QED BY <1>1, <1>2, <1>3 DEF Handler

\* The engine implements AnswerStream: however many attempts failed, with however much of
\* their text on the way to the client, the text behind the last usage is that of the last
\* attempt, all of it and in order, and an error or Done comes behind it.
THEOREM ImplementsAnswerStream == Spec => DeliversAnswerStream
<1>1. Init => Promised!Init
  <2> SUFFICES ASSUME Init
               PROVE  /\ ReceivedNow = 0 /\ DeliveredNow = 0
                      /\ SourceNow = "open" /\ EndNow = "none"
    BY PromisedSteps
  <2>1. /\ engine = "choosing" /\ handler = "reading" /\ ~panicked
        /\ output = <<>> /\ channel = <<>> /\ pending = <<>>
    BY DEF Init
  <2>2. ~Counts
    BY <2>1 DEF Counts
  <2>3. ~SomewhereIs("done") /\ ~SomewhereIs("error")
    BY <2>1 DEF SomewhereIs, InFlight
  <2> QED BY <2>1, <2>2, <2>3 DEF ReceivedNow, DeliveredNow, SourceNow, EndNow
<1>2. /\ IInv /\ FlowInv /\ IInv' /\ FlowInv' /\ [Next]_vars
      => [Promised!Next]_(Promised!vars)
  <2> SUFFICES ASSUME TypeOK, TypeOK', FlowInv, FlowInv', [Next]_vars
               PROVE  [Promised!Next]_(Promised!vars)
    BY DEF IInv
  <2>1. CASE UNCHANGED vars
    <3>1. UNCHANGED <<engine, pending, models, modelIndex, loopError, chunks, channel, handler,
                      output, panicked>>
      BY <2>1 DEF vars, loopVars, streamVars, handlerVars
    <3>2. (Counts <=> Counts') /\ Texts(InFlight)' = Texts(InFlight)
      BY <3>1 DEF Counts, InFlight, Texts, TextAfter
    <3>3. SourceNow' = SourceNow /\ EndNow' = EndNow
      BY <3>1 DEF SourceNow, SomewhereIs, InFlight, EndNow, Shown
    <3> QED BY <3>1, <3>2, <3>3, Stutter DEF ReceivedNow, DeliveredNow
  <2> QED BY <2>1, LocalSimulation, SendSimulation, HandlerSimulation
          DEF Next, Engine, Work, Call, Keywords, Local
<1> QED BY <1>1, <1>2, FlowInvariant, PTL DEF Spec, DeliversAnswerStream, Promised!Spec
=============================================================================
