------------------------ MODULE SolarCompletion_proofs ------------------------
(***************************************************************************)
(* Proofs about SolarCompletion, for every capacity, number of chunks and  *)
(* choice of faults: variables keep their types, what the backend has      *)
(* received is an answer, and engine and relay implement AnswerStream.     *)
(*                                                                         *)
(* That a complete answer is whole is not inductive, as the backend only   *)
(* sees the end of the way. The invariant is about everything that was     *)
(* produced, in the order of its production: what was received, the lines, *)
(* the channel and what is pending (Produced). Sending, taking and         *)
(* receiving leave this sequence alone, but for the null after a terminal. *)
(* For the refinement, TextInv adds that no more text was produced than    *)
(* the LLM gave, and none after it had finished.                           *)
(***************************************************************************)
EXTENDS SolarCompletion, FiniteSetTheorems, TLAPS

Terminal == {"error", "done"}

Clean(s) == \A i \in DOMAIN s : s[i] \in Kind \ Terminal

Queued == channel \o pending

Produced == received \o (lines \o Queued)

\* The answer but for its end, from the first result on.
Found == IF searches THEN <<"keywords", "references">> ELSE <<>>

Texts == [i \in 1 .. chunks |-> "text"]

Opening == IF endpoint = "file" THEN <<>> ELSE <<"usage">>

Body == Opening \o Found \o Texts

\* The stream may go on.
Going == engine \notin {"closing", "exited"}

\* There is no terminal, or it is the last result, or it is written and followed
\* by null.
EndIsLast ==
  \/ Clean(Produced)
  \/ /\ ~Going
     /\ Len(Produced) > 0 /\ Produced[Len(Produced)] \in Terminal
     /\ \A i \in 1 .. Len(Produced) - 1 : Produced[i] \in Kind \ Terminal
  \/ /\ ~Going /\ Queued = <<>>
     /\ Len(Produced) > 1
     /\ Produced[Len(Produced)] = "null" /\ Produced[Len(Produced) - 1] \in Terminal
     /\ \A i \in 1 .. Len(Produced) - 2 : Produced[i] \in Kind \ Terminal

GoingIsClean == Going => Clean(Produced)

\* What the goroutine has produced while it may go on.
GoingProducesBody ==
  /\ engine \in {"idle", "calling", "connecting"} => chunks = 0
  /\ engine = "idle" => Produced = <<>> /\ ~searches
  /\ handler = "choosing" => engine = "idle"
  /\ engine = "calling" => Produced = <<"usage">> /\ endpoint = "multi"
  /\ engine \in {"connecting", "looping", "receiving"} => Produced = Body

HasDone == \E i \in DOMAIN Produced : Produced[i] = "done"

\* Only an LLM that has finished makes the answer done, and then it is whole.
DoneIsWhole ==
  HasDone => stopped /\ (Produced = WholeAnswer \/ Produced = WholeAnswer \o <<"null">>)

\* The relay stops at the first terminal.
RelayStops ==
  /\ relay \in {"posting", "draining", "receiving"} => Clean(received)
  /\ relay = "complete" => received # <<>> /\ received[Len(received)] = "done"
  /\ NullIsNeverReceived

\* A process that is gone has nothing queued.
KilledIsEmpty == handler = "killed" => Queued = <<>> /\ engine = "exited"

EndInv == EndIsLast /\ GoingIsClean /\ GoingProducesBody /\ DoneIsWhole /\ KilledIsEmpty

IInv == TypeOK /\ EndInv /\ RelayStops

---------------------------------------------------------------------------
(* Sequences.                                                              *)

LEMMA HeadIsFirst ==
  ASSUME NEW S, NEW s \in Seq(S), s # <<>>
  PROVE  Head(s) \in S /\ Tail(s) \in Seq(S) /\ Head(s) = s[1] /\ Len(s) \in Nat \ {0}
         /\ Len(Tail(s)) = Len(s) - 1
OBVIOUS

\* The head of a sequence goes to the end of the sequence before it.
LEMMA HandOver ==
  ASSUME NEW S, NEW s \in Seq(S), NEW c \in Seq(S), NEW p \in Seq(S), c # <<>>
  PROVE  (s \o <<Head(c)>>) \o (Tail(c) \o p) = s \o (c \o p)
OBVIOUS

LEMMA AppendOver ==
  ASSUME NEW S, NEW s \in Seq(S), NEW c \in Seq(S), NEW p \in Seq(S), c # <<>>
  PROVE  Append(s, Head(c)) \o (Tail(c) \o p) = s \o (c \o p)
OBVIOUS

LEMMA AppendOverLast ==
  ASSUME NEW S, NEW c \in Seq(S), NEW p \in Seq(S), p # <<>>
  PROVE  Append(c, Head(p)) \o Tail(p) = c \o p
OBVIOUS

LEMMA CleanConcat ==
  ASSUME NEW S, NEW s \in Seq(S), NEW t \in Seq(S), Clean(s), Clean(t)
  PROVE  Clean(s \o t)
<1>1. /\ DOMAIN (s \o t) = 1 .. Len(s) + Len(t) /\ DOMAIN s = 1 .. Len(s) /\ DOMAIN t = 1 .. Len(t)
      /\ \A i \in DOMAIN (s \o t) : (s \o t)[i] = IF i <= Len(s) THEN s[i] ELSE t[i - Len(s)]
      /\ Len(s) \in Nat /\ Len(t) \in Nat
  OBVIOUS
<1>2. \A i \in DOMAIN (s \o t) : i <= Len(s) => i \in DOMAIN s
  BY <1>1
<1>3. \A i \in DOMAIN (s \o t) : ~(i <= Len(s)) => i - Len(s) \in DOMAIN t
  BY <1>1
<1> QED BY <1>1, <1>2, <1>3 DEF Clean

LEMMA EmptyParts ==
  ASSUME NEW S, NEW s \in Seq(S), NEW t \in Seq(S)
  PROVE  s \o t \in Seq(S) /\ (s \o t = <<>> => t = <<>>)
OBVIOUS

\* A single element is the head of the first sequence.
LEMMA OnlyHead ==
  ASSUME NEW S, NEW c \in Seq(S), NEW p \in Seq(S), c # <<>>, Len(c \o p) = 1
  PROVE  Tail(c) \o p = <<>> /\ c \o p = <<Head(c)>>
<1>1. Len(c) \in Nat /\ Len(p) \in Nat /\ Len(c \o p) = Len(c) + Len(p)
  OBVIOUS
<1>2. Len(c) # 0
  OBVIOUS
<1>3. Len(c) = 1 /\ Len(p) = 0
  BY <1>1, <1>2
<1>4. p = <<>>
  BY <1>3
<1>5. Tail(c) = <<>>
  <2>1. Tail(c) \in Seq(S) /\ Len(Tail(c)) = 0
    BY <1>3
  <2> QED BY <2>1
<1>6. c = <<Head(c)>>
  BY <1>3
<1> QED BY <1>4, <1>5, <1>6

\* One more element at the end.
LEMMA LastIs ==
  ASSUME NEW S, NEW s \in Seq(S), NEW e \in S
  PROVE  /\ s \o <<e>> \in Seq(S) /\ Len(s \o <<e>>) = Len(s) + 1
         /\ (s \o <<e>>)[Len(s) + 1] = e
         /\ \A i \in 1 .. Len(s) : (s \o <<e>>)[i] = s[i]
OBVIOUS
---------------------------------------------------------------------------
(* Types.                                                                  *)

\* The results that the goroutine sends, and what the handler makes of a result.
LEMMA Kinds ==
  /\ Kind \subseteq Line /\ "null" \in Line /\ Seq(Kind) \subseteq Seq(Line)
  /\ <<>> \in Seq(Kind) /\ <<"usage">> \in Seq(Kind) /\ <<"keywords", "references">> \in Seq(Kind)
  /\ <<"text">> \in Seq(Kind) /\ <<"error">> \in Seq(Kind) /\ <<"done">> \in Seq(Kind)
  /\ \A k \in Kind : Written(k) \in Seq(Line)
<1>1. Kind \subseteq Line /\ "null" \in Line
  BY DEF Line
<1>2. {"usage", "keywords", "references", "text", "error", "done"} \subseteq Kind
  BY DEF Kind
<1>3. \A k \in Kind : Written(k) \in Seq(Line)
  BY <1>1 DEF Written
<1> QED BY <1>1, <1>2, <1>3

LEMMA InitTypes == Init => TypeOK
<1> SUFFICES ASSUME Init PROVE TypeOK
  OBVIOUS
<1>1. received = <<>> /\ lines = <<>> /\ pending = <<>> /\ channel = <<>> /\ chunks = 0
  BY DEF Init
<1>2. received \in Seq(Line) /\ lines \in Seq(Line) /\ pending \in Seq(Kind) /\ channel \in Seq(Kind)
  BY <1>1
<1>3. Len(channel) <= Capacity /\ chunks \in 0 .. MaxChunks
  BY <1>1, ConstantsAssumption
<1> QED BY <1>2, <1>3 DEF Init, TypeOK

LEMMA HandlerTypes == TypeOK /\ (Handler \/ BreakStream \/ Terminate) => TypeOK'
<1> SUFFICES ASSUME TypeOK PROVE Handler \/ BreakStream \/ Terminate => TypeOK'
  OBVIOUS
<1> USE Kinds DEF TypeOK, responseVars, relayVars, engineVars, llmVars, channelVars
<1>1. StartGoroutine => TypeOK'
  BY DEF StartGoroutine
<1>2. ChoiceFails => TypeOK'
  BY DEF ChoiceFails
<1>3. ChoiceIsEmpty => TypeOK'
  BY DEF ChoiceIsEmpty
<1>4. Take => TypeOK'
  <2> SUFFICES ASSUME Take PROVE TypeOK'
    OBVIOUS
  <2>1. channel # <<>> /\ Head(channel) \in Kind /\ channel' = Tail(channel)
    BY HeadIsFirst DEF Take
  <2>2. channel' \in Seq(Kind) /\ Len(channel') <= Capacity
    BY <2>1, HeadIsFirst, ConstantsAssumption
  <2>3. lines' = lines \o Written(Head(channel)) /\ Written(Head(channel)) \in Seq(Line)
    BY <2>1 DEF Take, WriteLines
  <2>4. lines' \in Seq(Line)
    BY <2>3
  <2> QED BY <2>2, <2>4 DEF Take, WriteLines
<1>5. HandlerStops => TypeOK'
  BY DEF HandlerStops
<1>6. NoticeGone => TypeOK'
  BY DEF NoticeGone
<1>7. BreakStream => TypeOK'
  BY DEF BreakStream
<1>8. Terminate => TypeOK'
  BY ConstantsAssumption DEF Terminate
<1> QED BY <1>1, <1>2, <1>3, <1>4, <1>5, <1>6, <1>7, <1>8 DEF Handler

LEMMA EngineTypes == TypeOK /\ Engine => TypeOK'
<1> SUFFICES ASSUME TypeOK PROVE Engine => TypeOK'
  OBVIOUS
<1> USE Kinds DEF TypeOK, responseVars, relayVars, engineVars, llmVars, channelVars
<1>1. Send => TypeOK'
  BY ConstantsAssumption DEF Send
<1>2. CallSearch => TypeOK'
  BY DEF CallSearch
<1>3. CallFails => TypeOK'
  BY DEF CallFails, Finish
<1>4. Connect => TypeOK'
  BY DEF Connect, Finish
<1>5. CheckContext => TypeOK'
  BY DEF CheckContext, Finish
<1>6. ReceiveText => TypeOK'
  BY ConstantsAssumption DEF ReceiveText
<1>7. ReceiveStop => TypeOK'
  BY DEF ReceiveStop, Finish
<1>8. ReceiveBadLine => TypeOK'
  BY DEF ReceiveBadLine, Finish
<1>9. Close => TypeOK'
  BY DEF Close
<1> QED BY <1>1, <1>2, <1>3, <1>4, <1>5, <1>6, <1>7, <1>8, <1>9 DEF Engine, Receive

LEMMA RelayTypes == TypeOK /\ (Relay \/ Leave) => TypeOK'
<1> SUFFICES ASSUME TypeOK PROVE Relay \/ Leave => TypeOK'
  OBVIOUS
<1> USE Kinds DEF TypeOK, responseVars, relayVars, engineVars, llmVars, channelVars
<1>1. ReceiveLine => TypeOK'
  BY DEF ReceiveLine
<1>2. ReceiveStatus \/ PostFails \/ Drain \/ ReceiveEnd \/ Leave => TypeOK'
  BY DEF ReceiveStatus, PostFails, Drain, ReceiveEnd, Leave
<1> QED BY <1>1, <1>2 DEF Relay

LEMMA NextTypes == TypeOK /\ [Next]_vars => TypeOK'
<1>1. TypeOK /\ UNCHANGED vars => TypeOK'
  BY DEF TypeOK, vars, responseVars, relayVars, engineVars, llmVars, channelVars
<1> QED BY <1>1, HandlerTypes, EngineTypes, RelayTypes DEF Next

\* The variables of the two endpoints and of the backend's relay keep their types.
THEOREM TypeCorrect == Spec => []TypeOK
<1> QED BY InitTypes, NextTypes, PTL DEF Spec
---------------------------------------------------------------------------
(* What is produced.                                                       *)

LEMMA ProducedTypes ==
  ASSUME TypeOK
  PROVE  /\ received \in Seq(Line) /\ lines \in Seq(Line) /\ channel \in Seq(Line)
         /\ pending \in Seq(Line) /\ Queued \in Seq(Line) /\ Produced \in Seq(Line)
<1>1. /\ received \in Seq(Line) /\ lines \in Seq(Line) /\ channel \in Seq(Line)
      /\ pending \in Seq(Line)
  BY Kinds DEF TypeOK
<1> QED BY <1>1 DEF Queued, Produced

LEMMA SendStays == TypeOK /\ Send => Produced' = Produced /\ Queued' = Queued
<1> SUFFICES ASSUME TypeOK, Send PROVE Produced' = Produced /\ Queued' = Queued
  OBVIOUS
<1>1. Queued' = Queued
  BY ProducedTypes, AppendOverLast DEF Send, Queued
<1> QED BY <1>1 DEF Send, Produced, relayVars, responseVars

LEMMA ReceiveLineStays == TypeOK /\ ReceiveLine => Produced' = Produced /\ Queued' = Queued
<1> SUFFICES ASSUME TypeOK, ReceiveLine PROVE Produced' = Produced /\ Queued' = Queued
  OBVIOUS
<1>1. Queued' = Queued
  BY DEF ReceiveLine, Queued, channelVars, engineVars
<1>2. /\ received \in Seq(Line) /\ lines \in Seq(Line) /\ Queued \in Seq(Line)
      /\ lines # <<>>
  BY ProducedTypes DEF ReceiveLine
<1>3. Append(received, Head(lines)) \o (Tail(lines) \o Queued) = received \o (lines \o Queued)
  BY <1>2, AppendOver
<1> QED BY <1>1, <1>3 DEF ReceiveLine, Produced

\* What becomes pending is produced.
LEMMA PendingIsProduced ==
  ASSUME TypeOK, NEW x \in Seq(Kind), pending = <<>>, pending' = x,
         UNCHANGED <<received, lines, channel>>
  PROVE  Produced' = Produced \o x
<1>1. channel \o <<>> = channel
  BY ProducedTypes
<1>2. /\ received \in Seq(Line) /\ lines \in Seq(Line) /\ channel \in Seq(Line)
      /\ x \in Seq(Line)
  BY Kinds, ProducedTypes
<1>3. received \o (lines \o (channel \o x)) = (received \o (lines \o channel)) \o x
  BY <1>2
<1> QED BY <1>1, <1>3 DEF Produced, Queued

\* Steps that produce nothing.
LEMMA Frame ==
  ASSUME EndInv, Produced' = Produced, Queued' = Queued,
         UNCHANGED <<endpoint, chunks, searches, stopped>>,
         \/ engine' = engine
         \/ engine \in {"connecting", "looping"} /\ engine' \in {"looping", "receiving"}
         \/ engine = "closing" /\ engine' = "exited",
         handler' = handler \/ handler' \in {"reading", "panicked", "returned"}
  PROVE  EndInv'
<1>1. Going' = Going
  BY DEF Going
<1>2. EndIsLast' /\ GoingIsClean'
  BY <1>1 DEF EndInv, EndIsLast, GoingIsClean, Clean
<1>3. GoingProducesBody'
  BY DEF EndInv, GoingProducesBody, Body, Opening, Found, Texts
<1>4. DoneIsWhole'
  BY DEF EndInv, DoneIsWhole, HasDone, WholeAnswer
<1>5. KilledIsEmpty'
  BY DEF EndInv, KilledIsEmpty
<1> QED BY <1>2, <1>3, <1>4, <1>5 DEF EndInv

\* An error ends the answer at any place.
LEMMA ErrorEnds ==
  ASSUME TypeOK, EndInv, pending = <<>>, Finish(<<"error">>),
         engine \in {"calling", "connecting", "looping", "receiving"},
         UNCHANGED <<received, lines, channel, endpoint, handler, searches, chunks, stopped>>
  PROVE  EndInv'
<1>1. engine' \in {"closing", "exited"} /\ Produced' = Produced \o <<"error">>
  BY Kinds, PendingIsProduced DEF Finish
<1>2. Clean(Produced) /\ handler # "killed" /\ handler # "choosing"
  BY DEF EndInv, GoingIsClean, Going, KilledIsEmpty, GoingProducesBody
<1>3. "error" \in Line
  BY DEF Kind, Line
<1>4. /\ Len(Produced') = Len(Produced) + 1 /\ Produced'[Len(Produced')] = "error"
      /\ \A i \in 1 .. Len(Produced) : Produced'[i] = Produced[i]
      /\ Len(Produced) \in Nat /\ DOMAIN Produced = 1 .. Len(Produced)
      /\ DOMAIN (Produced') = 1 .. Len(Produced')
  BY <1>1, <1>3, ProducedTypes, LastIs
<1>5. EndIsLast'
  BY <1>1, <1>2, <1>4 DEF EndIsLast, Clean, Going, Terminal
<1>6. ~HasDone'
  BY <1>2, <1>4 DEF HasDone, Clean, Terminal
<1>7. GoingIsClean' /\ GoingProducesBody' /\ KilledIsEmpty' /\ DoneIsWhole'
  BY <1>1, <1>2, <1>6 DEF GoingIsClean, Going, GoingProducesBody, KilledIsEmpty, DoneIsWhole
<1> QED BY <1>5, <1>7 DEF EndInv

LEMMA BodyTypes ==
  ASSUME TypeOK
  PROVE  /\ Opening \in Seq(Line) /\ Found \in Seq(Line) /\ Texts \in Seq(Line)
         /\ Opening \o Found \in Seq(Line) /\ Body \in Seq(Line) /\ WholeAnswer = Body \o <<"done">>
<1>1. Opening \in Seq(Line) /\ Found \in Seq(Line)
  BY Kinds DEF Opening, Found
<1>2. chunks \in Nat /\ "text" \in Line
  BY ConstantsAssumption DEF TypeOK, Kind, Line
<1>3. Texts \in Seq(Line)
  BY <1>2 DEF Texts
<1>4. Opening \o Found \in Seq(Line)
  BY <1>1
<1>5. Body \in Seq(Line)
  BY <1>3, <1>4 DEF Body
<1> QED BY <1>1, <1>3, <1>4, <1>5 DEF WholeAnswer, Body, Opening, Found, Texts

\* A chunk of text goes to the end of the body.
LEMMA TextIsLast ==
  ASSUME TypeOK, chunks' = chunks + 1, UNCHANGED <<endpoint, searches>>
  PROVE  Body' = Body \o <<"text">>
<1>1. Opening' = Opening /\ Found' = Found
  BY DEF Opening, Found
<1>2. chunks \in Nat /\ "text" \in Line
  BY ConstantsAssumption DEF TypeOK, Kind, Line
<1>3. Texts' = Texts \o <<"text">>
  BY <1>2 DEF Texts
<1>4. /\ Opening \o Found \in Seq(Line) /\ Texts \in Seq(Line)
      /\ <<"text">> \in Seq(Line)
  BY <1>2, BodyTypes
<1>5. (Opening \o Found) \o (Texts \o <<"text">>) = ((Opening \o Found) \o Texts) \o <<"text">>
  BY <1>4
<1> QED BY <1>1, <1>3, <1>5 DEF Body

LEMMA TextGoesOn == TypeOK /\ EndInv /\ ReceiveText => EndInv'
<1> SUFFICES ASSUME TypeOK, EndInv, ReceiveText PROVE EndInv'
  OBVIOUS
<1>1. /\ engine = "receiving" /\ pending = <<>> /\ engine' = "looping" /\ pending' = <<"text">>
      /\ chunks' = chunks + 1
      /\ UNCHANGED <<endpoint, received, lines, channel, handler, searches, stopped>>
  BY DEF ReceiveText, At, relayVars, responseVars, channelVars
<1>2. Produced' = Produced \o <<"text">>
  BY <1>1, Kinds, PendingIsProduced
<1>3. Produced = Body /\ Clean(Produced) /\ handler # "killed" /\ handler # "choosing"
  BY <1>1 DEF EndInv, GoingIsClean, Going, GoingProducesBody, KilledIsEmpty
<1>4. Produced' = Body'
  BY <1>1, <1>2, <1>3, TextIsLast
<1>5. "text" \in Line /\ "text" \in Kind \ Terminal
  BY DEF Kind, Line, Terminal
<1>6. /\ Len(Produced') = Len(Produced) + 1 /\ Produced'[Len(Produced')] = "text"
      /\ \A i \in 1 .. Len(Produced) : Produced'[i] = Produced[i]
      /\ Len(Produced) \in Nat /\ DOMAIN Produced = 1 .. Len(Produced)
      /\ DOMAIN (Produced') = 1 .. Len(Produced')
  BY <1>2, <1>5, ProducedTypes, LastIs
<1>7. Clean(Produced')
  BY <1>3, <1>5, <1>6 DEF Clean
<1>8. EndIsLast' /\ GoingIsClean'
  BY <1>7 DEF EndIsLast, GoingIsClean, Clean
<1>9. ~HasDone'
  BY <1>7 DEF HasDone, Clean, Terminal
<1>10. GoingProducesBody' /\ KilledIsEmpty' /\ DoneIsWhole'
  BY <1>1, <1>3, <1>4, <1>9 DEF GoingProducesBody, KilledIsEmpty, DoneIsWhole
<1> QED BY <1>8, <1>10 DEF EndInv

LEMMA StopEnds == TypeOK /\ EndInv /\ ReceiveStop => EndInv'
<1> SUFFICES ASSUME TypeOK, EndInv, ReceiveStop PROVE EndInv'
  OBVIOUS
<1>1. /\ engine = "receiving" /\ pending = <<>> /\ stopped'
      /\ engine' \in {"closing", "exited"} /\ pending' = <<"done">>
      /\ UNCHANGED <<endpoint, received, lines, channel, handler, searches, chunks>>
  BY DEF ReceiveStop, Finish, At, relayVars, responseVars, channelVars
<1>2. Produced' = Produced \o <<"done">>
  BY <1>1, Kinds, PendingIsProduced
<1>3. Produced = Body /\ Clean(Produced) /\ handler # "killed" /\ handler # "choosing"
  BY <1>1 DEF EndInv, GoingIsClean, Going, GoingProducesBody, KilledIsEmpty
<1>4. Produced' = WholeAnswer'
  BY <1>1, <1>2, <1>3, BodyTypes DEF WholeAnswer
<1>5. "done" \in Line
  BY DEF Kind, Line
<1>6. /\ Len(Produced') = Len(Produced) + 1 /\ Produced'[Len(Produced')] = "done"
      /\ \A i \in 1 .. Len(Produced) : Produced'[i] = Produced[i]
      /\ Len(Produced) \in Nat /\ DOMAIN Produced = 1 .. Len(Produced)
      /\ DOMAIN (Produced') = 1 .. Len(Produced')
  BY <1>2, <1>5, ProducedTypes, LastIs
<1>7. EndIsLast'
  BY <1>1, <1>3, <1>6 DEF EndIsLast, Clean, Going, Terminal
<1>8. GoingIsClean' /\ GoingProducesBody' /\ KilledIsEmpty' /\ DoneIsWhole'
  BY <1>1, <1>3, <1>4 DEF GoingIsClean, Going, GoingProducesBody, KilledIsEmpty, DoneIsWhole
<1> QED BY <1>7, <1>8 DEF EndInv

\* An answer that may go on needs its body only.
LEMMA CleanGoesOn ==
  ASSUME Clean(Produced'), chunks' = 0, handler' \notin {"choosing", "killed"},
         \/ engine' = "connecting" /\ Produced' = Body'
         \/ engine' = "calling" /\ Produced' = <<"usage">> /\ endpoint' = "multi"
  PROVE  EndInv'
<1>1. EndIsLast' /\ GoingIsClean'
  BY DEF EndIsLast, GoingIsClean, Clean
<1>2. ~HasDone'
  BY DEF HasDone, Clean, Terminal
<1>3. GoingProducesBody' /\ KilledIsEmpty' /\ DoneIsWhole'
  BY <1>2 DEF GoingProducesBody, KilledIsEmpty, DoneIsWhole
<1> QED BY <1>1, <1>3 DEF EndInv

LEMMA SearchGoesOn == TypeOK /\ EndInv /\ CallSearch => EndInv'
<1> SUFFICES ASSUME TypeOK, EndInv, CallSearch PROVE EndInv'
  OBVIOUS
<1>1. /\ engine = "calling" /\ pending = <<>> /\ searches /\ engine' = "connecting"
      /\ pending' = <<"keywords", "references">>
      /\ UNCHANGED <<endpoint, received, lines, channel, handler, searches, chunks>>
  BY DEF CallSearch, At, relayVars, responseVars, channelVars, llmVars
<1>2. /\ Produced = <<"usage">> /\ endpoint = "multi" /\ chunks = 0
      /\ handler # "killed" /\ handler # "choosing"
  BY <1>1 DEF EndInv, GoingProducesBody, KilledIsEmpty
<1>3. Produced' = <<"usage">> \o <<"keywords", "references">>
  BY <1>1, <1>2, Kinds, PendingIsProduced
<1>4. Opening' = <<"usage">> /\ Found' = <<"keywords", "references">>
  BY <1>1, <1>2 DEF Opening, Found
<1>5. Texts' = <<>>
  BY <1>1, <1>2 DEF Texts
<1>6. <<"usage">> \in Seq(Line) /\ <<"keywords", "references">> \in Seq(Line)
  BY Kinds
<1>7. Body' = <<"usage">> \o <<"keywords", "references">>
  BY <1>4, <1>5, <1>6 DEF Body
<1>8. Clean(Produced')
  <2>1. Clean(<<"usage">>) /\ Clean(<<"keywords", "references">>)
    BY DEF Clean, Kind, Terminal
  <2> QED BY <1>3, <1>6, <2>1, CleanConcat
<1> QED BY <1>1, <1>2, <1>3, <1>7, <1>8, CleanGoesOn

LEMMA StartGoesOn == TypeOK /\ EndInv /\ StartGoroutine => EndInv'
<1> SUFFICES ASSUME TypeOK, EndInv, StartGoroutine PROVE EndInv'
  OBVIOUS
<1>1. handler = "choosing" /\ handler' = "reading"
      /\ UNCHANGED <<endpoint, received, lines, channel, chunks>>
  BY DEF StartGoroutine, relayVars, responseVars, channelVars, llmVars
<1>2. engine = "idle" /\ chunks = 0 /\ Produced = <<>> /\ ~searches
  BY <1>1 DEF EndInv, GoingProducesBody
<1>3. Texts' = <<>>
  BY <1>1, <1>2 DEF Texts
<1>4. CASE endpoint = "file"
  <2>1. engine' = "connecting" /\ UNCHANGED <<pending, searches>>
    BY <1>4 DEF StartGoroutine
  <2>2. Produced' = <<>>
    BY <1>1, <1>2, <2>1 DEF Produced, Queued
  <2>3. Opening' = <<>> /\ Found' = <<>>
    BY <1>1, <1>2, <1>4, <2>1 DEF Opening, Found
  <2>4. Body' = <<>>
    BY <1>3, <2>3 DEF Body
  <2>5. Clean(Produced')
    BY <2>2 DEF Clean
  <2> QED BY <1>1, <1>2, <2>1, <2>2, <2>4, <2>5, CleanGoesOn
<1>5. CASE endpoint = "multi"
  <2>1. pending' = <<"usage">>
        /\ (engine' = "calling" \/ (engine' = "connecting" /\ UNCHANGED searches))
    BY <1>5 DEF StartGoroutine
  <2>2. pending = <<>>
    <3>1. lines \o Queued = <<>>
      BY <1>2, ProducedTypes, EmptyParts DEF Produced
    <3>2. Queued = <<>>
      BY <3>1, ProducedTypes, EmptyParts
    <3> QED BY <3>2, ProducedTypes, EmptyParts DEF Queued
  <2>3. Produced' = <<>> \o <<"usage">>
    BY <1>1, <1>2, <2>1, <2>2, Kinds, PendingIsProduced
  <2>4. Produced' = <<"usage">>
    BY <2>3
  <2>5. Clean(Produced')
    BY <2>4 DEF Clean, Kind, Terminal
  <2>6. ASSUME UNCHANGED searches PROVE Body' = <<"usage">>
    <3>1. Opening' = <<"usage">> /\ Found' = <<>>
      BY <1>1, <1>2, <1>5, <2>6 DEF Opening, Found
    <3> QED BY <1>3, <3>1 DEF Body
  <2> QED BY <1>1, <1>2, <1>5, <2>1, <2>4, <2>5, <2>6, CleanGoesOn
<1> QED BY <1>4, <1>5 DEF TypeOK, Endpoint

\* What is taken goes from the channel to the lines.
LEMMA TakeStays ==
  ASSUME TypeOK, Take, Head(channel) \notin Terminal
  PROVE  Produced' = Produced /\ Queued # <<>>
<1>1. /\ received \in Seq(Line) /\ lines \in Seq(Line) /\ channel \in Seq(Line)
      /\ pending \in Seq(Line) /\ channel # <<>>
  BY ProducedTypes DEF Take
<1>2. /\ lines' = lines \o <<Head(channel)>> /\ channel' = Tail(channel)
      /\ UNCHANGED <<received, pending>>
  BY DEF Take, WriteLines, Written, Terminal, relayVars, engineVars
<1>3. (lines \o <<Head(channel)>>) \o (Tail(channel) \o pending) = lines \o (channel \o pending)
  BY <1>1, HandOver
<1>4. Produced' = Produced
  BY <1>2, <1>3 DEF Produced, Queued
<1>5. Queued # <<>>
  BY <1>1 DEF Queued
<1> QED BY <1>4, <1>5

LEMMA TakeText ==
  ASSUME TypeOK, EndInv, Take, Head(channel) \notin Terminal
  PROVE  EndInv'
<1>1. Produced' = Produced /\ Queued # <<>>
  BY TakeStays
<1>2. UNCHANGED <<endpoint, handler, engine, searches, chunks, stopped>>
  BY DEF Take, engineVars, llmVars
<1>3. EndIsLast' /\ GoingIsClean'
  BY <1>1, <1>2 DEF EndInv, EndIsLast, GoingIsClean, Going, Clean
<1>4. GoingProducesBody' /\ DoneIsWhole'
  BY <1>1, <1>2 DEF EndInv, GoingProducesBody, DoneIsWhole, HasDone, Body, Opening, Found, Texts,
                    WholeAnswer
<1>5. KilledIsEmpty'
  BY <1>1, <1>2 DEF EndInv, KilledIsEmpty
<1> QED BY <1>3, <1>4, <1>5 DEF EndInv

\* A terminal is the last that is taken, and null is written after it.
LEMMA TerminalIsTakenLast ==
  ASSUME TypeOK, EndInv, channel # <<>>, Head(channel) \in Terminal
  PROVE  /\ Queued = <<Head(channel)>> /\ Tail(channel) \o pending = <<>>
         /\ ~Going /\ Len(Produced) > 0 /\ Produced[Len(Produced)] \in Terminal
         /\ \A i \in 1 .. Len(Produced) - 1 : Produced[i] \in Kind \ Terminal
<1>1. /\ received \in Seq(Line) /\ lines \in Seq(Line) /\ channel \in Seq(Line)
      /\ pending \in Seq(Line) /\ Queued \in Seq(Line) /\ Produced \in Seq(Line)
  BY ProducedTypes
<1>2. Len(Queued) \in Nat \ {0} /\ Queued[1] = Head(channel)
  BY <1>1 DEF Queued
<1>3. /\ Len(Produced) = Len(received) + Len(lines) + Len(Queued)
      /\ Produced[Len(received) + Len(lines) + 1] = Queued[1]
  BY <1>1, <1>2 DEF Produced
<1>4. Len(received) \in Nat /\ Len(lines) \in Nat /\ DOMAIN Produced = 1 .. Len(Produced)
  BY <1>1
<1> DEFINE k == Len(received) + Len(lines) + 1
<1>5. k \in 1 .. Len(Produced) /\ Produced[k] \in Terminal
  BY <1>2, <1>3, <1>4
<1>6. ~Clean(Produced) /\ Queued # <<>>
  BY <1>2, <1>4, <1>5 DEF Clean
<1>7. /\ ~Going /\ Len(Produced) > 0 /\ Produced[Len(Produced)] \in Terminal
      /\ \A i \in 1 .. Len(Produced) - 1 : Produced[i] \in Kind \ Terminal
  BY <1>6 DEF EndInv, EndIsLast
<1>8. k = Len(Produced)
  <2>1. ~(k \in 1 .. Len(Produced) - 1)
    BY <1>5, <1>7 DEF Terminal
  <2> QED BY <1>2, <1>3, <1>4, <1>5, <2>1
<1>9. Len(Queued) = 1
  <2>1. Len(received) + Len(lines) + 1 = Len(received) + Len(lines) + Len(Queued)
    BY <1>3, <1>8
  <2>2. \A a, b, c \in Nat : a + b + 1 = a + b + c => c = 1
    OBVIOUS
  <2>3. Len(Queued) \in Nat
    BY <1>2
  <2> QED BY <1>4, <2>1, <2>2, <2>3
<1>10. Len(channel \o pending) = 1
  BY <1>9 DEF Queued
<1>11. Tail(channel) \o pending = <<>> /\ channel \o pending = <<Head(channel)>>
  BY <1>1, <1>10, OnlyHead
<1> QED BY <1>7, <1>11 DEF Queued

\* It is written with a null behind it.
LEMMA NullIsWritten ==
  ASSUME TypeOK, EndInv, Take, Head(channel) \in Terminal
  PROVE  Queued' = <<>> /\ Produced' = Produced \o <<"null">>
<1> DEFINE h == Head(channel)
<1>1. channel # <<>> /\ h \in Line /\ "null" \in Line
  BY Kinds, HeadIsFirst DEF Take, TypeOK
<1>2. /\ lines' = lines \o <<h, "null">> /\ channel' = Tail(channel)
      /\ UNCHANGED <<received, pending>>
  BY DEF Take, WriteLines, Written, Terminal, relayVars, engineVars
<1>3. Queued = <<h>> /\ Queued' = <<>>
  BY <1>1, <1>2, TerminalIsTakenLast DEF Queued
<1>4. received \in Seq(Line) /\ lines \in Seq(Line) /\ Produced \in Seq(Line)
  BY ProducedTypes
<1>5. Produced = received \o (lines \o <<h>>)
  BY <1>3 DEF Produced
<1>6. Produced' = received \o ((lines \o <<h, "null">>) \o <<>>)
  BY <1>2, <1>3 DEF Produced
<1> HIDE DEF h
<1>7. received \o ((lines \o <<h, "null">>) \o <<>>) = (received \o (lines \o <<h>>)) \o <<"null">>
  BY <1>1, <1>4
<1> QED BY <1>3, <1>5, <1>6, <1>7

LEMMA TakeTerminal ==
  ASSUME TypeOK, EndInv, Take, Head(channel) \in Terminal
  PROVE  EndInv'
<1>1. channel # <<>> /\ "null" \in Line
  BY Kinds DEF Take
<1>2. UNCHANGED <<endpoint, handler, engine, searches, chunks, stopped>>
  BY DEF Take, engineVars, llmVars
<1>3. /\ ~Going /\ Len(Produced) > 0 /\ Produced[Len(Produced)] \in Terminal
      /\ \A i \in 1 .. Len(Produced) - 1 : Produced[i] \in Kind \ Terminal
  BY <1>1, TerminalIsTakenLast
<1>4. Queued' = <<>> /\ Produced' = Produced \o <<"null">>
  BY NullIsWritten
<1>5. /\ Len(Produced') = Len(Produced) + 1 /\ Produced'[Len(Produced')] = "null"
      /\ \A i \in 1 .. Len(Produced) : Produced'[i] = Produced[i]
      /\ Len(Produced) \in Nat /\ DOMAIN Produced = 1 .. Len(Produced)
      /\ DOMAIN (Produced') = 1 .. Len(Produced')
  BY <1>1, <1>4, ProducedTypes, LastIs
<1>6. EndIsLast'
  BY <1>2, <1>3, <1>4, <1>5 DEF EndIsLast, Going
<1>7. DoneIsWhole'
  <2> SUFFICES ASSUME HasDone' PROVE stopped' /\ Produced' = WholeAnswer' \o <<"null">>
    BY DEF DoneIsWhole
  <2>1. HasDone
    BY <1>5 DEF HasDone
  <2>2. stopped /\ (Produced = WholeAnswer \/ Produced = WholeAnswer \o <<"null">>)
    BY <2>1 DEF EndInv, DoneIsWhole
  <2>3. WholeAnswer \in Seq(Line)
    <3>1. Body \in Seq(Line) /\ <<"done">> \in Seq(Line) /\ WholeAnswer = Body \o <<"done">>
      BY BodyTypes, Kinds
    <3>2. Body \o <<"done">> \in Seq(Line)
      BY <3>1
    <3> QED BY <3>1, <3>2
  <2>4. Produced # WholeAnswer \o <<"null">>
    BY <1>1, <1>3, <2>3, LastIs DEF Terminal
  <2>5. WholeAnswer' = WholeAnswer
    BY <1>2 DEF WholeAnswer
  <2> QED BY <1>2, <1>4, <2>2, <2>4, <2>5
<1>8. GoingIsClean' /\ GoingProducesBody' /\ KilledIsEmpty'
  BY <1>2, <1>3, <1>4 DEF EndInv, GoingIsClean, Going, GoingProducesBody, KilledIsEmpty
<1> QED BY <1>6, <1>7, <1>8 DEF EndInv

\* What was written before the process ended has no terminal, or is everything.
LEMMA TerminateEnds == TypeOK /\ EndInv /\ Terminate => EndInv'
<1> SUFFICES ASSUME TypeOK, EndInv, Terminate PROVE EndInv'
  OBVIOUS
<1>1. /\ handler' = "killed" /\ engine' = "exited" /\ pending' = <<>> /\ channel' = <<>>
      /\ UNCHANGED <<endpoint, received, lines, searches, chunks, stopped>>
  BY DEF Terminate, relayVars, responseVars, llmVars
<1>2. /\ received \in Seq(Line) /\ lines \in Seq(Line) /\ Queued \in Seq(Line)
      /\ Produced \in Seq(Line)
  BY ProducedTypes
<1> DEFINE w == received \o lines
<1>3. Queued' = <<>>
  BY <1>1 DEF Queued
<1>4. Produced' = w
  BY <1>1, <1>2, <1>3 DEF Produced
<1>5. /\ w \in Seq(Line) /\ Produced = w \o Queued
  BY <1>2 DEF Produced
<1> HIDE DEF w
<1>6. /\ Len(Produced) = Len(w) + Len(Queued) /\ \A i \in 1 .. Len(w) : Produced[i] = w[i]
      /\ Len(w) \in Nat /\ Len(Queued) \in Nat /\ (Len(Queued) = 0 => Queued = <<>>)
      /\ DOMAIN w = 1 .. Len(w) /\ DOMAIN Produced = 1 .. Len(Produced) /\ w \o <<>> = w
  BY <1>2, <1>5
<1>7. Clean(w) \/ w = Produced
  <2>1. CASE Queued = <<>>
    BY <1>5, <1>6, <2>1
  <2>2. CASE Queued # <<>>
    <3>1. \A i \in 1 .. Len(w) : i <= Len(Produced) - 1
      BY <1>6, <2>2
    <3> QED BY <1>6, <2>2, <3>1 DEF EndInv, EndIsLast, Clean
  <2> QED BY <2>1, <2>2
<1>8. EndIsLast' /\ DoneIsWhole'
  <2>1. CASE Clean(w)
    BY <1>4, <2>1 DEF EndIsLast, DoneIsWhole, HasDone, Clean, Terminal
  <2>2. CASE w = Produced
    <3>1. WholeAnswer' = WholeAnswer /\ Produced' = Produced /\ ~Going'
      BY <1>1, <1>4, <2>2 DEF WholeAnswer, Going
    <3> QED BY <1>1, <1>3, <3>1 DEF EndInv, EndIsLast, DoneIsWhole, HasDone, Clean
  <2> QED BY <1>7, <2>1, <2>2
<1>9. GoingIsClean' /\ GoingProducesBody' /\ KilledIsEmpty'
  BY <1>1, <1>3 DEF GoingIsClean, Going, GoingProducesBody, KilledIsEmpty
<1> QED BY <1>8, <1>9 DEF EndInv

\* Every step of the two programs keeps the end of what is produced.
LEMMA EndPreserved == TypeOK /\ EndInv /\ [Next]_vars => EndInv'
<1> SUFFICES ASSUME TypeOK, EndInv, [Next]_vars PROVE EndInv'
  OBVIOUS
<1> USE DEF relayVars, responseVars, engineVars, llmVars, channelVars
<1>1. CASE ChoiceFails \/ ChoiceIsEmpty \/ HandlerStops \/ NoticeGone \/ BreakStream
           \/ ReceiveStatus \/ PostFails \/ Drain \/ ReceiveEnd \/ Leave \/ Close \/ UNCHANGED vars
  <2>1. UNCHANGED <<received, lines, channel, pending, endpoint, chunks, searches, stopped>>
    BY <1>1 DEF ChoiceFails, ChoiceIsEmpty, HandlerStops, NoticeGone, BreakStream, ReceiveStatus,
                PostFails, Drain, ReceiveEnd, Leave, Close, vars
  <2>2. Produced' = Produced /\ Queued' = Queued
    BY <2>1 DEF Produced, Queued
  <2>3. /\ engine' = engine \/ (engine = "closing" /\ engine' = "exited")
        /\ handler' = handler \/ handler' \in {"reading", "panicked", "returned"}
    BY <1>1 DEF ChoiceFails, ChoiceIsEmpty, HandlerStops, NoticeGone, BreakStream, ReceiveStatus,
                PostFails, Drain, ReceiveEnd, Leave, Close, vars, At
  <2> QED BY <2>1, <2>2, <2>3, Frame
<1>2. CASE Take
  BY <1>2, TakeText, TakeTerminal
<1>3. CASE Send
  <2>1. UNCHANGED <<endpoint, chunks, searches, stopped, engine, handler>>
    BY <1>3 DEF Send
  <2> QED BY <1>3, <2>1, SendStays, Frame
<1>4. CASE ReceiveLine
  <2>1. UNCHANGED <<endpoint, chunks, searches, stopped, engine, handler>>
    BY <1>4 DEF ReceiveLine
  <2> QED BY <1>4, <2>1, ReceiveLineStays, Frame
<1>5. CASE Connect \/ CheckContext \/ CallFails \/ ReceiveBadLine
  <2>1. /\ pending = <<>> /\ engine \in {"calling", "connecting", "looping", "receiving"}
        /\ UNCHANGED <<received, lines, channel, endpoint, handler, searches, chunks, stopped>>
    BY <1>5 DEF Connect, CheckContext, CallFails, ReceiveBadLine, At
  <2>2. CASE Finish(<<"error">>)
    BY <2>1, <2>2, ErrorEnds
  <2>3. CASE ~Finish(<<"error">>)
    <3>1. /\ UNCHANGED pending
          /\ engine \in {"connecting", "looping"} /\ engine' \in {"looping", "receiving"}
      BY <1>5, <2>3 DEF Connect, CheckContext, CallFails, ReceiveBadLine, At
    <3>2. Produced' = Produced /\ Queued' = Queued
      BY <2>1, <3>1 DEF Produced, Queued
    <3> QED BY <2>1, <3>1, <3>2, Frame
  <2> QED BY <2>2, <2>3
<1> QED BY <1>1, <1>2, <1>3, <1>4, <1>5, StartGoesOn, SearchGoesOn, TextGoesOn, StopEnds,
          TerminateEnds DEF Next, Handler, Engine, Receive, Relay

LEMMA InitEnd == Init => IInv
<1> SUFFICES ASSUME Init PROVE IInv
  OBVIOUS
<1>1. /\ received = <<>> /\ Produced = <<>> /\ Queued = <<>> /\ chunks = 0 /\ engine = "idle"
      /\ handler = "choosing" /\ relay = "posting" /\ ~searches
  BY DEF Init, Produced, Queued
<1>2. Clean(Produced) /\ ~HasDone /\ Clean(received)
  BY <1>1 DEF Clean, HasDone
<1>3. EndInv
  BY <1>1, <1>2 DEF EndInv, EndIsLast, GoingIsClean, GoingProducesBody, DoneIsWhole, KilledIsEmpty
<1>4. NullIsNeverReceived
  BY <1>1 DEF NullIsNeverReceived, Contains
<1>5. RelayStops
  BY <1>1, <1>2, <1>4 DEF RelayStops
<1> QED BY <1>3, <1>5, InitTypes DEF IInv
---------------------------------------------------------------------------
(* What is received.                                                       *)

\* The next line is that of the place after those that were received.
LEMMA NextLine ==
  ASSUME TypeOK, lines # <<>>
  PROVE  /\ Len(received) + 1 \in 1 .. Len(Produced)
         /\ Produced[Len(received) + 1] = Head(lines)
         /\ \A i \in 1 .. Len(received) : Produced[i] = received[i]
<1>1. received \in Seq(Line) /\ lines \in Seq(Line) /\ Queued \in Seq(Line)
  BY ProducedTypes
<1>2. Len(lines) \in Nat \ {0} /\ Len(received) \in Nat /\ Len(Queued) \in Nat
  BY <1>1
<1>3. Len(Produced) = Len(received) + Len(lines) + Len(Queued)
  BY <1>1 DEF Produced
<1>4. Produced[Len(received) + 1] = Head(lines)
  BY <1>1, <1>2 DEF Produced
<1>5. \A i \in 1 .. Len(received) : Produced[i] = received[i]
  BY <1>1 DEF Produced
<1>6. Len(received) + 1 \in 1 .. Len(Produced)
  BY <1>2, <1>3
<1> QED BY <1>4, <1>5, <1>6

\* After a clean beginning null is not next, as it follows a terminal.
LEMMA NullIsNotNext ==
  ASSUME TypeOK, EndInv, Clean(received), lines # <<>>
  PROVE  Head(lines) # "null"
<1> SUFFICES ASSUME Head(lines) = "null" PROVE FALSE
  OBVIOUS
<1> DEFINE k == Len(received)
<1>1. received \in Seq(Line) /\ Produced \in Seq(Line)
  BY ProducedTypes
<1>2. k \in Nat /\ Len(Produced) \in Nat /\ DOMAIN received = 1 .. k /\ DOMAIN Produced = 1 .. Len(Produced)
  BY <1>1
<1>3. /\ k + 1 \in 1 .. Len(Produced) /\ Produced[k + 1] = "null"
      /\ \A i \in 1 .. k : Produced[i] = received[i]
  BY NextLine
<1> HIDE DEF k
<1>4. k \in Nat /\ Len(Produced) \in Nat /\ k + 1 \in 1 .. Len(Produced)
  BY <1>2, <1>3
<1>5. \A a, n \in Nat : a + 1 \in 1 .. n =>
        /\ a + 1 = n \/ a + 1 \in 1 .. n - 1
        /\ a + 1 = n \/ a + 1 = n - 1 \/ a + 1 \in 1 .. n - 2
        /\ n > 1 /\ a + 1 = n => a \in 1 .. a /\ a = n - 1
  OBVIOUS
<1>6. "null" \notin Kind /\ "null" \notin Terminal
  BY DEF Kind, Terminal
<1>7. ~Clean(Produced)
  BY <1>2, <1>3, <1>6 DEF Clean
<1>8. CASE /\ Len(Produced) > 0 /\ Produced[Len(Produced)] \in Terminal
           /\ \A i \in 1 .. Len(Produced) - 1 : Produced[i] \in Kind \ Terminal
  <2>1. k + 1 # Len(Produced)
    BY <1>3, <1>6, <1>8
  <2>2. k + 1 \in 1 .. Len(Produced) - 1
    BY <1>4, <1>5, <2>1
  <2> QED BY <1>3, <1>6, <1>8, <2>2
<1>9. CASE /\ Len(Produced) > 1
           /\ Produced[Len(Produced)] = "null" /\ Produced[Len(Produced) - 1] \in Terminal
           /\ \A i \in 1 .. Len(Produced) - 2 : Produced[i] \in Kind \ Terminal
  <2>1. k + 1 # Len(Produced) - 1
    BY <1>3, <1>6, <1>9
  <2>2. ~(k + 1 \in 1 .. Len(Produced) - 2)
    BY <1>3, <1>6, <1>9
  <2>3. k + 1 = Len(Produced)
    BY <1>4, <1>5, <2>1, <2>2
  <2>4. k \in 1 .. k /\ k = Len(Produced) - 1
    BY <1>9, <1>4, <1>5, <2>3
  <2>5. received[k] \in Terminal
    BY <1>3, <1>9, <2>4
  <2> QED BY <1>2, <2>4, <2>5 DEF Clean
<1> QED BY <1>7, <1>8, <1>9 DEF EndInv, EndIsLast

LEMMA RelayStays == IInv /\ [Next]_vars => RelayStops'
<1> SUFFICES ASSUME IInv, [Next]_vars PROVE RelayStops'
  OBVIOUS
<1>1. TypeOK /\ EndInv /\ RelayStops
  BY DEF IInv
<1>2. CASE ReceiveLine
  <2> DEFINE h == Head(lines)
  <2>1. /\ relay = "receiving" /\ lines # <<>> /\ received' = Append(received, h)
        /\ relay' = CASE h = "error" -> "failed" [] h = "done" -> "complete" [] OTHER -> "receiving"
    BY <1>2 DEF ReceiveLine
  <2>2. received \in Seq(Line) /\ h \in Line /\ Clean(received) /\ NullIsNeverReceived
    BY <1>1, <2>1, HeadIsFirst DEF TypeOK, RelayStops
  <2>3. h # "null"
    BY <1>1, <2>1, <2>2, NullIsNotNext
  <2> HIDE DEF h
  <2>4. /\ Len(received') = Len(received) + 1 /\ received'[Len(received')] = h /\ received' # <<>>
        /\ \A i \in 1 .. Len(received) : received'[i] = received[i]
        /\ Len(received) \in Nat /\ DOMAIN received = 1 .. Len(received)
        /\ DOMAIN (received') = 1 .. Len(received')
    BY <2>1, <2>2
  <2>5. NullIsNeverReceived'
    BY <2>2, <2>3, <2>4 DEF NullIsNeverReceived, Contains
  <2>6. relay' = "complete" => h = "done"
    BY <2>1
  <2>7. relay' \in {"posting", "draining", "receiving"} => h \notin Terminal
    BY <2>1 DEF Terminal
  <2>8. h \notin Terminal => Clean(received')
    BY <2>2, <2>3, <2>4 DEF Clean, Line, Kind
  <2> QED BY <2>4, <2>5, <2>6, <2>7, <2>8 DEF RelayStops
<1>3. CASE ~ReceiveLine
  <2> USE DEF relayVars, responseVars, engineVars, llmVars, channelVars
  <2>1. UNCHANGED received
    BY <1>3 DEF Next, Handler, Engine, Receive, Relay, StartGoroutine, ChoiceFails, ChoiceIsEmpty,
                Take, HandlerStops, NoticeGone, Send, CallSearch, CallFails, Connect, CheckContext,
                ReceiveText, ReceiveStop, ReceiveBadLine, Close, BreakStream, Terminate,
                ReceiveStatus, PostFails, Drain, ReceiveEnd, Leave, vars
  <2>2. /\ relay' = "complete" => relay = "complete"
        /\ relay' \in {"posting", "draining", "receiving"}
             => relay \in {"posting", "draining", "receiving"}
    BY <1>3 DEF Next, Handler, Engine, Receive, Relay, StartGoroutine, ChoiceFails, ChoiceIsEmpty,
                Take, HandlerStops, NoticeGone, Send, CallSearch, CallFails, Connect, CheckContext,
                ReceiveText, ReceiveStop, ReceiveBadLine, Close, BreakStream, Terminate,
                ReceiveStatus, PostFails, Drain, ReceiveEnd, Leave, vars
  <2> QED BY <1>1, <2>1, <2>2 DEF RelayStops, NullIsNeverReceived, Clean
<1> QED BY <1>2, <1>3

LEMMA CompleteIsWhole == IInv /\ relay = "complete" => stopped /\ received = WholeAnswer
<1> SUFFICES ASSUME IInv, relay = "complete" PROVE stopped /\ received = WholeAnswer
  OBVIOUS
<1>1. TypeOK /\ EndInv /\ RelayStops
  BY DEF IInv
<1>2. received \in Seq(Line) /\ lines \in Seq(Line) /\ Queued \in Seq(Line)
  BY <1>1, ProducedTypes
<1> DEFINE k    == Len(received)
           rest == lines \o Queued
<1>3. rest \in Seq(Line) /\ k \in Nat \ {0} /\ received[k] = "done"
  BY <1>1, <1>2 DEF RelayStops
<1>4. Produced = received \o rest
  BY DEF Produced
<1> HIDE DEF k, rest
<1>5. /\ Len(Produced) = k + Len(rest) /\ Len(rest) \in Nat /\ DOMAIN Produced = 1 .. Len(Produced)
      /\ \A i \in 1 .. k : Produced[i] = received[i]
  BY <1>2, <1>3, <1>4 DEF k
<1>6. k \in DOMAIN Produced /\ Produced[k] = "done"
  BY <1>3, <1>5
<1>7. stopped /\ (Produced = WholeAnswer \/ Produced = WholeAnswer \o <<"null">>)
  BY <1>1, <1>6 DEF EndInv, DoneIsWhole, HasDone
<1>8. Body \in Seq(Line) /\ WholeAnswer = Body \o <<"done">> /\ "done" \in Line /\ "null" \in Line
  BY <1>1, BodyTypes DEF Kind, Line
<1>9. /\ WholeAnswer \in Seq(Line) /\ Len(WholeAnswer) = Len(Body) + 1
      /\ WholeAnswer[Len(Body) + 1] = "done" /\ Len(Body) \in Nat
  BY <1>8
<1>10. CASE Produced = WholeAnswer
  <2>1. k = Len(Produced)
    <3>1. ~(k \in 1 .. Len(Produced) - 1)
      BY <1>1, <1>5, <1>6, <1>9, <1>10 DEF EndInv, EndIsLast, Terminal, Clean
    <3> QED BY <1>3, <1>5, <3>1
  <2>2. rest = <<>>
    BY <1>3, <1>5, <2>1
  <2>3. received \o <<>> = received
    BY <1>2
  <2> QED BY <1>4, <1>7, <1>10, <2>2, <2>3
<1>11. CASE Produced = WholeAnswer \o <<"null">>
  <2>1. /\ Len(Produced) = Len(WholeAnswer) + 1 /\ Produced[Len(Produced)] = "null"
        /\ \A i \in 1 .. Len(WholeAnswer) : Produced[i] = WholeAnswer[i]
    BY <1>8, <1>9, <1>11, LastIs
  <2>2. k = Len(Produced) - 1
    <3>1. k # Len(Produced)
      BY <1>6, <2>1
    <3>2. ~(k \in 1 .. Len(Produced) - 2)
      BY <1>1, <1>5, <1>6, <2>1 DEF EndInv, EndIsLast, Terminal, Clean, Kind
    <3> QED BY <1>3, <1>5, <3>1, <3>2
  <2>3. k = Len(WholeAnswer)
    BY <1>9, <2>1, <2>2
  <2>4. \A i \in 1 .. k : received[i] = WholeAnswer[i]
    BY <1>5, <2>1, <2>3
  <2> QED BY <1>2, <1>7, <1>9, <2>3, <2>4 DEF k
<1> QED BY <1>7, <1>10, <1>11

LEMMA InductiveInvariant == Spec => []IInv
<1>1. IInv /\ [Next]_vars => IInv'
  BY NextTypes, EndPreserved, RelayStays DEF IInv
<1> QED BY <1>1, InitEnd, PTL DEF Spec

\* What the backend receives from the two endpoints is an answer: once it takes
\* the answer for complete, the LLM has finished and it has all of it, and the
\* null that the handler writes after a terminal is never read.
THEOREM ReceivedAnswer == Spec => []ReceivedIsAnswer
<1>1. IInv => ReceivedIsAnswer
  BY CompleteIsWhole DEF IInv, RelayStops, ReceivedIsAnswer, CompleteMeansWhole
<1> QED BY <1>1, InductiveInvariant, PTL
---------------------------------------------------------------------------
(* The refinement: the text that was produced.                             *)

TextCount(s) == Cardinality({i \in DOMAIN s : s[i] = "text"})

\* Every text was streamed by an LLM that had not finished before.
TextInv ==
  /\ Going => ~stopped
  /\ TextCount(Produced) <= chunks

LEMMA TextsAreFinite ==
  ASSUME NEW s \in Seq(Line)
  PROVE  IsFiniteSet({i \in DOMAIN s : s[i] = "text"}) /\ TextCount(s) \in Nat
<1> DEFINE places == {i \in DOMAIN s : s[i] = "text"}
<1>1. Len(s) \in Nat /\ DOMAIN s = 1 .. Len(s)
  OBVIOUS
<1>2. IsFiniteSet(1 .. Len(s)) /\ places \subseteq 1 .. Len(s)
  BY <1>1, FS_Interval
<1>3. IsFiniteSet(places)
  BY <1>2, FS_Subset
<1> QED BY <1>3, FS_CardinalityType DEF TextCount

LEMMA CountLast ==
  ASSUME NEW s \in Seq(Line), NEW e \in Line
  PROVE  TextCount(s \o <<e>>) = IF e = "text" THEN TextCount(s) + 1 ELSE TextCount(s)
<1> DEFINE before == {i \in DOMAIN s : s[i] = "text"}
           t      == s \o <<e>>
           after  == {i \in DOMAIN t : t[i] = "text"}
           n      == Len(s) + 1
<1>1. /\ n \in Nat \ {0} /\ DOMAIN s = 1 .. n - 1 /\ DOMAIN t = 1 .. n /\ t[n] = e
      /\ \A i \in 1 .. n - 1 : t[i] = s[i]
  BY LastIs
<1>2. IsFiniteSet(before)
  BY TextsAreFinite
<1> HIDE DEF t, n
<1>3. n \notin before
  BY <1>1
<1>4. CASE e = "text"
  <2>1. after = before \union {n}
    <3>1. \A i \in 1 .. n : i \in 1 .. n - 1 \/ i = n
      BY <1>1
    <3>2. \A i \in 1 .. n - 1 : i \in 1 .. n /\ (t[i] = "text" <=> s[i] = "text")
      BY <1>1
    <3>3. n \in 1 .. n /\ t[n] = "text"
      BY <1>1, <1>4
    <3> QED BY <1>1, <3>1, <3>2, <3>3
  <2>2. Cardinality(after) = Cardinality(before) + 1
    BY <1>2, <1>3, <2>1, FS_AddElement
  <2> QED BY <1>4, <2>2 DEF TextCount, t
<1>5. CASE e # "text"
  <2>1. after = before
    BY <1>1, <1>5
  <2> QED BY <1>5, <2>1 DEF TextCount, t
<1> QED BY <1>4, <1>5

LEMMA CountPrefix ==
  ASSUME NEW s \in Seq(Line), NEW t \in Seq(Line)
  PROVE  TextCount(s) <= TextCount(s \o t)
<1> DEFINE before == {i \in DOMAIN s : s[i] = "text"}
           u      == s \o t
           after  == {i \in DOMAIN u : u[i] = "text"}
<1>1. /\ Len(s) \in Nat /\ Len(t) \in Nat /\ DOMAIN s = 1 .. Len(s)
      /\ DOMAIN u = 1 .. Len(s) + Len(t) /\ \A i \in 1 .. Len(s) : u[i] = s[i]
      /\ u \in Seq(Line)
  OBVIOUS
<1>2. IsFiniteSet(after)
  BY <1>1, TextsAreFinite
<1> HIDE DEF u
<1>3. before \subseteq after
  BY <1>1
<1> QED BY <1>2, <1>3, FS_Subset DEF TextCount, u

\* A complete answer has a text for each chunk.
LEMMA CountWhole == TypeOK => TextCount(WholeAnswer) = chunks
<1> SUFFICES ASSUME TypeOK PROVE TextCount(WholeAnswer) = chunks
  OBVIOUS
<1> DEFINE front == Opening \o Found
           m     == Len(front)
<1>1. /\ front \in Seq(Line) /\ Texts \in Seq(Line) /\ Body \in Seq(Line)
      /\ WholeAnswer = Body \o <<"done">> /\ Body = front \o Texts
  BY BodyTypes DEF Body
<1>2. chunks \in Nat /\ Len(Texts) = chunks /\ \A i \in 1 .. chunks : Texts[i] = "text"
  BY ConstantsAssumption DEF TypeOK, Texts
<1>3. \A i \in 1 .. m : front[i] # "text"
  <2>1. /\ Opening = <<>> \/ Opening = <<"usage">>
        /\ Found = <<>> \/ Found = <<"keywords", "references">>
    BY DEF Opening, Found
  <2>2. /\ \A i \in 1 .. Len(Opening) : Opening[i] # "text"
        /\ \A i \in 1 .. Len(Found) : Found[i] # "text"
    BY <2>1
  <2>3. Opening \in Seq(Line) /\ Found \in Seq(Line)
    BY BodyTypes
  <2>4. ASSUME NEW i \in 1 .. m PROVE front[i] # "text"
    <3>1. /\ i \in Int /\ Len(Opening) \in Nat
          /\ i <= Len(Opening) => i \in 1 .. Len(Opening) /\ front[i] = Opening[i]
          /\ i > Len(Opening) =>
               i - Len(Opening) \in 1 .. Len(Found) /\ front[i] = Found[i - Len(Opening)]
      BY <2>3
    <3> QED BY <2>2, <3>1
  <2> QED BY <2>4
<1> HIDE DEF front
<1>4. /\ m \in Nat /\ DOMAIN Body = 1 .. m + chunks
      /\ \A i \in 1 .. m : Body[i] = front[i]
      /\ \A i \in m + 1 .. m + chunks : i - m \in 1 .. chunks /\ Body[i] = Texts[i - m]
  <2>1. ASSUME NEW f \in Seq(Line), NEW t \in Seq(Line)
        PROVE  /\ Len(f) \in Nat /\ DOMAIN (f \o t) = 1 .. Len(f) + Len(t)
               /\ \A i \in 1 .. Len(f) : (f \o t)[i] = f[i]
               /\ \A i \in Len(f) + 1 .. Len(f) + Len(t) :
                    i - Len(f) \in 1 .. Len(t) /\ (f \o t)[i] = t[i - Len(f)]
    OBVIOUS
  <2> QED BY <1>1, <1>2, <2>1
<1> HIDE DEF front, m
<1>5. {i \in DOMAIN Body : Body[i] = "text"} = m + 1 .. m + chunks
  <2>1. \A i \in 1 .. m + chunks : i \in 1 .. m \/ i \in m + 1 .. m + chunks
    BY <1>2, <1>4
  <2>2. \A i \in 1 .. m : Body[i] # "text" /\ i \notin m + 1 .. m + chunks
    BY <1>3, <1>4
  <2>3. \A i \in m + 1 .. m + chunks : Body[i] = "text" /\ i \in 1 .. m + chunks
    BY <1>2, <1>4
  <2> QED BY <1>4, <2>1, <2>2, <2>3
<1>6. Cardinality(m + 1 .. m + chunks) = chunks
  <2>1. m + 1 \in Int /\ m + chunks \in Int
    BY <1>2, <1>4
  <2>2. Cardinality(m + 1 .. m + chunks) = IF m + 1 > m + chunks THEN 0 ELSE (m + chunks) - (m + 1) + 1
    BY <2>1, FS_Interval
  <2> QED BY <1>2, <1>4, <2>2
<1>7. TextCount(Body) = chunks
  BY <1>5, <1>6 DEF TextCount
<1> QED BY <1>1, <1>7, CountLast DEF Kind, Line

\* A result other than text, pending or written, changes no count.
LEMMA CountStays ==
  ASSUME TypeOK, TextInv, NEW e \in Line \ {"text"}, Produced' = Produced \o <<e>>, chunks' = chunks
  PROVE  (TextCount(Produced) <= chunks)'
<1>1. TextCount(Produced \o <<e>>) = TextCount(Produced)
  BY ProducedTypes, CountLast
<1> QED BY <1>1 DEF TextInv

LEMMA NextTexts == TypeOK /\ EndInv /\ TextInv /\ [Next]_vars => TextInv'
<1> SUFFICES ASSUME TypeOK, EndInv, TextInv, [Next]_vars PROVE TextInv'
  OBVIOUS
<1> USE DEF relayVars, responseVars, engineVars, llmVars, channelVars
<1>1. (Going => ~stopped)'
  <2>1. CASE ReceiveStop
    BY <2>1 DEF ReceiveStop, Finish, Going
  <2>2. CASE StartGoroutine
    <3>1. Going /\ stopped' = stopped
      BY <2>2 DEF StartGoroutine, EndInv, GoingProducesBody, Going
    <3> QED BY <3>1 DEF TextInv
  <2>3. CASE ~ReceiveStop /\ ~StartGoroutine
    <3>1. stopped' = stopped /\ (Going' => Going)
      BY <2>3 DEF Next, Handler, Engine, Receive, Relay, ChoiceFails, ChoiceIsEmpty,
                  Take, HandlerStops, NoticeGone, Send, CallSearch, CallFails, Connect,
                  CheckContext, ReceiveText, ReceiveBadLine, Close, BreakStream, Terminate,
                  ReceiveStatus, PostFails, Drain, ReceiveLine, ReceiveEnd, Leave, vars, Going, At,
                  Finish
    <3> QED BY <3>1 DEF TextInv
  <2> QED BY <2>1, <2>2, <2>3
<1>2. (TextCount(Produced) <= chunks)'
  <2>0. /\ Line \ {"text"} = {"usage", "keywords", "references", "error", "done", "null"}
        /\ Produced \in Seq(Line)
    BY ProducedTypes DEF Kind, Line
  <2>a. ASSUME Produced' = Produced, chunks' = chunks PROVE (TextCount(Produced) <= chunks)'
    BY <2>a DEF TextInv
  <2>1. CASE ChoiceFails \/ ChoiceIsEmpty \/ HandlerStops \/ NoticeGone \/ BreakStream
             \/ ReceiveStatus \/ PostFails \/ Drain \/ ReceiveEnd \/ Leave \/ Close \/ UNCHANGED vars
    <3>1. UNCHANGED <<received, lines, channel, pending, chunks>>
      BY <2>1 DEF ChoiceFails, ChoiceIsEmpty, HandlerStops, NoticeGone, BreakStream, ReceiveStatus,
                  PostFails, Drain, ReceiveEnd, Leave, Close, vars
    <3>2. Produced' = Produced
      BY <3>1 DEF Produced, Queued
    <3> QED BY <2>a, <3>1, <3>2
  <2>2. CASE Send \/ ReceiveLine
    <3>1. Produced' = Produced /\ chunks' = chunks
      BY <2>2, SendStays, ReceiveLineStays DEF Send, ReceiveLine
    <3> QED BY <2>a, <3>1
  <2>3. CASE Take
    <3>1. chunks' = chunks
      BY <2>3 DEF Take
    <3> QED BY <2>0, <2>3, <2>a, <3>1, TakeStays, NullIsWritten, CountStays
  <2>4. CASE Connect \/ CheckContext \/ CallFails \/ ReceiveBadLine
    <3>1. pending = <<>> /\ UNCHANGED <<received, lines, channel, chunks>>
          /\ pending' \in {<<>>, <<"error">>}
      BY <2>4 DEF Connect, CheckContext, CallFails, ReceiveBadLine, At, Finish
    <3>2. CASE pending' = <<>>
      <4>1. Produced' = Produced
        BY <3>1, <3>2 DEF Produced, Queued
      <4> QED BY <2>a, <3>1, <4>1
    <3>3. CASE pending' = <<"error">>
      <4>1. Produced' = Produced \o <<"error">>
        BY <3>1, <3>3, Kinds, PendingIsProduced
      <4> QED BY <2>0, <3>1, <4>1, CountStays
    <3> QED BY <3>1, <3>2, <3>3
  <2>5. CASE ReceiveStop
    <3>1. pending = <<>> /\ pending' = <<"done">> /\ UNCHANGED <<received, lines, channel, chunks>>
      BY <2>5 DEF ReceiveStop, At, Finish
    <3>2. Produced' = Produced \o <<"done">>
      BY <3>1, Kinds, PendingIsProduced
    <3> QED BY <2>0, <3>1, <3>2, CountStays
  <2>6. CASE ReceiveText
    <3>1. pending = <<>> /\ pending' = <<"text">> /\ UNCHANGED <<received, lines, channel>>
          /\ chunks' = chunks + 1
      BY <2>6 DEF ReceiveText, At
    <3>2. Produced' = Produced \o <<"text">> /\ "text" \in Line
      BY <3>1, Kinds, PendingIsProduced DEF Kind, Line
    <3>3. TextCount(Produced \o <<"text">>) = TextCount(Produced) + 1 /\ TextCount(Produced) \in Nat
      BY <2>0, <3>2, CountLast, TextsAreFinite
    <3>4. TextCount(Produced) <= chunks /\ chunks \in Nat
      BY ConstantsAssumption DEF TextInv, TypeOK
    <3>5. TextCount(Produced') <= chunks'
      BY <3>1, <3>2, <3>3, <3>4
    <3> QED BY <3>5 DEF TextCount
  <2>7. CASE StartGoroutine
    <3>1. Produced = <<>> /\ UNCHANGED <<received, lines, channel, chunks>> /\ chunks = 0
      BY <2>7 DEF StartGoroutine, EndInv, GoingProducesBody
    <3>2. pending = <<>> /\ pending' \in {<<>>, <<"usage">>}
      <4>1. lines \o Queued = <<>>
        BY <3>1, ProducedTypes, EmptyParts DEF Produced
      <4>2. Queued = <<>>
        BY <4>1, ProducedTypes, EmptyParts
      <4>3. pending = <<>>
        BY <4>2, ProducedTypes, EmptyParts DEF Queued
      <4> QED BY <2>7, <4>3 DEF StartGoroutine
    <3>3. CASE pending' = <<>>
      <4>1. Produced' = Produced
        BY <3>1, <3>2, <3>3 DEF Produced, Queued
      <4> QED BY <2>a, <3>1, <4>1
    <3>4. CASE pending' = <<"usage">>
      <4>1. Produced' = Produced \o <<"usage">>
        BY <3>1, <3>2, <3>4, Kinds, PendingIsProduced
      <4> QED BY <2>0, <3>1, <4>1, CountStays
    <3> QED BY <3>2, <3>3, <3>4
  <2>8. CASE CallSearch
    <3>1. pending = <<>> /\ pending' = <<"keywords", "references">>
          /\ UNCHANGED <<received, lines, channel, chunks>>
      BY <2>8 DEF CallSearch, At
    <3>2. Produced' = Produced \o <<"keywords", "references">>
      BY <3>1, Kinds, PendingIsProduced
    <3> DEFINE middle == Produced \o <<"keywords">>
    <3>3. Produced \o <<"keywords", "references">> = middle \o <<"references">>
          /\ middle \in Seq(Line)
      BY <2>0
    <3>4. TextCount(middle) = TextCount(Produced) /\ TextCount(middle \o <<"references">>) = TextCount(middle)
      <4>1. "keywords" \in Line /\ "references" \in Line
        BY <2>0
      <4>2. TextCount(middle) = TextCount(Produced)
        BY <2>0, <4>1, CountLast
      <4> HIDE DEF middle
      <4> QED BY <3>3, <4>1, <4>2, CountLast
    <3> HIDE DEF middle
    <3> QED BY <3>1, <3>2, <3>3, <3>4 DEF TextInv
  <2>9. CASE Terminate
    <3>1. pending' = <<>> /\ channel' = <<>> /\ UNCHANGED <<received, lines, chunks>>
      BY <2>9 DEF Terminate
    <3> DEFINE w == received \o lines
    <3>2. /\ received \in Seq(Line) /\ lines \in Seq(Line) /\ Queued \in Seq(Line)
      BY ProducedTypes
    <3>3. Queued' = <<>>
      BY <3>1 DEF Queued
    <3>4. Produced' = w /\ w \in Seq(Line) /\ Produced = w \o Queued
      BY <3>1, <3>2, <3>3 DEF Produced
    <3> HIDE DEF w
    <3>5. TextCount(w) <= TextCount(Produced) /\ TextCount(w) \in Nat /\ TextCount(Produced) \in Nat
      BY <2>0, <3>2, <3>4, CountPrefix, TextsAreFinite
    <3>6. TextCount(Produced) <= chunks /\ chunks \in Nat
      BY ConstantsAssumption DEF TextInv, TypeOK
    <3>7. TextCount(w) <= chunks
      BY <3>5, <3>6
    <3> QED BY <3>1, <3>4, <3>7
  <2> QED BY <2>1, <2>2, <2>3, <2>4, <2>5, <2>6, <2>7, <2>8, <2>9
          DEF Next, Handler, Engine, Receive, Relay
<1> QED BY <1>1, <1>2 DEF TextInv

LEMMA TextInvariant == Spec => [](IInv /\ TextInv)
<1>1. Init => TextInv
  <2> SUFFICES ASSUME Init PROVE TextInv
    OBVIOUS
  <2>1. Produced = <<>> /\ chunks = 0 /\ ~stopped
    BY DEF Init, Produced, Queued
  <2>2. {i \in DOMAIN Produced : Produced[i] = "text"} = {}
    BY <2>1
  <2> QED BY <2>1, <2>2, FS_EmptySet DEF TextInv, TextCount
<1>2. IInv /\ TextInv /\ [Next]_vars => TextInv'
  BY NextTexts DEF IInv
<1> QED BY <1>1, <1>2, InductiveInvariant, PTL DEF Spec
---------------------------------------------------------------------------
(* The refinement: the steps.                                              *)

SourceNow == IF stopped THEN "complete"
             ELSE IF engine \in {"closing", "exited"} THEN "failed" ELSE "open"

EndNow == CASE relay = "complete" -> "complete"
            [] relay = "failed"   -> "error"
            [] relay = "left"     -> "left"
            [] OTHER              -> "none"

\* The substitution of Promised, spelt out.
LEMMA PromisedSteps ==
  /\ Promised!Init <=> /\ chunks = 0 /\ TextCount(received) = 0
                       /\ SourceNow = "open" /\ EndNow = "none"
  /\ Promised!Receive <=> /\ SourceNow = "open" /\ chunks' = chunks + 1
                          /\ TextCount(received)' = TextCount(received)
                          /\ SourceNow' = SourceNow /\ EndNow' = EndNow
  /\ Promised!SourceEnds <=> /\ SourceNow = "open" /\ SourceNow' \in {"complete", "failed"}
                             /\ chunks' = chunks
                             /\ TextCount(received)' = TextCount(received)
                             /\ EndNow' = EndNow
  /\ Promised!Deliver <=> /\ EndNow = "none" /\ TextCount(received) < chunks
                          /\ TextCount(received)' = TextCount(received) + 1
                          /\ chunks' = chunks /\ SourceNow' = SourceNow /\ EndNow' = EndNow
  /\ Promised!Complete <=> /\ SourceNow = "complete" /\ TextCount(received) = chunks
                           /\ EndNow' = "complete"
  /\ Promised!Fail <=> EndNow' = "error"
  /\ Promised!Leave <=> EndNow' = "left"
  /\ Promised!End <=> /\ EndNow = "none"
                      /\ Promised!Complete \/ Promised!Fail \/ Promised!Leave
                      /\ chunks' = chunks /\ TextCount(received)' = TextCount(received)
                      /\ SourceNow' = SourceNow
BY DEF Promised!Init, Promised!Receive, Promised!SourceEnds, Promised!Deliver, Promised!Complete,
       Promised!Fail, Promised!Leave, Promised!End, Promised!Whole, TextCount, SourceNow, EndNow

LEMMA Stutter ==
  ASSUME chunks' = chunks, received' = received, SourceNow' = SourceNow, EndNow' = EndNow
  PROVE  [Promised!Next]_(Promised!vars)
<1>1. /\ Promised!vars = <<chunks, TextCount(received), SourceNow, EndNow>>
      /\ Promised!vars' = <<chunks, TextCount(received), SourceNow, EndNow>>'
  BY DEF Promised!vars, TextCount, SourceNow, EndNow
<1>2. TextCount(received)' = TextCount(received)
  BY DEF TextCount
<1> QED BY <1>1, <1>2

\* Steps between the LLM and the relay: the source goes on, or it ends.
LEMMA BetweenSimulation ==
  ASSUME UNCHANGED <<chunks, received, relay>>,
         \/ UNCHANGED stopped /\ (engine' \in {"closing", "exited"} <=> engine \in {"closing", "exited"})
         \/ SourceNow' # "open"
            /\ (stopped => stopped') /\ (engine \notin {"closing", "exited"} \/ stopped' = stopped)
            /\ (engine \in {"closing", "exited"} => engine' \in {"closing", "exited"})
  PROVE  [Promised!Next]_(Promised!vars)
<1>1. EndNow' = EndNow
  BY DEF EndNow
<1>2. TextCount(received)' = TextCount(received)
  BY DEF TextCount
<1>3. CASE SourceNow' = SourceNow
  BY <1>1, <1>3, Stutter
<1>4. CASE SourceNow' # SourceNow
  <2>1. SourceNow = "open" /\ SourceNow' \in {"complete", "failed"}
    BY <1>4 DEF SourceNow
  <2> QED BY <1>1, <1>2, <2>1, PromisedSteps DEF Promised!Next
<1> QED BY <1>3, <1>4

\* The relay delivers the text that it receives, and ends as it says; the other lines
\* are a stutter.
LEMMA ReceiveLineSimulation ==
  ASSUME IInv, TextInv, IInv', TextInv', ReceiveLine
  PROVE  [Promised!Next]_(Promised!vars)
<1> DEFINE h == Head(lines)
<1>1. /\ relay = "receiving" /\ lines # <<>> /\ received' = Append(received, h)
      /\ lines' = Tail(lines)
      /\ relay' = CASE h = "error" -> "failed" [] h = "done" -> "complete" [] OTHER -> "receiving"
      /\ UNCHANGED <<chunks, stopped, engine>>
  BY DEF ReceiveLine, engineVars, llmVars
<1>2. received \in Seq(Line) /\ h \in Line /\ TextCount(received) \in Nat /\ chunks \in Nat
  <2>1. received \in Seq(Line) /\ lines \in Seq(Line) /\ lines # <<>>
    BY <1>1 DEF IInv, TypeOK
  <2>2. h \in Line
    BY <2>1, HeadIsFirst
  <2>3. chunks \in Nat
    BY ConstantsAssumption DEF IInv, TypeOK
  <2> QED BY <2>1, <2>2, <2>3, TextsAreFinite
<1> HIDE DEF h
<1>3. TextCount(received)' = IF h = "text" THEN TextCount(received) + 1 ELSE TextCount(received)
  <2>1. received' = received \o <<h>>
    BY <1>1, <1>2
  <2>2. TextCount(received)' = TextCount(received')
    BY DEF TextCount
  <2>3. TextCount(received \o <<h>>) = IF h = "text" THEN TextCount(received) + 1
                                       ELSE TextCount(received)
    BY <1>2, CountLast
  <2> QED BY <2>1, <2>2, <2>3
<1>4. SourceNow' = SourceNow /\ EndNow = "none"
  BY <1>1 DEF SourceNow, EndNow
<1>5. CASE h = "error"
  <2>1. EndNow' = "error" /\ TextCount(received)' = TextCount(received)
    BY <1>1, <1>3, <1>5 DEF EndNow
  <2> QED BY <1>1, <1>4, <2>1, PromisedSteps DEF Promised!Next
<1>6. CASE h = "done"
  <2>1. relay' = "complete" /\ EndNow' = "complete" /\ TextCount(received)' = TextCount(received)
    BY <1>1, <1>3, <1>6 DEF EndNow
  <2>2. (IInv /\ relay = "complete" => stopped /\ received = WholeAnswer)'
    BY CompleteIsWhole, PTL
  <2>3. stopped' /\ received' = WholeAnswer'
    BY <2>1, <2>2
  <2>4. TextCount(WholeAnswer) = chunks
    BY CountWhole DEF IInv
  <2>5. WholeAnswer' = WholeAnswer
    BY DEF ReceiveLine, engineVars, llmVars, WholeAnswer
  <2>6. TextCount(received)' = chunks
    <3>1. TextCount(received)' = TextCount(received')
      BY DEF TextCount
    <3> QED BY <2>3, <2>4, <2>5, <3>1
  <2>7. SourceNow = "complete" /\ TextCount(received) = chunks
    BY <1>1, <2>1, <2>3, <2>6 DEF SourceNow
  <2> QED BY <1>1, <1>4, <2>1, <2>7, PromisedSteps DEF Promised!Next
<1>7. CASE h = "text"
  <2>1. EndNow' = "none"
    BY <1>1, <1>7 DEF EndNow
  <2>2. TextCount(received) < chunks
    <3> DEFINE rest == Tail(lines) \o Queued
               more == received \o <<h>>
    <3>1. more \in Seq(Line) /\ rest \in Seq(Line) /\ Produced = more \o rest
      <4>1. /\ received \in Seq(Line) /\ lines \in Seq(Line) /\ Queued \in Seq(Line)
            /\ lines # <<>>
        BY <1>1, ProducedTypes DEF IInv
      <4>2. Append(received, Head(lines)) \o (Tail(lines) \o Queued) = received \o (lines \o Queued)
        BY <4>1, AppendOver
      <4>3. more = Append(received, h) /\ more \in Seq(Line)
        BY <1>2
      <4>4. Tail(lines) \in Seq(Line)
        BY <4>1, HeadIsFirst
      <4>5. rest \in Seq(Line)
        BY <4>1, <4>4, EmptyParts
      <4> QED BY <4>2, <4>3, <4>5 DEF Produced, h
    <3> HIDE DEF rest
    <3>2. TextCount(more) = TextCount(received) + 1
      BY <1>2, <1>7, CountLast
    <3> HIDE DEF more
    <3>3. TextCount(more) <= TextCount(Produced) /\ TextCount(Produced) \in Nat
      BY <3>1, CountPrefix, ProducedTypes, TextsAreFinite DEF IInv
    <3>4. TextCount(Produced) <= chunks
      BY DEF TextInv
    <3> QED BY <1>2, <3>2, <3>3, <3>4
  <2> QED BY <1>1, <1>3, <1>4, <1>7, <2>1, <2>2, PromisedSteps DEF Promised!Next
<1>8. CASE h \notin {"error", "done", "text"}
  <2>1. EndNow' = EndNow /\ TextCount(received)' = TextCount(received)
    BY <1>1, <1>3, <1>8 DEF EndNow
  <2>2. <<chunks, TextCount(received), SourceNow, EndNow>>' =
        <<chunks, TextCount(received), SourceNow, EndNow>>
    BY <1>1, <1>4, <2>1
  <2>3. /\ Promised!vars = <<chunks, TextCount(received), SourceNow, EndNow>>
        /\ Promised!vars' = <<chunks, TextCount(received), SourceNow, EndNow>>'
    BY DEF Promised!vars, TextCount, SourceNow, EndNow
  <2> QED BY <2>2, <2>3
<1> QED BY <1>5, <1>6, <1>7, <1>8

\* The two programs together implement AnswerStream, but for errors that overtake text:
\* no text is counted before it was streamed, lost or repeated, and what the backend
\* takes for complete is what the LLM completed, with all of its text.
THEOREM ImplementsAnswerStream == Spec => DeliversAnswerStream
<1>1. Init => Promised!Init
  <2> SUFFICES ASSUME Init
               PROVE  /\ chunks = 0 /\ TextCount(received) = 0
                      /\ SourceNow = "open" /\ EndNow = "none"
    BY PromisedSteps
  <2>1. /\ chunks = 0 /\ received = <<>> /\ ~stopped /\ engine = "idle" /\ relay = "posting"
    BY DEF Init
  <2>2. {i \in DOMAIN received : received[i] = "text"} = {}
    BY <2>1
  <2> QED BY <2>1, <2>2, FS_EmptySet DEF TextCount, SourceNow, EndNow
<1>2. IInv /\ TextInv /\ IInv' /\ TextInv' /\ [Next]_vars => [Promised!Next]_(Promised!vars)
  <2> SUFFICES ASSUME IInv, TextInv, IInv', TextInv', [Next]_vars
               PROVE  [Promised!Next]_(Promised!vars)
    OBVIOUS
  <2> USE DEF relayVars, responseVars, engineVars, llmVars, channelVars
  <2>1. CASE ChoiceFails \/ ChoiceIsEmpty \/ Take \/ HandlerStops \/ NoticeGone \/ Send
             \/ CallSearch \/ Close \/ BreakStream \/ UNCHANGED vars
    <3>1. UNCHANGED <<chunks, received, relay, stopped>>
          /\ (engine' \in {"closing", "exited"} <=> engine \in {"closing", "exited"})
      BY <2>1 DEF ChoiceFails, ChoiceIsEmpty, Take, HandlerStops, NoticeGone, Send, CallSearch,
                  Close, BreakStream, vars, At
    <3> QED BY <3>1, BetweenSimulation
  <2>2. CASE StartGoroutine
    <3>1. UNCHANGED <<chunks, received, relay, stopped>> /\ engine = "idle"
          /\ engine' \in {"calling", "connecting"}
      BY <2>2 DEF StartGoroutine, IInv, EndInv, GoingProducesBody
    <3> QED BY <3>1, BetweenSimulation
  <2>3. CASE CallFails \/ Connect \/ CheckContext \/ ReceiveBadLine \/ Terminate
    <3>1. UNCHANGED <<chunks, received, relay, stopped>>
          /\ \/ engine' \in {"closing", "exited"}
             \/ engine \notin {"closing", "exited"} /\ engine' \notin {"closing", "exited"}
      BY <2>3 DEF CallFails, Connect, CheckContext, ReceiveBadLine, Terminate, Finish, At
    <3>2. engine' \in {"closing", "exited"} => SourceNow' # "open"
      BY DEF SourceNow
    <3> QED BY <3>1, <3>2, BetweenSimulation
  <2>4. CASE ReceiveStop
    <3>1. UNCHANGED <<chunks, received, relay>> /\ stopped' /\ engine = "receiving"
          /\ engine' \in {"closing", "exited"}
      BY <2>4 DEF ReceiveStop, Finish, At
    <3>2. SourceNow' # "open"
      BY <3>1 DEF SourceNow
    <3> QED BY <3>1, <3>2, BetweenSimulation
  <2>5. CASE ReceiveText
    <3>1. UNCHANGED <<received, relay, stopped>> /\ chunks' = chunks + 1 /\ engine = "receiving"
          /\ engine' = "looping"
      BY <2>5 DEF ReceiveText, At
    <3>2. ~stopped
      BY <3>1 DEF TextInv, Going
    <3>3. SourceNow = "open" /\ SourceNow' = "open" /\ EndNow' = EndNow
          /\ TextCount(received)' = TextCount(received)
      BY <3>1, <3>2 DEF SourceNow, EndNow, TextCount
    <3> QED BY <3>1, <3>3, PromisedSteps DEF Promised!Next
  <2>6. CASE ReceiveStatus
    <3>1. UNCHANGED <<chunks, received, stopped, engine>> /\ relay = "posting"
          /\ relay' \in {"draining", "receiving"}
      BY <2>6 DEF ReceiveStatus
    <3>2. SourceNow' = SourceNow /\ EndNow' = EndNow
      BY <3>1 DEF SourceNow, EndNow
    <3> QED BY <3>1, <3>2, Stutter
  <2>7. CASE PostFails \/ Drain \/ ReceiveEnd \/ Leave
    <3>1. UNCHANGED <<chunks, received, stopped, engine>>
          /\ relay \in {"posting", "draining", "receiving"} /\ relay' \in {"failed", "left"}
      BY <2>7 DEF PostFails, Drain, ReceiveEnd, Leave, Gone, IInv, TypeOK
    <3>2. SourceNow' = SourceNow /\ EndNow = "none" /\ EndNow' \in {"error", "left"}
          /\ TextCount(received)' = TextCount(received)
      BY <3>1 DEF SourceNow, EndNow, TextCount
    <3> QED BY <3>1, <3>2, PromisedSteps DEF Promised!Next
  <2> QED BY <2>1, <2>2, <2>3, <2>4, <2>5, <2>6, <2>7, ReceiveLineSimulation
          DEF Next, Handler, Engine, Receive, Relay
<1> QED BY <1>1, <1>2, TextInvariant, PTL DEF Spec, DeliversAnswerStream, Promised!Spec
=============================================================================
