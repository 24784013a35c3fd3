----------------------- MODULE CompletionRelay_proofs -----------------------
(***************************************************************************)
(* Proofs about CompletionRelay, for every set of chunks, every capacity   *)
(* and number of chunks, and every kind of request: its types and bounds,  *)
(* that it implements AnswerStream, and that the events have what was      *)
(* received.                                                               *)
(*                                                                         *)
(* Nothing the handler sees says that text is in order. The invariant      *)
(* numbers the results as they are produced, from those written to the     *)
(* client to what the goroutine has to send: each is what its number says  *)
(* (InOrder), and there are as many as were received (AllCounted). EInv is *)
(* about the events: the greatest version given to a column is that of its *)
(* last event.                                                             *)
(***************************************************************************)
EXTENDS CompletionRelay, FiniteSetTheorems, TLAPS

\* Results in the order in which they were produced: those written to the client, the
\* one in the handler's hands, the channel and what the goroutine has to send.
Sent  == channel \o pending
Taken == Len(output) + (IF taken = None THEN 0 ELSE 1)
Total == Taken + Len(Sent)

\* The chunks come behind the references to a file.
Before(asked) == IF asked.file THEN 1 ELSE 0

Offset == Before(request)

\* The goroutine produces nothing any more.
Over == relay \in {"closing", "exited"}

\* What may come behind the chunks, and how much of it.
EndAt(j, asked) ==
  IF asked.question = "oneWord"
  THEN IF j = 1 THEN {"canned"} ELSE IF j = 2 THEN {"done"} ELSE {}
  ELSE IF j = 1 THEN {"error"} ELSE {}

EndCount == IF request.question = "oneWord" THEN 2 ELSE IF complete THEN 0 ELSE 1

\* Whether the result is the k-th that is produced when there are n chunks.
IsAt(result, k, asked, n) ==
  \/ k <= Before(asked) /\ result.kind = "fileReferences" /\ result.n = 0
  \/ /\ k \in Before(asked) + 1 .. Before(asked) + n
     /\ result.kind = "chunk" /\ result.n = k - Before(asked)
  \/ k > Before(asked) + n /\ result.kind \in EndAt(k - Before(asked) - n, asked) /\ result.n = 0

InOrder ==
  /\ \A i \in DOMAIN output : IsAt(output[i], i, request, Len(received))
  /\ taken # None => IsAt(taken, Taken, request, Len(received))
  /\ \A i \in DOMAIN Sent : IsAt(Sent[i], Taken + i, request, Len(received))

\* How much was produced.
AllCounted ==
  /\ relay = "idle" => Total = 0
  /\ relay # "idle" /\ ~Over => Total = Offset + Len(received)
  /\ Over => Total = Offset + Len(received) + EndCount

\* Only a stream of the engine gives chunks.
StreamOnly ==
  /\ relay \in {"connecting", "looping", "receiving", "recording"} => request.question = "words"
  /\ relay \in {"idle", "started", "connecting"} => received = <<>>
  /\ received # <<>> => request.question = "words"
  /\ complete => Over /\ request.question = "words"

\* The goroutine starts with the handler; what an error or Done is taken for ends it.
HandlerIsAhead ==
  /\ handler = "creating" => relay = "idle" /\ ~ctxDone /\ output = <<>>
  /\ handler = "relaying" => relay # "idle" /\ (ctxDone => left)
  /\ handler = "relaying" => \A i \in DOMAIN output : output[i].kind \notin {"error", "done"}
  /\ handler # "relaying" => taken = None
  /\ taken # None => taken.kind \notin {"error", "done"}
  /\ closed => relay = "exited"
  /\ relay \in {"idle", "exited"} => pending = <<>>

Bounded ==
  /\ Len(received) <= MaxChunks
  /\ Len(channel) <= Capacity
  /\ Len(pending) <= 1 \/ (received = <<>> /\ Len(pending) <= 2)
  /\ tokenCount + (IF relay = "recording" THEN 1 ELSE 0) <= Len(received)
  /\ relay = "recording" => received # <<>>

TakenIsBounded == taken # None /\ taken.n # 0 => taken.upTo - taken.n <= Capacity + 1

IInv ==
  /\ TypeOK /\ Bounded /\ StreamOnly /\ HandlerIsAhead /\ AllCounted /\ InOrder
  /\ TakenIsBounded /\ RepeatedTextIsBounded

---------------------------------------------------------------------------
(* Types.                                                                  *)

LEMMA Single == ASSUME NEW S, NEW e \in S PROVE <<e>> \in Seq(S)
OBVIOUS

\* The results that the goroutine sends.
LEMMA Results ==
  /\ <<>> \in Seq(Result)
  /\ \A kind \in Kind \ {"chunk"} : <<Message(kind)>> \in Seq(Result)
  /\ <<Message("canned"), Message("done")>> \in Seq(Result)
  /\ \A n \in 1 .. MaxChunks : <<[kind |-> "chunk", n |-> n]>> \in Seq(Result)
<1>1. \A kind \in Kind : Message(kind) \in Result
  BY ConstantsAssumption DEF Message, Result
<1>2. "canned" \in Kind /\ "done" \in Kind /\ "chunk" \in Kind
  BY DEF Kind
<1>3. \A n \in 1 .. MaxChunks : [kind |-> "chunk", n |-> n] \in Result
  BY <1>2, ConstantsAssumption DEF Result
<1>4. <<Message("canned"), Message("done")>> \in Seq(Result)
  BY <1>1, <1>2
<1> QED BY <1>1, <1>3, <1>4

\* How many of the chunks carried a part.
LEMMA CountTypes ==
  ASSUME NEW part, NEW chunks \in Seq(Chunk)
  PROVE  Count(part, chunks) \in Nat /\ Count(part, chunks) <= Len(chunks)
<1> DEFINE places == {i \in DOMAIN chunks : part \in chunks[i]}
<1>1. DOMAIN chunks = 1 .. Len(chunks) /\ Len(chunks) \in Nat
  OBVIOUS
<1>2. IsFiniteSet(1 .. Len(chunks)) /\ Cardinality(1 .. Len(chunks)) = Len(chunks)
  BY <1>1, FS_Interval
<1>3. places \subseteq 1 .. Len(chunks)
  BY <1>1
<1>4. IsFiniteSet(places) /\ Cardinality(places) <= Len(chunks)
  BY <1>2, <1>3, FS_Subset
<1>5. Cardinality(places) \in Nat
  BY <1>4, FS_CardinalityType
<1> QED BY <1>4, <1>5 DEF Count

LEMMA CountAppend ==
  ASSUME NEW part, NEW chunks \in Seq(Chunk), NEW chunk \in Chunk
  PROVE  Count(part, Append(chunks, chunk))
           = Count(part, chunks) + (IF part \in chunk THEN 1 ELSE 0)
<1> DEFINE longer == Append(chunks, chunk)
           n      == Len(chunks)
           before == {i \in DOMAIN chunks : part \in chunks[i]}
           after  == {i \in DOMAIN longer : part \in longer[i]}
<1>1. n \in Nat /\ DOMAIN chunks = 1 .. n /\ DOMAIN longer = 1 .. n + 1 /\ longer[n + 1] = chunk
      /\ \A i \in 1 .. n : longer[i] = chunks[i]
  OBVIOUS
<1> HIDE DEF longer, n
<1>2. IsFiniteSet(before) /\ n + 1 \notin before
  <2>1. IsFiniteSet(1 .. n) /\ before \subseteq 1 .. n
    BY <1>1, FS_Interval
  <2> QED BY <1>1, <2>1, FS_Subset
<1>3. CASE part \in chunk
  <2>1. after = before \union {n + 1}
    BY <1>1, <1>3
  <2>2. Cardinality(after) = Cardinality(before) + 1
    BY <1>2, <2>1, FS_AddElement
  <2> QED BY <1>3, <2>2 DEF Count, longer
<1>4. CASE part \notin chunk
  <2>1. after = before
    BY <1>1, <1>4
  <2>2. Cardinality(before) \in Nat
    BY <1>2, FS_CardinalityType
  <2>3. Count(part, chunks) \in Nat /\ Count(part, longer) = Count(part, chunks)
    BY <2>1, <2>2 DEF Count
  <2> QED BY <1>4, <2>3 DEF longer
<1> QED BY <1>3, <1>4

LEMMA EventTypes ==
  ASSUME TypeOK, NEW tokens \in Nat, NEW accepted
  PROVE  ChunkEvents(tokens, accepted) \in Seq(Event)
<1>1. \A part : Merged(part) \in Nat
  BY CountTypes DEF Merged, TypeOK
<1>2. \A column \in ChunkColumn, value \in Nat : EventOf(column, value, accepted) \in Seq(Event)
  <2>1. \A column \in ChunkColumn, value \in Nat : [column |-> column, value |-> value] \in Event
    BY DEF Event
  <2>2. \A column \in ChunkColumn, value \in Nat :
          <<[column |-> column, value |-> value]>> \in Seq(Event)
    BY <2>1, Single
  <2>3. <<>> \in Seq(Event)
    OBVIOUS
  <2> QED BY <2>2, <2>3 DEF EventOf
<1>3. /\ "TokenCount" \in ChunkColumn /\ "Answer" \in ChunkColumn /\ "References" \in ChunkColumn
      /\ "Keywords" \in ChunkColumn /\ "RelatedQueries" \in ChunkColumn
      /\ "FileReferences" \in ChunkColumn
  BY DEF ChunkColumn, Part
<1>4. \A part \in Part : EventOf(part, Merged(part), accepted) \in Seq(Event)
  BY <1>1, <1>2 DEF ChunkColumn
<1>5. /\ EventOf("TokenCount", tokens, accepted) \in Seq(Event)
      /\ EventOf("FileReferences", 1, accepted) \in Seq(Event)
  BY <1>2, <1>3
<1>6. /\ EventOf("Answer", Merged("Answer"), accepted) \in Seq(Event)
      /\ EventOf("References", Merged("References"), accepted) \in Seq(Event)
      /\ EventOf("Keywords", Merged("Keywords"), accepted) \in Seq(Event)
      /\ EventOf("RelatedQueries", Merged("RelatedQueries"), accepted) \in Seq(Event)
  BY <1>4 DEF Part
<1> QED BY <1>5, <1>6 DEF ChunkEvents

\* What is shown of a result is one of the chunks received.
LEMMA ShownTypes ==
  ASSUME TypeOK, Bounded, NEW result \in Result
  PROVE  /\ Shown(result) \in Shows
         /\ Shown(result).kind = result.kind /\ Shown(result).n = result.n
         /\ Shown(result).upTo = IF result.n = 1 THEN Len(received) ELSE result.n
<1>1. result.kind \in Kind /\ result.n \in 0 .. MaxChunks
  BY DEF Result
<1>2. Len(received) \in 0 .. MaxChunks
  BY ConstantsAssumption DEF TypeOK, Bounded
<1> QED BY <1>1, <1>2 DEF Shown, Shows

LEMMA InitTypes == Init => TypeOK
<1> SUFFICES ASSUME Init PROVE TypeOK
  OBVIOUS
<1>1. /\ output = <<>> /\ pending = <<>> /\ channel = <<>> /\ received = <<>> /\ events = <<>>
      /\ tokenCount = 0 /\ refused = {}
  BY DEF Init
<1>2. /\ output \in Seq(Shows) /\ pending \in Seq(Result) /\ channel \in Seq(Result)
      /\ received \in Seq(Chunk) /\ events \in Seq(Event)
  BY <1>1
<1>3. tokenCount \in 0 .. MaxChunks
  BY <1>1, ConstantsAssumption
<1> QED BY <1>1, <1>2, <1>3 DEF Init, TypeOK

LEMMA HandlerTypes == TypeOK /\ Bounded /\ (Handler \/ ClientLeaves) => TypeOK'
<1> SUFFICES ASSUME TypeOK, Bounded PROVE Handler \/ ClientLeaves => TypeOK'
  OBVIOUS
<1> USE DEF TypeOK, handlerVars, relayVars
<1>1. CreateCompletion => TypeOK'
  <2> SUFFICES ASSUME CreateCompletion PROVE TypeOK'
    OBVIOUS
  <2>1. pending' \in Seq(Result)
    BY Results DEF CreateCompletion, Kind
  <2>2. events' \in Seq(Event)
    <3>1. [column |-> "Question", value |-> 1] \in Event
      BY DEF Event
    <3>2. <<[column |-> "Question", value |-> 1]>> \in Seq(Event)
      BY <3>1, Single
    <3> QED BY <3>2 DEF CreateCompletion
  <2> QED BY <2>1, <2>2 DEF CreateCompletion
<1>2. CreateFails \/ ChannelClosed \/ ContextDone \/ ClientLeaves => TypeOK'
  BY DEF CreateFails, ChannelClosed, ContextDone, ClientLeaves, Return
<1>3. Take => TypeOK'
  <2> SUFFICES ASSUME Take PROVE TypeOK'
    OBVIOUS
  <2>1. Head(channel) \in Result /\ channel' \in Seq(Result)
    BY DEF Take
  <2>2. Shown(Head(channel)) \in Shows
    BY <2>1, ShownTypes
  <2>3. /\ output' = output \/ output' = Append(output, Shown(Head(channel)))
        /\ taken' = taken \/ taken' = Shown(Head(channel))
    BY DEF Take
  <2>4. output' \in Seq(Shows) /\ taken' \in Shows \union {None}
    <3>1. output \in Seq(Shows) /\ taken \in Shows \union {None}
      OBVIOUS
    <3>2. Append(output, Shown(Head(channel))) \in Seq(Shows)
      BY <2>2, <3>1
    <3> QED BY <2>2, <2>3, <3>1, <3>2
  <2> QED BY <2>1, <2>4 DEF Take, Return
<1>4. Write => TypeOK'
  <2> SUFFICES ASSUME Write PROVE TypeOK'
    OBVIOUS
  <2>1. taken \in Shows /\ Len(received) \in 0 .. MaxChunks
    BY ConstantsAssumption DEF Write, Bounded
  <2>2. taken.upTo \in 0 .. MaxChunks
    BY <2>1 DEF Shows
  <2>3. PICK upTo \in IF taken.n = 1 /\ taken.upTo < Len(received)
                      THEN {Torn} \union (taken.upTo .. Len(received)) ELSE {taken.upTo} :
          output' = Append(output, [taken EXCEPT !.upTo = upTo])
    BY DEF Write
  <2>4. upTo \in 0 .. MaxChunks
    BY <2>1, <2>2, ConstantsAssumption DEF Torn
  <2>5. [taken EXCEPT !.upTo = upTo] \in Shows
    BY <2>1, <2>4 DEF Shows
  <2>6. output' \in Seq(Shows)
    BY <2>3, <2>5
  <2> QED BY <2>6 DEF Write
<1> QED BY <1>1, <1>2, <1>3, <1>4 DEF Handler

LEMMA RelayTypes == TypeOK /\ Bounded /\ Relay => TypeOK'
<1> SUFFICES ASSUME TypeOK, Bounded PROVE Relay => TypeOK'
  OBVIOUS
<1> USE DEF TypeOK, handlerVars
<1>0. /\ <<ErrorResult>> \in Seq(Result) /\ <<>> \in Seq(Result)
      /\ <<Message("canned"), Message("done")>> \in Seq(Result)
  BY Results DEF ErrorResult, Kind
<1>1. Send => TypeOK'
  BY DEF Send
<1>2. Start \/ Connect \/ CheckContext \/ ReceiveDone \/ ReceiveError => TypeOK'
  BY <1>0 DEF Start, Connect, CheckContext, ReceiveDone, ReceiveError, Finish, Request
<1>3. ReceiveChunk => TypeOK'
  <2> SUFFICES ASSUME ReceiveChunk PROVE TypeOK'
    OBVIOUS
  <2>1. received' \in Seq(Chunk) /\ Len(received') = Len(received) + 1 /\ Len(received) \in Nat
        /\ Len(received) < MaxChunks
    BY DEF ReceiveChunk
  <2>2. Len(received') \in 1 .. MaxChunks
    BY <2>1, ConstantsAssumption
  <2>3. pending' \in Seq(Result)
    BY <2>2, Results DEF ReceiveChunk
  <2> QED BY <2>1, <2>3 DEF ReceiveChunk
<1>4. Record => TypeOK'
  <2> SUFFICES ASSUME Record PROVE TypeOK'
    OBVIOUS
  <2>1. tokenCount' \in 0 .. MaxChunks
    <3>1. Usage \in {0, 1} /\ tokenCount' = tokenCount + Usage
      BY DEF Record, Usage
    <3>2. tokenCount + 1 <= Len(received) /\ Len(received) <= MaxChunks /\ Len(received) \in Nat
      BY DEF Bounded, Record, At
    <3> QED BY <3>1, <3>2, ConstantsAssumption
  <2>2. events' \in Seq(Event)
    <3>1. PICK accepted : events' = events \o ChunkEvents(tokenCount', accepted)
      BY DEF Record, WriteEvents
    <3>2. ChunkEvents(tokenCount', accepted) \in Seq(Event)
      BY <2>1, EventTypes, ConstantsAssumption
    <3> QED BY <3>1, <3>2
  <2>3. refused' \subseteq ChunkColumn
    <3>1. StoredColumns \subseteq ChunkColumn
      BY DEF StoredColumns, ChunkColumn, Part
    <3>2. Due \subseteq ChunkColumn
      BY <3>1 DEF Due
    <3>3. PICK accepted : refused' = (refused \ accepted) \union (Due \ accepted)
      BY DEF Record, WriteEvents
    <3> QED BY <3>2, <3>3
  <2> QED BY <2>1, <2>2, <2>3 DEF Record
<1>5. Close => TypeOK'
  BY DEF Close
<1> QED BY <1>1, <1>2, <1>3, <1>4, <1>5 DEF Relay

LEMMA NextTypes == TypeOK /\ Bounded /\ [Next]_vars => TypeOK'
<1>1. TypeOK /\ UNCHANGED vars => TypeOK'
  BY DEF TypeOK, vars, handlerVars, relayVars
<1> QED BY <1>1, HandlerTypes, RelayTypes DEF Next
---------------------------------------------------------------------------
(* The order of results.                                                   *)

LEMMA SentTypes ==
  ASSUME TypeOK
  PROVE  /\ channel \in Seq(Result) /\ pending \in Seq(Result) /\ Sent \in Seq(Result)
         /\ Len(Sent) = Len(channel) + Len(pending) /\ DOMAIN Sent = 1 .. Len(Sent)
         /\ Len(Sent) \in Nat /\ Len(channel) \in Nat /\ Len(pending) \in Nat
<1>1. channel \in Seq(Result) /\ pending \in Seq(Result)
  BY DEF TypeOK
<1> QED BY <1>1 DEF Sent

LEMMA TakenTypes ==
  ASSUME TypeOK
  PROVE  /\ Len(output) \in Nat /\ DOMAIN output = 1 .. Len(output) /\ Taken \in Nat
         /\ Len(output) <= Taken /\ Taken <= Len(output) + 1
         /\ Total \in Nat /\ Total = Taken + Len(Sent)
         /\ Offset \in {0, 1} /\ Len(received) \in Nat
<1>1. output \in Seq(Shows) /\ received \in Seq(Chunk)
  BY DEF TypeOK
<1>2. Len(output) \in Nat /\ DOMAIN output = 1 .. Len(output) /\ Len(received) \in Nat
  BY <1>1
<1>3. Taken \in Nat /\ Len(output) <= Taken /\ Taken <= Len(output) + 1
  BY <1>2 DEF Taken
<1> QED BY <1>2, <1>3, SentTypes DEF Total, Offset, Before

\* What a step of the goroutine adds at the end.
LEMMA Produces ==
  ASSUME TypeOK, InOrder, pending = <<>>, NEW x \in Seq(Result), pending' = x,
         UNCHANGED <<output, taken, channel, request>>,
         \A i \in DOMAIN x : IsAt(x[i], Total + i, request, Len(received')),
         \A result, k : k \in 1 .. Total /\ IsAt(result, k, request, Len(received))
                          => IsAt(result, k, request, Len(received'))
  PROVE  InOrder' /\ Total' = Total + Len(x)
<1>1. channel \in Seq(Result) /\ Sent = channel /\ Sent' = channel \o x
  BY SentTypes DEF Sent
<1>2. /\ Len(Sent') = Len(Sent) + Len(x) /\ Len(Sent) \in Nat /\ Len(x) \in Nat
      /\ DOMAIN (Sent') = 1 .. Len(Sent) + Len(x) /\ DOMAIN Sent = 1 .. Len(Sent)
      /\ DOMAIN x = 1 .. Len(x)
      /\ \A i \in 1 .. Len(Sent) : Sent'[i] = Sent[i]
      /\ \A i \in 1 .. Len(x) : Sent'[Len(Sent) + i] = x[i]
  BY <1>1
<1>3. Taken' = Taken /\ Taken \in Nat /\ Len(output) \in Nat /\ DOMAIN output = 1 .. Len(output)
      /\ Len(output) <= Taken /\ Total \in Nat /\ Total = Taken + Len(Sent)
      /\ (taken # None => Taken >= 1)
  BY TakenTypes DEF Taken
<1>4. Total' = Total + Len(x)
  BY <1>2, <1>3 DEF Total
<1>5. \A i \in DOMAIN output : IsAt(output'[i], i, request', Len(received'))
  BY <1>2, <1>3 DEF InOrder
<1>6. taken' # None => IsAt(taken', Taken', request', Len(received'))
  BY <1>2, <1>3 DEF InOrder
<1>7. ASSUME NEW i \in DOMAIN (Sent')
      PROVE  IsAt(Sent'[i], Taken' + i, request', Len(received'))
  <2>1. CASE i \in 1 .. Len(Sent)
    BY <1>2, <1>3, <2>1 DEF InOrder
  <2>2. CASE i \notin 1 .. Len(Sent)
    <3>1. PICK j \in 1 .. Len(x) : i = Len(Sent) + j
      <4>1. i - Len(Sent) \in 1 .. Len(x) /\ i = Len(Sent) + (i - Len(Sent))
        BY <1>2, <2>2
      <4> QED BY <4>1
    <3>2. Taken' + i = Total + j /\ Sent'[i] = x[j] /\ j \in DOMAIN x
      BY <1>2, <1>3, <3>1
    <3> QED BY <3>2
  <2> QED BY <2>1, <2>2
<1> QED BY <1>4, <1>5, <1>6, <1>7 DEF InOrder

\* A step that leaves the results alone leaves their order alone.
LEMMA OrderUnchanged ==
  ASSUME InOrder, AllCounted, UNCHANGED <<request, output, taken, channel, pending, received>>
  PROVE  InOrder' /\ Total' = Total /\ Offset' = Offset
BY DEF InOrder, AllCounted, Total, Taken, Sent, Offset

LEMMA HandlerOrder ==
  ASSUME TypeOK, Bounded, StreamOnly, HandlerIsAhead, AllCounted, InOrder, Handler \/ ClientLeaves
  PROVE  InOrder' /\ AllCounted'
<1>0. /\ channel \in Seq(Result) /\ pending \in Seq(Result) /\ Sent = channel \o pending
      /\ output \in Seq(Shows) /\ Len(output) \in Nat /\ DOMAIN output = 1 .. Len(output)
      /\ taken \in Shows \union {None}
  BY SentTypes, TakenTypes DEF TypeOK, Sent
<1>1. CASE CreateCompletion
  <2>1. relay = "idle" /\ received = <<>> /\ Total = 0 /\ Len(received) = 0
    BY <1>1 DEF CreateCompletion, HandlerIsAhead, StreamOnly, AllCounted
  <2>2. pending = <<>>
    <3>1. Len(Sent) = 0 /\ Len(Sent) = Len(channel) + Len(pending) /\ Len(channel) \in Nat
          /\ Len(pending) \in Nat
      BY <2>1, TakenTypes, SentTypes
    <3>2. Len(pending) = 0
      BY <3>1
    <3> QED BY <1>0, <3>2
  <2> DEFINE x == IF request.file THEN <<Message("fileReferences")>> ELSE <<>>
  <2>3. x \in Seq(Result) /\ Len(x) = Offset /\ DOMAIN x = 1 .. Offset
        /\ \A i \in DOMAIN x : i = 1 /\ request.file /\ x[i] = Message("fileReferences")
    <3>1. CASE request.file
      BY <3>1, Results DEF Kind, Offset, Before
    <3>2. CASE ~request.file
      BY <3>2, Results DEF Offset, Before
    <3> QED BY <3>1, <3>2
  <2>4. pending' = x /\ UNCHANGED <<output, taken, channel, request, received>> /\ relay' = "started"
    BY <1>1 DEF CreateCompletion
  <2>5. \A i \in DOMAIN x : IsAt(x[i], Total + i, request, Len(received'))
    <3> SUFFICES ASSUME NEW i \in DOMAIN x PROVE IsAt(x[i], Total + i, request, Len(received'))
      OBVIOUS
    <3>1. i = 1 /\ Before(request) = 1 /\ Total + i = 1
      BY <2>1, <2>3 DEF Before
    <3>2. x[i].kind = "fileReferences" /\ x[i].n = 0
      BY <2>3 DEF Message
    <3> HIDE DEF x
    <3> QED BY <3>1, <3>2 DEF IsAt
  <2> HIDE DEF x
  <2>6. InOrder' /\ Total' = Total + Len(x)
    BY <2>2, <2>3, <2>4, <2>5, Produces
  <2>7. Total' = Offset' + Len(received')
    <3>1. Offset' = Offset /\ Len(received') = 0 /\ Total' = Offset /\ Offset \in {0, 1}
      BY <2>1, <2>3, <2>4, <2>6, TakenTypes DEF Offset
    <3> QED BY <3>1
  <2> QED BY <2>4, <2>6, <2>7 DEF AllCounted, Over
<1>2. CASE CreateFails \/ ChannelClosed \/ ContextDone \/ ClientLeaves
  <2>1. UNCHANGED <<request, output, taken, channel, pending, received, relay, complete>>
    BY <1>2 DEF CreateFails, ChannelClosed, ContextDone, ClientLeaves, relayVars, handlerVars
  <2> QED BY <2>1, OrderUnchanged DEF AllCounted, Over, EndCount
<1>3. CASE Take
  <2> DEFINE head == Head(channel)
             shown == Shown(head)
  <2>1. /\ taken = None /\ channel # <<>> /\ channel' = Tail(channel)
        /\ UNCHANGED <<request, pending, received, relay, complete>>
    BY <1>3 DEF Take, relayVars
  <2>2. head \in Result /\ Len(Sent) \in Nat /\ Len(Sent) >= 1 /\ Sent[1] = head
        /\ Len(Sent') = Len(Sent) - 1 /\ DOMAIN (Sent') = 1 .. Len(Sent) - 1
        /\ \A i \in 1 .. Len(Sent) - 1 : Sent'[i] = Sent[i + 1]
    <3>1. Sent' = Tail(channel) \o pending
      BY <2>1 DEF Sent
    <3> QED BY <1>0, <2>1, <3>1
  <2>3. shown \in Shows /\ shown.kind = head.kind /\ shown.n = head.n
    BY <2>2, ShownTypes
  <2>4. Taken = Len(output) /\ Len(output) + 1 \in Nat
    BY <1>0, <2>1 DEF Taken
  <2>5. IsAt(head, Len(output) + 1, request, Len(received))
    <3>1. 1 \in DOMAIN Sent
      BY <2>2, SentTypes
    <3>2. IsAt(Sent[1], Taken + 1, request, Len(received))
      BY <3>1 DEF InOrder
    <3> QED BY <2>2, <2>4, <3>2
  <2>6. IsAt(shown, Len(output) + 1, request, Len(received))
    BY <2>3, <2>5 DEF IsAt
  <2> HIDE DEF shown, head
  <2>7. Taken' = Len(output) + 1 /\ (taken' # None => IsAt(taken', Len(output) + 1, request, Len(received)))
        /\ (\A i \in DOMAIN (output') : IsAt(output'[i], i, request, Len(received)))
    <3>1. CASE output' = Append(output, shown) /\ taken' = taken
      <4>1. Len(output') = Len(output) + 1 /\ DOMAIN (output') = 1 .. Len(output) + 1
            /\ output'[Len(output) + 1] = shown
            /\ \A i \in 1 .. Len(output) : output'[i] = output[i]
        BY <1>0, <2>3, <3>1
      <4> QED BY <1>0, <2>1, <2>6, <3>1, <4>1 DEF Taken, InOrder
    <3>2. CASE taken' = shown /\ output' = output
      <4>1. taken' # None
        BY <2>3, <3>2, NoneAssumption
      <4> QED BY <1>0, <2>6, <3>2, <4>1 DEF Taken, InOrder
    <3> QED BY <1>3, <3>1, <3>2 DEF Take, shown, head
  <2>8. \A i \in DOMAIN (Sent') : IsAt(Sent'[i], Taken' + i, request, Len(received))
    <3> SUFFICES ASSUME NEW i \in 1 .. Len(Sent) - 1
                 PROVE  IsAt(Sent'[i], Taken' + i, request, Len(received))
      BY <2>2
    <3>1. i + 1 \in 1 .. Len(Sent) /\ Taken' + i = Taken + (i + 1)
      BY <1>0, <2>2, <2>4, <2>7
    <3> QED BY <2>2, <3>1, SentTypes DEF InOrder
  <2>9. Total' = Total
    BY <1>0, <2>2, <2>4, <2>7 DEF Total
  <2>10. InOrder'
    BY <2>1, <2>7, <2>8 DEF InOrder
  <2> QED BY <2>1, <2>9, <2>10 DEF AllCounted, Over, EndCount, Offset
<1>4. CASE Write
  <2>1. taken # None /\ taken' = None /\ UNCHANGED <<request, channel, pending, received, relay, complete>>
    BY <1>4 DEF Write, relayVars
  <2>2. PICK upTo : output' = Append(output, [taken EXCEPT !.upTo = upTo])
    BY <1>4 DEF Write
  <2> DEFINE last == [taken EXCEPT !.upTo = upTo]
  <2>3. last.kind = taken.kind /\ last.n = taken.n
    BY <1>0, <2>1 DEF Shows
  <2>4. Taken = Len(output) + 1
    BY <2>1 DEF Taken
  <2>5. IsAt(last, Len(output) + 1, request, Len(received))
    BY <2>1, <2>3, <2>4 DEF InOrder, IsAt
  <2> HIDE DEF last
  <2>6. Len(output') = Len(output) + 1 /\ DOMAIN (output') = 1 .. Len(output) + 1
        /\ output'[Len(output) + 1] = last
        /\ \A i \in 1 .. Len(output) : output'[i] = output[i]
    BY <1>0, <2>2 DEF last
  <2>7. Taken' = Taken
    BY <1>0, <2>1, <2>4, <2>6 DEF Taken
  <2>8. Sent' = Sent
    BY <2>1 DEF Sent
  <2>9. InOrder'
    <3>1. \A i \in DOMAIN (output') : IsAt(output'[i], i, request, Len(received))
      BY <1>0, <2>5, <2>6 DEF InOrder
    <3> QED BY <2>1, <2>7, <2>8, <3>1 DEF InOrder
  <2>10. Total' = Total
    BY <2>7, <2>8 DEF Total
  <2> QED BY <2>1, <2>9, <2>10 DEF AllCounted, Over, EndCount, Offset
<1> QED BY <1>1, <1>2, <1>3, <1>4 DEF Handler

\* Which result has a place.
LEMMA Places ==
  ASSUME NEW asked \in Request, NEW n \in Nat, NEW k \in Nat, NEW result
  PROVE  /\ Before(asked) \in {0, 1}
         /\ k <= Before(asked)
              => (IsAt(result, k, asked, n) <=> result.kind = "fileReferences" /\ result.n = 0)
         /\ k > Before(asked) /\ k <= Before(asked) + n
              => (IsAt(result, k, asked, n)
                    <=> result.kind = "chunk" /\ result.n = k - Before(asked))
         /\ k > Before(asked) + n
              => (IsAt(result, k, asked, n)
                    <=> result.kind \in EndAt(k - Before(asked) - n, asked) /\ result.n = 0)
<1> DEFINE b == Before(asked)
<1>1. b \in {0, 1}
  BY DEF Before
<1> HIDE DEF b
<1>2. IsAt(result, k, asked, n) <=>
        \/ k <= b /\ result.kind = "fileReferences" /\ result.n = 0
        \/ k \in b + 1 .. b + n /\ result.kind = "chunk" /\ result.n = k - b
        \/ k > b + n /\ result.kind \in EndAt(k - b - n, asked) /\ result.n = 0
  BY DEF IsAt, b
<1>3. k <= b => (IsAt(result, k, asked, n) <=> result.kind = "fileReferences" /\ result.n = 0)
  BY <1>1, <1>2
<1>4. k > b /\ k <= b + n
        => (IsAt(result, k, asked, n) <=> result.kind = "chunk" /\ result.n = k - b)
  BY <1>1, <1>2
<1>5. k > b + n => (IsAt(result, k, asked, n)
                      <=> result.kind \in EndAt(k - b - n, asked) /\ result.n = 0)
  BY <1>1, <1>2
<1> QED BY <1>1, <1>3, <1>4, <1>5 DEF b

LEMMA Moves ==
  ASSUME NEW S, NEW c \in Seq(S), NEW p \in Seq(S), p # <<>>
  PROVE  Append(c, Head(p)) \o Tail(p) = c \o p
<1> DEFINE a == Append(c, Head(p)) \o Tail(p)
           b == c \o p
<1>1. Head(p) \in S /\ Tail(p) \in Seq(S) /\ Len(Tail(p)) = Len(p) - 1 /\ Len(p) \in Nat \ {0}
      /\ Len(c) \in Nat
  OBVIOUS
<1>2. Append(c, Head(p)) \in Seq(S) /\ Len(Append(c, Head(p))) = Len(c) + 1
  BY <1>1
<1>3. a \in Seq(S) /\ b \in Seq(S) /\ Len(a) = Len(c) + Len(p) /\ Len(b) = Len(c) + Len(p)
  BY <1>1, <1>2
<1>4. ASSUME NEW i \in 1 .. Len(c) + Len(p) PROVE a[i] = b[i]
  <2>1. CASE i <= Len(c)
    BY <1>1, <1>2, <2>1
  <2>2. CASE i = Len(c) + 1
    BY <1>1, <1>2, <2>2
  <2>3. CASE i > Len(c) + 1
    BY <1>1, <1>2, <2>3
  <2> QED BY <1>1, <2>1, <2>2, <2>3
<1> HIDE DEF a, b
<1> QED BY <1>3, <1>4 DEF a, b

LEMMA RelayOrder ==
  ASSUME TypeOK, Bounded, StreamOnly, HandlerIsAhead, AllCounted, InOrder, Relay
  PROVE  InOrder' /\ AllCounted'
<1>0. Total \in Nat /\ Offset \in {0, 1} /\ Len(received) \in Nat /\ Before(request) = Offset
  BY TakenTypes DEF Offset
<1>1. CASE Send
  <2>1. channel \in Seq(Result) /\ pending \in Seq(Result)
    BY DEF TypeOK
  <2>2. /\ pending # <<>> /\ channel' = Append(channel, Head(pending)) /\ pending' = Tail(pending)
        /\ UNCHANGED <<request, output, taken, received, relay, complete>>
    BY <1>1 DEF Send, handlerVars
  <2>3. Sent' = Sent
    BY <2>1, <2>2, Moves DEF Sent
  <2>4. Taken' = Taken /\ Total' = Total
    BY <2>2, <2>3 DEF Taken, Total
  <2> QED BY <2>2, <2>3, <2>4 DEF InOrder, AllCounted, Over, EndCount, Offset
<1>2. ASSUME NEW x \in Seq(Result), pending = <<>>, pending' = x, relay' = "closing", ~Over,
             relay # "idle", UNCHANGED <<output, taken, channel, request, received>>,
             \A i \in DOMAIN x : x[i].kind \in EndAt(i, request) /\ x[i].n = 0,
             Len(x) = EndCount'
      PROVE  InOrder' /\ AllCounted'
  <2>1. Total = Offset + Len(received)
    BY <1>2 DEF AllCounted
  <2>2. \A i \in DOMAIN x : IsAt(x[i], Total + i, request, Len(received'))
    <3> SUFFICES ASSUME NEW i \in DOMAIN x PROVE IsAt(x[i], Total + i, request, Len(received'))
      OBVIOUS
    <3>1. i \in Nat /\ i >= 1
      OBVIOUS
    <3>2. Total + i > Offset + Len(received) /\ Total + i - Offset - Len(received) = i
      BY <1>0, <2>1, <3>1
    <3>3. Len(received') = Len(received) /\ x[i].kind \in EndAt(i, request) /\ x[i].n = 0
      BY <1>2
    <3> QED BY <1>0, <3>2, <3>3 DEF IsAt
  <2>3. InOrder' /\ Total' = Total + Len(x)
    BY <1>2, <2>2, Produces
  <2> QED BY <1>2, <2>1, <2>3 DEF AllCounted, Over, Offset
<1>3. <<ErrorResult>> \in Seq(Result) /\ <<>> \in Seq(Result)
      /\ <<Message("canned"), Message("done")>> \in Seq(Result)
  BY Results DEF ErrorResult, Kind
<1>4. ASSUME At("started") \/ At("connecting") \/ At("looping") \/ At("receiving"),
             relay' = "closing", pending' = <<ErrorResult>>, request.question # "oneWord",
             UNCHANGED <<output, taken, channel, request, received, complete>>
      PROVE  InOrder' /\ AllCounted'
  <2>1. pending = <<>> /\ ~Over /\ relay # "idle" /\ ~complete
    BY <1>4 DEF At, Over, StreamOnly
  <2>2. \A i \in DOMAIN <<ErrorResult>> :
          <<ErrorResult>>[i].kind \in EndAt(i, request) /\ <<ErrorResult>>[i].n = 0
    <3>1. ErrorResult.kind = "error" /\ ErrorResult.n = 0
      BY DEF ErrorResult, Message
    <3>2. ErrorResult.kind \in EndAt(1, request)
      BY <1>4, <3>1 DEF EndAt
    <3>3. \A i \in DOMAIN <<ErrorResult>> : i = 1 /\ <<ErrorResult>>[i] = ErrorResult
      OBVIOUS
    <3> QED BY <3>1, <3>2, <3>3
  <2>3. Len(<<ErrorResult>>) = 1 /\ EndCount' = 1
    BY <1>4, <2>1 DEF EndCount
  <2> QED BY <1>2, <1>3, <1>4, <2>1, <2>2, <2>3
<1>5. ASSUME UNCHANGED <<request, output, taken, channel, pending, received, complete>>,
             relay # "idle" /\ relay' # "idle", Over' <=> Over
      PROVE  InOrder' /\ AllCounted'
  <2>1. InOrder' /\ Total' = Total /\ Offset' = Offset /\ EndCount' = EndCount
        /\ Len(received') = Len(received)
    BY <1>5, OrderUnchanged DEF EndCount
  <2>2. ~Over => Total' = Offset' + Len(received')
    BY <1>5, <2>1 DEF AllCounted
  <2>3. Over => Total' = Offset' + Len(received') + EndCount'
    BY <2>1 DEF AllCounted
  <2> QED BY <1>5, <2>1, <2>2, <2>3 DEF AllCounted
<1>6. CASE Start
  <2>1. At("started") /\ UNCHANGED <<request, output, taken, channel, received, complete>>
    BY <1>6 DEF Start, handlerVars
  <2>2. CASE request.question = "stream-error-test"
    BY <1>4, <1>6, <2>1, <2>2 DEF Start, Finish
  <2>3. CASE request.question = "oneWord"
    <3> DEFINE x == <<Message("canned"), Message("done")>>
    <3>1. relay' = "closing" /\ pending' = x
      BY <1>6, <2>3 DEF Start, Finish
    <3>2. Len(x) = 2 /\ DOMAIN x = 1 .. 2 /\ x[1] = Message("canned") /\ x[2] = Message("done")
      OBVIOUS
    <3> HIDE DEF x
    <3>3. \A i \in DOMAIN x : x[i].kind \in EndAt(i, request) /\ x[i].n = 0
        <4>1. x[1].kind = "canned" /\ x[1].n = 0 /\ x[2].kind = "done" /\ x[2].n = 0
        BY <3>2 DEF Message
      <4>2. "canned" \in EndAt(1, request) /\ "done" \in EndAt(2, request)
        BY <2>3 DEF EndAt
      <4>3. \A i \in DOMAIN x : i = 1 \/ i = 2
        BY <3>2
      <4> QED BY <4>1, <4>2, <4>3
    <3>4. EndCount' = 2
      BY <2>1, <2>3 DEF EndCount
    <3>5. x \in Seq(Result)
      BY <1>3 DEF x
    <3>6. pending = <<>> /\ ~Over /\ relay # "idle"
      BY <2>1 DEF At, Over
    <3> QED BY <1>2, <2>1, <3>1, <3>2, <3>3, <3>4, <3>5, <3>6
  <2>4. CASE request.question = "words"
    <3>1. relay' = "connecting" /\ pending' = pending /\ relay = "started"
      BY <1>6, <2>1, <2>4 DEF Start, At
    <3> QED BY <1>5, <2>1, <3>1 DEF Over
  <2> QED BY <2>2, <2>3, <2>4 DEF TypeOK, Request
<1>7. CASE Connect \/ CheckContext \/ ReceiveError
  <2>1. /\ UNCHANGED <<request, output, taken, channel, received, complete>>
        /\ At("connecting") \/ At("looping") \/ At("receiving")
    BY <1>7 DEF Connect, CheckContext, ReceiveError, handlerVars
  <2>2. request.question # "oneWord"
    BY <2>1 DEF At, StreamOnly
  <2>3. CASE Finish(<<ErrorResult>>)
    BY <1>4, <2>1, <2>2, <2>3 DEF Finish
  <2>4. CASE relay' \in {"looping", "receiving"} /\ pending' = pending
    BY <1>5, <2>1, <2>4 DEF At, Over
  <2> QED BY <1>7, <2>3, <2>4 DEF Connect, CheckContext, ReceiveError
<1>8. CASE ReceiveDone
  <2>1. At("receiving") /\ relay' = "closing" /\ pending' = <<>> /\ complete' = TRUE
        /\ UNCHANGED <<request, output, taken, channel, received>>
    BY <1>8 DEF ReceiveDone, Finish, handlerVars
  <2>2. pending = <<>> /\ ~Over /\ relay # "idle" /\ request.question = "words"
    BY <2>1 DEF At, Over, StreamOnly
  <2>3. EndCount' = 0
    BY <2>1, <2>2 DEF EndCount
  <2>4. \A i \in DOMAIN <<>> : <<>>[i].kind \in EndAt(i, request) /\ <<>>[i].n = 0
    OBVIOUS
  <2>5. Len(<<>>) = 0
    OBVIOUS
  <2> QED BY <1>2, <1>3, <2>1, <2>2, <2>3, <2>4, <2>5
<1>9. CASE ReceiveChunk
  <2> DEFINE n == Len(received)
             x == <<[kind |-> "chunk", n |-> n + 1]>>
  <2>1. /\ received \in Seq(Chunk) /\ relay = "receiving" /\ pending = <<>> /\ n < MaxChunks
        /\ relay' = "recording" /\ UNCHANGED <<output, taken, channel, request, complete>>
    BY <1>9 DEF ReceiveChunk, At, TypeOK, handlerVars
  <2>2. Len(received') = n + 1
    BY <1>9, <2>1 DEF ReceiveChunk
  <2>3. pending' = x
    BY <1>9, <2>2 DEF ReceiveChunk
  <2>4. Total = Offset + n
    BY <2>1 DEF AllCounted, Over
  <2>5. x \in Seq(Result)
    BY <1>0, <2>1, Results, ConstantsAssumption
  <2>6. \A i \in DOMAIN x : IsAt(x[i], Total + i, request, Len(received'))
    <3>1. DOMAIN x = {1} /\ x[1].kind = "chunk" /\ x[1].n = n + 1 /\ Len(x) = 1
      OBVIOUS
    <3>2. Total + 1 \in Offset + 1 .. Offset + (n + 1) /\ Total + 1 - Offset = n + 1
      BY <1>0, <2>4
    <3>3. IsAt(x[1], Total + 1, request, n + 1)
      BY <1>0, <3>1, <3>2 DEF IsAt
    <3> HIDE DEF x, n
    <3> QED BY <2>2, <3>1, <3>3
  <2>7. \A result, k : k \in 1 .. Total /\ IsAt(result, k, request, Len(received))
                         => IsAt(result, k, request, Len(received'))
    <3> SUFFICES ASSUME NEW result, NEW k \in 1 .. Total,
                        IsAt(result, k, request, n)
                 PROVE  IsAt(result, k, request, n + 1)
      BY <2>2
    <3>1. k \in Nat /\ k >= 1 /\ k <= Offset + n
      BY <1>0, <2>4
    <3> HIDE DEF n
    <3>2. n \in Nat
      BY <1>0 DEF n
    <3> QED BY <1>0, <3>1, <3>2 DEF IsAt
  <2>8. InOrder' /\ Total' = Total + Len(x)
    BY <2>1, <2>3, <2>5, <2>6, <2>7, Produces
  <2>9. Len(x) = 1
    OBVIOUS
  <2>10. Total' = Offset' + Len(received')
    BY <1>0, <2>1, <2>2, <2>4, <2>8, <2>9 DEF Offset
  <2> QED BY <2>1, <2>8, <2>10 DEF AllCounted, Over
<1>10. CASE Record
  <2>1. relay = "recording" /\ relay' = "looping"
        /\ UNCHANGED <<request, output, taken, channel, pending, received, complete>>
    BY <1>10 DEF Record, At, handlerVars
  <2> QED BY <1>5, <2>1 DEF Over
<1>11. CASE Close
  <2>1. relay = "closing" /\ relay' = "exited"
        /\ UNCHANGED <<request, output, taken, channel, pending, received, complete>>
    BY <1>11 DEF Close, At, handlerVars
  <2> QED BY <1>5, <2>1 DEF Over
<1> QED BY <1>1, <1>6, <1>7, <1>8, <1>9, <1>10, <1>11 DEF Relay
---------------------------------------------------------------------------
(* Bounds, and who is ahead of whom.                                       *)

LEMMA BoundedSteps ==
  ASSUME TypeOK, Bounded, StreamOnly, Next
  PROVE  Bounded'
<1>0. /\ received \in Seq(Chunk) /\ Len(received) \in Nat
      /\ channel \in Seq(Result) /\ Len(channel) \in Nat
      /\ pending \in Seq(Result) /\ Len(pending) \in Nat
      /\ tokenCount \in Nat /\ MaxChunks \in Nat /\ Capacity \in Nat
  BY ConstantsAssumption DEF TypeOK
<1>1. CASE CreateCompletion
  <2>1. Len(pending') <= 1
    BY <1>1 DEF CreateCompletion
  <2>2. relay' = "started" /\ UNCHANGED <<received, channel, tokenCount>>
    BY <1>1 DEF CreateCompletion
  <2> QED BY <1>0, <2>1, <2>2 DEF Bounded
<1>2. CASE CreateFails \/ Write \/ ChannelClosed \/ ContextDone \/ ClientLeaves
  BY <1>2 DEF CreateFails, Write, ChannelClosed, ContextDone, ClientLeaves, relayVars, Bounded
<1>3. CASE Take
  <2>1. Len(channel') <= Len(channel)
    BY <1>0, <1>3 DEF Take
  <2> QED BY <1>0, <1>3, <2>1 DEF Take, relayVars, Bounded
<1>4. CASE Send
  <2>1. Len(channel') <= Capacity /\ Len(pending') = Len(pending) - 1
    BY <1>0, <1>4 DEF Send
  <2> QED BY <1>0, <1>4, <2>1 DEF Send, Bounded
<1>5. CASE Start
  <2>1. received = <<>> /\ Len(pending') <= 2 /\ relay' # "recording" /\ relay # "recording"
        /\ UNCHANGED <<received, channel, tokenCount>>
    <3>1. pending' \in {<<>>, <<ErrorResult>>, <<Message("canned"), Message("done")>>}
          /\ relay' \in {"closing", "connecting"}
      BY <1>5 DEF Start, Finish, At, TypeOK, Request
    <3>2. Len(<<>>) = 0 /\ Len(<<ErrorResult>>) = 1 /\ Len(<<Message("canned"), Message("done")>>) = 2
      OBVIOUS
    <3>3. relay = "started" /\ UNCHANGED <<received, channel, tokenCount>>
      BY <1>5 DEF Start, At
    <3>4. Len(pending') <= 2
      <4>1. CASE pending' = <<>>
        BY <3>2, <4>1
      <4>2. CASE pending' = <<ErrorResult>>
        BY <3>2, <4>2
      <4>3. CASE pending' = <<Message("canned"), Message("done")>>
        BY <3>2, <4>3
      <4> QED BY <3>1, <4>1, <4>2, <4>3
    <3> QED BY <3>1, <3>3, <3>4 DEF StreamOnly
  <2> QED BY <1>0, <2>1 DEF Bounded
<1>6. CASE Connect \/ CheckContext \/ ReceiveDone \/ ReceiveError
  <2>1. pending' \in {<<>>, <<ErrorResult>>} /\ relay \notin {"recording"} /\ relay' # "recording"
        /\ UNCHANGED <<received, channel, tokenCount>>
    BY <1>6 DEF Connect, CheckContext, ReceiveDone, ReceiveError, Finish, At
  <2>2. Len(<<>>) = 0 /\ Len(<<ErrorResult>>) = 1
    OBVIOUS
  <2>3. Len(pending') <= 1
    <3>1. CASE pending' = <<>>
      BY <2>2, <3>1
    <3>2. CASE pending' = <<ErrorResult>>
      BY <2>2, <3>2
    <3> QED BY <2>1, <3>1, <3>2
  <2> QED BY <1>0, <2>1, <2>3 DEF Bounded
<1>7. CASE ReceiveChunk
  <2>1. Len(received') = Len(received) + 1 /\ Len(received) < MaxChunks /\ received' # <<>>
    <3>1. PICK chunk \in Chunk : received' = Append(received, chunk)
      BY <1>7 DEF ReceiveChunk
    <3>2. Len(received) < MaxChunks
      BY <1>7 DEF ReceiveChunk
    <3> QED BY <1>0, <3>1, <3>2
  <2>2. Len(pending') = 1 /\ relay = "receiving" /\ UNCHANGED <<channel, tokenCount>>
    BY <1>7 DEF ReceiveChunk, At
  <2> QED BY <1>0, <2>1, <2>2 DEF Bounded
<1>8. CASE Record
  <2>1. Usage \in {0, 1} /\ tokenCount' = tokenCount + Usage /\ relay = "recording"
        /\ relay' = "looping" /\ UNCHANGED <<received, channel, pending>>
    BY <1>8 DEF Record, Usage, At
  <2> QED BY <1>0, <2>1 DEF Bounded
<1>9. CASE Close
  BY <1>9 DEF Close, At, Bounded
<1> QED BY <1>1, <1>2, <1>3, <1>4, <1>5, <1>6, <1>7, <1>8, <1>9 DEF Next, Handler, Relay

LEMMA StreamSteps ==
  ASSUME TypeOK, StreamOnly, HandlerIsAhead, Next
  PROVE  StreamOnly'
<1>1. CASE CreateCompletion
  <2>1. relay = "idle" /\ received = <<>>
    BY <1>1 DEF CreateCompletion, HandlerIsAhead, StreamOnly
  <2> QED BY <1>1, <2>1 DEF CreateCompletion, StreamOnly, Over
<1>2. CASE CreateFails \/ Take \/ Write \/ ChannelClosed \/ ContextDone \/ ClientLeaves
  BY <1>2 DEF CreateFails, Take, Write, ChannelClosed, ContextDone, ClientLeaves, relayVars,
              StreamOnly, Over
<1>3. CASE Send
  BY <1>3 DEF Send, StreamOnly, Over
<1>4. CASE Start
  BY <1>4 DEF Start, At, Finish, StreamOnly, Over, TypeOK, Request
<1>5. CASE Connect \/ CheckContext \/ ReceiveDone \/ ReceiveError \/ Record \/ Close
  BY <1>5 DEF Connect, CheckContext, ReceiveDone, ReceiveError, Record, Close, At, Finish,
              StreamOnly, Over
<1>6. CASE ReceiveChunk
  BY <1>6 DEF ReceiveChunk, At, StreamOnly, Over
<1> QED BY <1>1, <1>2, <1>3, <1>4, <1>5, <1>6 DEF Next, Handler, Relay

LEMMA AheadSteps ==
  ASSUME TypeOK, Bounded, HandlerIsAhead, Next
  PROVE  HandlerIsAhead'
<1> USE DEF HandlerIsAhead
<1>1. CASE CreateCompletion
  BY <1>1 DEF CreateCompletion
<1>2. CASE CreateFails \/ ChannelClosed \/ ContextDone
  BY <1>2 DEF CreateFails, ChannelClosed, ContextDone, Return, relayVars
<1>3. CASE ClientLeaves
  BY <1>3 DEF ClientLeaves, relayVars, handlerVars
<1>4. CASE Take
  <2>1. Head(channel) \in Result
    BY <1>4 DEF Take, TypeOK
  <2>2. Shown(Head(channel)).kind = Head(channel).kind
    BY <2>1, ShownTypes
  <2>3. UNCHANGED <<relay, pending, closed, left>>
    BY <1>4 DEF Take, relayVars
  <2>4. CASE handler' = "returned" /\ taken' = taken
    BY <1>4, <2>3, <2>4 DEF Take
  <2>5. CASE /\ Head(channel).kind \notin {"error", "done"} /\ taken' = Shown(Head(channel))
             /\ UNCHANGED <<handler, output, ctxDone>>
    BY <1>4, <2>2, <2>3, <2>5 DEF Take
  <2> QED BY <1>4, <2>4, <2>5 DEF Take, Return
<1>5. CASE Write
  <2>1. taken # None /\ taken' = None /\ UNCHANGED <<handler, ctxDone, left, relay, pending, closed>>
    BY <1>5 DEF Write, relayVars
  <2>2. taken.kind \notin {"error", "done"} /\ taken \in Shows /\ output \in Seq(Shows)
    BY <2>1 DEF TypeOK
  <2>3. PICK upTo : output' = Append(output, [taken EXCEPT !.upTo = upTo])
    BY <1>5 DEF Write
  <2> DEFINE last == [taken EXCEPT !.upTo = upTo]
  <2>4. last.kind = taken.kind
    BY <2>2 DEF Shows
  <2> HIDE DEF last
  <2>5. \A i \in DOMAIN (output') :
          output'[i] = last \/ (i \in DOMAIN output /\ output'[i] = output[i])
    BY <2>2, <2>3 DEF last
  <2>6. handler = "relaying" => \A i \in DOMAIN (output') : output'[i].kind \notin {"error", "done"}
    BY <2>2, <2>4, <2>5
  <2> QED BY <2>1, <2>6
<1>6. CASE Send
  <2>1. relay \notin {"idle", "exited"}
    BY <1>6 DEF Send
  <2>2. UNCHANGED <<handler, taken, output, ctxDone, left, relay, closed>>
    BY <1>6 DEF Send, handlerVars
  <2> QED BY <2>1, <2>2
<1>7. CASE Close
  <2>1. relay = "closing" /\ relay' = "exited" /\ pending' = <<>>
    BY <1>7 DEF Close, At
  <2>2. UNCHANGED <<handler, taken, output, ctxDone, left>>
    BY <1>7 DEF Close, handlerVars
  <2> QED BY <2>1, <2>2
<1>8. CASE Start \/ Connect \/ CheckContext \/ ReceiveChunk \/ ReceiveDone \/ ReceiveError \/ Record
  <2>1. UNCHANGED <<handler, taken, output, ctxDone, left, closed>>
    BY <1>8 DEF Start, Connect, CheckContext, ReceiveChunk, ReceiveDone, ReceiveError, Record,
                handlerVars
  <2>2. relay \notin {"idle", "exited"} /\ relay' \notin {"idle", "exited"}
    BY <1>8 DEF Start, Connect, CheckContext, ReceiveChunk, ReceiveDone, ReceiveError, Record,
                At, Finish, TypeOK, Request
  <2> QED BY <2>1, <2>2
<1> QED BY <1>1, <1>2, <1>3, <1>4, <1>5, <1>6, <1>7, <1>8 DEF Next, Handler, Relay

\* What the handler has not taken is in the channel or in the goroutine's hands.
LEMMA BacklogIsBounded ==
  ASSUME TypeOK, Bounded, StreamOnly, AllCounted, received # <<>>
  PROVE  Offset + Len(received) <= Taken + Capacity + 1
<1>1. Total >= Offset + Len(received)
  <2>1. relay # "idle" /\ EndCount \in Nat
    BY DEF StreamOnly, EndCount
  <2> QED BY <2>1, TakenTypes DEF AllCounted
<1>2. Len(pending) <= 1 /\ Len(channel) <= Capacity
  BY DEF Bounded
<1>3. Total = Taken + Len(Sent) /\ Len(Sent) = Len(channel) + Len(pending)
  BY SentTypes, TakenTypes
<1> QED BY <1>1, <1>2, <1>3, TakenTypes, SentTypes, ConstantsAssumption

LEMMA RepetitionSteps ==
  ASSUME TypeOK, Bounded, StreamOnly, AllCounted, InOrder, TakenIsBounded, RepeatedTextIsBounded,
         Next
  PROVE  TakenIsBounded' /\ RepeatedTextIsBounded'
<1>0. /\ output \in Seq(Shows) /\ DOMAIN output = 1 .. Len(output) /\ Len(output) \in Nat
      /\ received \in Seq(Chunk) /\ Len(received) \in Nat /\ Offset \in {0, 1}
      /\ taken \in Shows \union {None} /\ Capacity \in Nat /\ Taken \in Nat
  BY TakenTypes, ConstantsAssumption DEF TypeOK
<1>1. CASE Take
  <2> DEFINE head == Head(channel)
             shown == Shown(head)
  <2>1. taken = None /\ channel # <<>> /\ channel \in Seq(Result)
    BY <1>1 DEF Take, TypeOK
  <2>2. head \in Result /\ Len(Sent) \in Nat /\ Len(Sent) >= 1 /\ Sent[1] = head
    <3>1. pending \in Seq(Result) /\ Sent = channel \o pending
      BY DEF TypeOK, Sent
    <3> QED BY <2>1, <3>1
  <2>3. shown \in Shows /\ shown.n = head.n
        /\ shown.upTo = IF head.n = 1 THEN Len(received) ELSE head.n
    BY <2>2, ShownTypes
  <2>4. head.n \in Nat
    BY <2>2, ConstantsAssumption DEF Result
  <2>5. shown.n # 0 => shown.upTo - shown.n <= Capacity + 1
    <3>1. CASE head.n # 1
      BY <1>0, <2>3, <2>4, <3>1
    <3>2. CASE head.n = 1
      <4>1. IsAt(head, Taken + 1, request, Len(received))
        <5>1. 1 \in DOMAIN Sent
          BY <2>2, SentTypes
        <5> QED BY <2>2, <5>1 DEF InOrder
      <4>2. Taken + 1 = Offset + 1 /\ Len(received) >= 1
        <5>1. request \in Request /\ Before(request) = Offset
          BY DEF TypeOK, Offset
        <5>2. Taken + 1 > Offset /\ Taken + 1 <= Offset + Len(received) /\ head.n = Taken + 1 - Offset
          BY <1>0, <3>2, <4>1, <5>1, Places
        <5> QED BY <1>0, <3>2, <5>2
      <4>3. received # <<>>
        BY <1>0, <4>2
      <4>4. Offset + Len(received) <= Taken + Capacity + 1
        BY <4>3, BacklogIsBounded
      <4> QED BY <1>0, <2>3, <3>2, <4>2, <4>4
    <3> QED BY <3>1, <3>2
  <2> HIDE DEF head, shown
  <2>6. /\ output' = output \/ output' = Append(output, shown)
        /\ taken' = taken \/ taken' = shown
    BY <1>1 DEF Take, head, shown
  <2>7. TakenIsBounded'
    BY <2>1, <2>5, <2>6 DEF TakenIsBounded
  <2>8. CASE output' = output
    BY <2>7, <2>8 DEF RepeatedTextIsBounded
  <2>9. CASE output' = Append(output, shown)
    <3>1. \A i \in DOMAIN (output') :
            output'[i] = shown \/ (i \in DOMAIN output /\ output'[i] = output[i])
      BY <1>0, <2>3, <2>9
    <3> QED BY <2>5, <2>7, <3>1 DEF RepeatedTextIsBounded
  <2> QED BY <2>6, <2>8, <2>9
<1>2. CASE Write
  <2>1. taken # None /\ taken' = None /\ taken \in Shows /\ received' = received
    BY <1>0, <1>2 DEF Write, relayVars
  <2>2. PICK upTo \in IF taken.n = 1 /\ taken.upTo < Len(received)
                      THEN {Torn} \union (taken.upTo .. Len(received)) ELSE {taken.upTo} :
          output' = Append(output, [taken EXCEPT !.upTo = upTo])
    BY <1>2 DEF Write
  <2>3. taken.n \in Nat /\ taken.upTo \in Nat
    BY <2>1, ConstantsAssumption DEF Shows
  <2>4. taken.n # 0 => upTo - taken.n <= Capacity + 1
    <3>1. CASE upTo = taken.upTo
      BY <2>1, <3>1 DEF TakenIsBounded
    <3>2. CASE upTo # taken.upTo
      <4>1. taken.n = 1 /\ upTo \in Nat /\ upTo <= Len(received)
        BY <1>0, <2>2, <2>3, <3>2 DEF Torn
      <4>2. Taken = Offset + 1 /\ Len(received) >= 1
        <5>1. request \in Request /\ Before(request) = Offset
          BY DEF TypeOK, Offset
        <5>2. IsAt(taken, Taken, request, Len(received))
          BY <2>1 DEF InOrder
        <5>3. Taken > Offset /\ Taken <= Offset + Len(received) /\ taken.n = Taken - Offset
          BY <1>0, <4>1, <5>1, <5>2, Places
        <5> QED BY <1>0, <4>1, <5>3
      <4>3. received # <<>>
        BY <1>0, <4>2
      <4>4. Offset + Len(received) <= Taken + Capacity + 1
        BY <4>3, BacklogIsBounded
      <4> QED BY <1>0, <4>1, <4>2, <4>4
    <3> QED BY <3>1, <3>2
  <2> DEFINE last == [taken EXCEPT !.upTo = upTo]
  <2>5. last.n = taken.n /\ last.upTo = upTo
    BY <2>1 DEF Shows
  <2> HIDE DEF last
  <2>6. \A i \in DOMAIN (output') :
          output'[i] = last \/ (i \in DOMAIN output /\ output'[i] = output[i])
    BY <1>0, <2>2 DEF last
  <2> QED BY <2>1, <2>4, <2>5, <2>6 DEF TakenIsBounded, RepeatedTextIsBounded
<1>3. CASE CreateCompletion \/ CreateFails \/ ChannelClosed \/ ContextDone \/ ClientLeaves \/ Relay
  <2>1. UNCHANGED <<taken, output>>
    BY <1>3 DEF CreateCompletion, CreateFails, ChannelClosed, ContextDone, ClientLeaves, Relay, Send,
                Start, Connect, CheckContext, ReceiveChunk, ReceiveDone, ReceiveError, Record, Close,
                handlerVars
  <2> QED BY <2>1 DEF TakenIsBounded, RepeatedTextIsBounded
<1> QED BY <1>1, <1>2, <1>3 DEF Next, Handler

---------------------------------------------------------------------------
(* The inductive invariant.                                                *)

LEMMA InitInv == Init => IInv
<1> SUFFICES ASSUME Init PROVE IInv
  OBVIOUS
<1>1. /\ output = <<>> /\ pending = <<>> /\ channel = <<>> /\ received = <<>> /\ taken = None
      /\ tokenCount = 0 /\ relay = "idle" /\ handler = "creating" /\ ctxDone = FALSE
      /\ closed = FALSE /\ complete = FALSE
  BY DEF Init
<1>2. Sent = <<>> /\ Len(Sent) = 0 /\ Len(output) = 0 /\ Len(received) = 0
  BY <1>1 DEF Sent
<1>3. Total = 0
  BY <1>1, <1>2 DEF Total, Taken
<1>4. Bounded /\ StreamOnly /\ HandlerIsAhead /\ AllCounted
  BY <1>1, <1>2, <1>3, ConstantsAssumption
     DEF Bounded, StreamOnly, HandlerIsAhead, AllCounted, Over
<1>5. InOrder /\ TakenIsBounded /\ RepeatedTextIsBounded
  BY <1>1, <1>2 DEF InOrder, TakenIsBounded, RepeatedTextIsBounded
<1> QED BY <1>4, <1>5, InitTypes DEF IInv

LEMMA NextInv == IInv /\ [Next]_vars => IInv'
<1> SUFFICES ASSUME IInv, [Next]_vars PROVE IInv'
  OBVIOUS
<1> USE DEF IInv
<1>1. CASE Next
  <2>1. InOrder' /\ AllCounted'
    BY <1>1, HandlerOrder, RelayOrder DEF Next
  <2> QED BY <1>1, <2>1, NextTypes, BoundedSteps, StreamSteps, AheadSteps, RepetitionSteps
<1>2. CASE UNCHANGED vars
  <2>1. /\ UNCHANGED <<request, handler, taken, output, ctxDone, left, relay, pending, channel,
                       closed, received, tokenCount, complete>>
    BY <1>2 DEF vars, handlerVars, relayVars
  <2>2. InOrder' /\ AllCounted'
    BY <2>1, OrderUnchanged DEF AllCounted, Over, EndCount
  <2>3. Bounded' /\ StreamOnly' /\ HandlerIsAhead' /\ TakenIsBounded' /\ RepeatedTextIsBounded'
    BY <2>1 DEF Bounded, StreamOnly, HandlerIsAhead, TakenIsBounded, RepeatedTextIsBounded, Over
  <2> QED BY <1>2, <2>2, <2>3, NextTypes
<1> QED BY <1>1, <1>2

LEMMA Invariant == Spec => []IInv
BY InitInv, NextInv, PTL DEF Spec

\* The state of a request is well-formed, and what the client sees twice is bounded: the
\* first message may repeat the text of the chunks behind it, but only of as many as wait
\* in the channel and in the goroutine.
THEOREM RelayInvariantHolds == Spec => []RelayInvariant
<1>1. IInv => RelayInvariant
  BY DEF IInv, RelayInvariant
<1> QED BY <1>1, Invariant, PTL

---------------------------------------------------------------------------
(* The refinement.                                                         *)

Delivered == Cardinality({i \in DOMAIN output : output[i].n # 0})

\* The substitution of Promised, spelt out.
LEMMA PromisedSteps ==
  /\ Promised!Init <=> /\ Len(received) = 0 /\ Delivered = 0
                       /\ SourceOf = "open" /\ EndOf = "none"
  /\ Promised!Receive <=> /\ SourceOf = "open" /\ Len(received)' = Len(received) + 1
                          /\ Delivered' = Delivered /\ SourceOf' = SourceOf /\ EndOf' = EndOf
  /\ Promised!SourceEnds <=> /\ SourceOf = "open" /\ SourceOf' \in {"complete", "failed"}
                             /\ Len(received)' = Len(received) /\ Delivered' = Delivered
                             /\ EndOf' = EndOf
  /\ Promised!Deliver <=> /\ EndOf = "none" /\ Delivered < Len(received)
                          /\ Delivered' = Delivered + 1
                          /\ Len(received)' = Len(received) /\ SourceOf' = SourceOf
                          /\ EndOf' = EndOf
  /\ Promised!Complete <=> /\ SourceOf = "complete" /\ Delivered = Len(received)
                           /\ EndOf' = "complete"
  /\ Promised!Fail <=> /\ Delivered = Len(received)
                       /\ SourceOf = "failed" \/ Len(received) = 0
                       /\ EndOf' = "error"
  /\ Promised!Leave <=> EndOf' = "left"
  /\ Promised!End <=> /\ EndOf = "none"
                      /\ Promised!Complete \/ Promised!Fail \/ Promised!Leave
                      /\ Len(received)' = Len(received) /\ Delivered' = Delivered
                      /\ SourceOf' = SourceOf
BY DEF Promised!Init, Promised!Receive, Promised!SourceEnds, Promised!Deliver, Promised!Complete,
       Promised!Fail, Promised!Leave, Promised!End, Promised!Whole, Delivered

\* What stays in a stutter.
LEMMA PromisedVars ==
  /\ Promised!vars = <<Len(received), Delivered, SourceOf, EndOf>>
  /\ Promised!vars' = <<Len(received), Delivered, SourceOf, EndOf>>'
BY DEF Promised!vars, Delivered

LEMMA Stutter ==
  ASSUME UNCHANGED <<received, output>>, SourceOf' = SourceOf, EndOf' = EndOf
  PROVE  [Promised!Next]_(Promised!vars)
<1>1. <<Len(received), Delivered, SourceOf, EndOf>>' = <<Len(received), Delivered, SourceOf, EndOf>>
  BY DEF Delivered
<1> QED BY <1>1, PromisedVars

\* How many chunks the client was shown follows from how much it was shown.
LEMMA DeliveredIs ==
  ASSUME TypeOK, InOrder
  PROVE  /\ Len(output) <= Offset => Delivered = 0
         /\ Len(output) > Offset /\ Len(output) <= Offset + Len(received)
              => Delivered = Len(output) - Offset
         /\ Len(output) >= Offset + Len(received) => Delivered = Len(received)
<1> DEFINE n == Len(output)
           m == Len(received)
           k == IF n <= Offset + m THEN n ELSE Offset + m
           shown == {i \in DOMAIN output : output[i].n # 0}
<1>1. /\ n \in Nat /\ DOMAIN output = 1 .. n /\ m \in Nat /\ Offset \in {0, 1}
      /\ request \in Request /\ Before(request) = Offset
  BY TakenTypes DEF TypeOK, Offset
<1>2. ASSUME NEW i \in 1 .. n PROVE output[i].n # 0 <=> i > Offset /\ i <= Offset + m
  <2>1. IsAt(output[i], i, request, m)
    BY <1>1 DEF InOrder
  <2>2. CASE i <= Offset
    BY <1>1, <2>1, <2>2, Places
  <2>3. CASE i > Offset /\ i <= Offset + m
    <3>1. i \in Nat /\ m \in Nat /\ request \in Request /\ i > Before(request)
          /\ i <= Before(request) + m
      BY <1>1, <2>3
    <3> HIDE DEF m
    <3>2. output[i].n = i - Before(request)
      BY <2>1, <3>1, Places
    <3> QED BY <1>1, <2>3, <3>2
  <2>4. CASE i > Offset + m
    <3>1. output[i].n = 0
      BY <1>1, <2>1, <2>4, Places
    <3> QED BY <1>1, <2>4, <3>1
  <2> QED BY <1>1, <2>2, <2>3, <2>4
<1>3. shown = Offset + 1 .. k
  BY <1>1, <1>2
<1>4. Delivered = IF Offset + 1 > k THEN 0 ELSE k - (Offset + 1) + 1
  <2>1. k \in Int /\ Offset + 1 \in Int
    BY <1>1
  <2>2. Cardinality(Offset + 1 .. k) = IF Offset + 1 > k THEN 0 ELSE k - (Offset + 1) + 1
    <3> HIDE DEF k
    <3> QED BY <2>1, FS_Interval
  <2> QED BY <1>3, <2>2 DEF Delivered
<1> HIDE DEF n, m, shown
<1>5. /\ n <= Offset => Delivered = 0
      /\ n > Offset /\ n <= Offset + m => Delivered = n - Offset
      /\ n >= Offset + m => Delivered = m
  BY <1>1, <1>4
<1> QED BY <1>5 DEF n, m

LEMMA DeliveredAppend ==
  ASSUME TypeOK, NEW shown \in Shows, output' = Append(output, shown)
  PROVE  Delivered' = Delivered + (IF shown.n # 0 THEN 1 ELSE 0)
<1> DEFINE n      == Len(output)
           before == {i \in DOMAIN output : output[i].n # 0}
           after  == {i \in DOMAIN (output') : output'[i].n # 0}
<1>1. n \in Nat /\ DOMAIN output = 1 .. n /\ DOMAIN (output') = 1 .. n + 1
      /\ output'[n + 1] = shown /\ \A i \in 1 .. n : output'[i] = output[i]
  BY DEF TypeOK
<1> HIDE DEF n
<1>2. IsFiniteSet(before) /\ n + 1 \notin before
  <2>1. IsFiniteSet(1 .. n) /\ before \subseteq 1 .. n
    BY <1>1, FS_Interval
  <2> QED BY <1>1, <2>1, FS_Subset
<1>3. CASE shown.n # 0
  <2>1. after = before \union {n + 1}
    BY <1>1, <1>3
  <2>2. Cardinality(after) = Cardinality(before) + 1
    BY <1>2, <2>1, FS_AddElement
  <2> QED BY <1>3, <2>2 DEF Delivered
<1>4. CASE shown.n = 0
  <2>1. after = before
    BY <1>1, <1>4
  <2>2. Cardinality(before) \in Nat
    BY <1>2, FS_CardinalityType
  <2>3. Delivered \in Nat /\ Delivered' = Delivered
    BY <2>1, <2>2 DEF Delivered
  <2> HIDE DEF before, after
  <2> QED BY <1>4, <2>3
<1> QED BY <1>3, <1>4

LEMMA EndStays ==
  ASSUME UNCHANGED output,
         \/ handler # "returned" /\ handler' # "returned"
         \/ UNCHANGED <<handler, left>> /\ (relay = "idle" <=> relay' = "idle")
  PROVE  EndOf' = EndOf
BY DEF EndOf

LEMMA SourceStays ==
  ASSUME UNCHANGED <<request, complete>>, Over <=> Over'
  PROVE  SourceOf' = SourceOf
BY DEF SourceOf, Over

\* The source is open while the goroutine works.
LEMMA SourceIsOpen ==
  ASSUME StreamOnly, ~Over
  PROVE  SourceOf = "open"
BY DEF SourceOf, Over, StreamOnly

\* Every step of the goroutine is a step of AnswerStream, or a stutter.
LEMMA RelaySimulation ==
  ASSUME IInv, Relay
  PROVE  [Promised!Next]_(Promised!vars)
<1>0. TypeOK /\ StreamOnly /\ HandlerIsAhead
  BY DEF IInv
<1>1. UNCHANGED <<request, handler, taken, output, left>>
  BY DEF Relay, Send, Start, Connect, CheckContext, ReceiveChunk, ReceiveDone, ReceiveError,
         Record, Close, handlerVars
<1>2. Delivered' = Delivered
  BY <1>1 DEF Delivered
<1>3. CASE Send \/ Record \/ Close
  <2>1. UNCHANGED <<received, complete>> /\ (relay = "idle" <=> relay' = "idle") /\ (Over <=> Over')
    BY <1>3 DEF Send, Record, Close, At, Over
  <2>2. SourceOf' = SourceOf /\ EndOf' = EndOf
    BY <1>1, <2>1, SourceStays, EndStays
  <2> QED BY <1>1, <2>1, <2>2, Stutter
<1>4. CASE Start \/ Connect \/ CheckContext \/ ReceiveDone \/ ReceiveError
  <2>1. received' = received /\ relay # "idle" /\ relay' # "idle" /\ ~Over
    BY <1>0, <1>4 DEF Start, Connect, CheckContext, ReceiveDone, ReceiveError, At, Over, Finish,
                      TypeOK, Request
  <2>2. EndOf' = EndOf /\ SourceOf = "open"
    BY <1>0, <1>1, <2>1, EndStays, SourceIsOpen
  <2>3. SourceOf' \in {"open", "complete", "failed"}
    BY DEF SourceOf
  <2>4. CASE SourceOf' = "open"
    BY <1>1, <2>1, <2>2, <2>4, Stutter
  <2>5. CASE SourceOf' # "open"
    <3>1. Promised!SourceEnds
      BY <1>2, <2>1, <2>2, <2>3, <2>5, PromisedSteps
    <3> QED BY <3>1 DEF Promised!Next
  <2> QED BY <2>4, <2>5
<1>5. CASE ReceiveChunk
  <2>1. PICK chunk \in Chunk : received' = Append(received, chunk)
    BY <1>5 DEF ReceiveChunk
  <2>2. Len(received') = Len(received) + 1
    BY <1>0, <2>1 DEF TypeOK
  <2>3. relay = "receiving" /\ relay' = "recording" /\ complete' = complete
    BY <1>5 DEF ReceiveChunk, At
  <2>4. SourceOf = "open" /\ SourceOf' = SourceOf /\ EndOf' = EndOf
    BY <1>0, <1>1, <2>3, SourceIsOpen, SourceStays, EndStays DEF Over
  <2>5. Promised!Receive
    BY <1>2, <2>2, <2>4, PromisedSteps
  <2> QED BY <2>5 DEF Promised!Next
<1> QED BY <1>3, <1>4, <1>5 DEF Relay

\* What is behind the chunks came of a source that has ended, and behind all of them.
LEMMA BehindTheChunks ==
  ASSUME IInv, Total > Offset + Len(received), relay # "idle"
  PROVE  /\ request.question # "oneWord" => SourceOf = "failed"
         /\ request.question = "oneWord" => SourceOf = "complete"
<1>1. Over /\ Total = Offset + Len(received) + EndCount
  BY TakenTypes DEF IInv, AllCounted
<1>2. EndCount # 0
  BY <1>1, TakenTypes DEF IInv
<1> QED BY <1>1, <1>2 DEF EndCount, SourceOf, Over, TypeOK

\* Every step of the handler and of the client is one, or a stutter.
LEMMA HandlerSimulation ==
  ASSUME IInv, Handler \/ ClientLeaves
  PROVE  [Promised!Next]_(Promised!vars)
<1>0. TypeOK /\ StreamOnly /\ HandlerIsAhead /\ Bounded /\ AllCounted /\ InOrder
  BY DEF IInv
<1>a. /\ Len(output) \in Nat /\ DOMAIN output = 1 .. Len(output) /\ Offset \in {0, 1}
      /\ Len(received) \in Nat /\ output \in Seq(Shows)
      /\ request \in Request /\ Before(request) = Offset /\ Total \in Nat
  BY <1>0, TakenTypes DEF TypeOK, Offset
<1>b. /\ Len(output) <= Offset => Delivered = 0
      /\ Len(output) > Offset /\ Len(output) <= Offset + Len(received)
           => Delivered = Len(output) - Offset
      /\ Len(output) >= Offset + Len(received) => Delivered = Len(received)
  BY <1>0, DeliveredIs
<1>1. CASE CreateCompletion
  <2>1. UNCHANGED <<received, output, request, complete>> /\ handler # "returned"
        /\ handler' # "returned" /\ ~Over /\ ~Over'
    BY <1>0, <1>1 DEF CreateCompletion, HandlerIsAhead, Over
  <2>2. SourceOf' = SourceOf /\ EndOf' = EndOf
    BY <2>1, SourceStays, EndStays
  <2> QED BY <2>1, <2>2, Stutter
<1>2. CASE CreateFails
  <2>1. relay = "idle" /\ output = <<>> /\ received = <<>> /\ handler = "creating"
        /\ handler' = "returned" /\ UNCHANGED <<request, relay, complete, received, output>>
    BY <1>0, <1>2 DEF CreateFails, HandlerIsAhead, StreamOnly, Return, relayVars
  <2>2. SourceOf' = SourceOf /\ EndOf = "none" /\ EndOf' = "error"
    BY <2>1, SourceStays DEF EndOf, Over
  <2>3. Delivered = 0 /\ Len(received) = 0 /\ Delivered' = Delivered /\ Len(received') = Len(received)
    BY <1>a, <1>b, <2>1 DEF Delivered
  <2>4. Promised!Fail /\ Promised!End
    BY <2>2, <2>3, PromisedSteps
  <2> QED BY <2>4 DEF Promised!Next
<1>3. CASE ClientLeaves
  <2>1. UNCHANGED <<received, output, request, complete, handler, relay>> /\ handler # "returned"
    BY <1>3 DEF ClientLeaves, handlerVars, relayVars
  <2>2. SourceOf' = SourceOf /\ EndOf' = EndOf
    BY <2>1, SourceStays, EndStays DEF Over
  <2> QED BY <2>1, <2>2, Stutter
<1>4. CASE ContextDone
  <2>1. /\ handler = "relaying" /\ handler' = "returned" /\ ctxDone
        /\ UNCHANGED <<received, output, request, complete, relay, left>>
    BY <1>4 DEF ContextDone, Return, relayVars
  <2>2. relay # "idle" /\ left /\ \A i \in DOMAIN output : output[i].kind # "error"
    BY <1>0, <2>1 DEF HandlerIsAhead
  <2>3. output # <<>> => Last(output).kind # "error"
    BY <1>a, <2>2 DEF Last
  <2>4. SourceOf' = SourceOf /\ EndOf = "none" /\ EndOf' = "left" /\ Delivered' = Delivered
    BY <2>1, <2>2, <2>3, SourceStays DEF EndOf, Over, Delivered
  <2>5. Promised!Leave /\ Promised!End
    BY <2>1, <2>4, PromisedSteps
  <2> QED BY <2>5 DEF Promised!Next
<1>5. CASE ChannelClosed
  <2>1. /\ handler = "relaying" /\ handler' = "returned" /\ taken = None /\ channel = <<>> /\ closed
        /\ UNCHANGED <<received, output, request, complete, relay, left>>
    BY <1>5 DEF ChannelClosed, Return, relayVars
  <2>2. /\ relay = "exited" /\ pending = <<>>
        /\ \A i \in DOMAIN output : output[i].kind \notin {"error", "done"}
    BY <1>0, <2>1 DEF HandlerIsAhead
  <2>3. output # <<>> => Last(output).kind # "error"
    BY <1>a, <2>2 DEF Last
  <2>4. Len(output) = Offset + Len(received) + EndCount
    <3>1. Sent = <<>> /\ Len(Sent) = 0
      BY <2>1, <2>2 DEF Sent
    <3>2. Total = Len(output)
      BY <1>a, <2>1, <3>1 DEF Total, Taken
    <3> QED BY <1>0, <2>2, <3>2 DEF AllCounted, Over
  <2>5. SourceOf = "complete"
    <3>1. CASE EndCount = 1
      <4> DEFINE i == Len(output)
      <4>1. i = Offset + Len(received) + 1 /\ request.question # "oneWord"
        BY <2>4, <3>1 DEF EndCount
      <4>2. i \in Nat /\ i \in DOMAIN output /\ i > Before(request) + Len(received)
            /\ i - Before(request) - Len(received) = 1
        BY <1>a, <4>1
      <4>3. IsAt(output[i], i, request, Len(received)) /\ output[i].kind # "error"
        BY <1>0, <2>2, <4>2 DEF InOrder
      <4> HIDE DEF i
      <4>4. output[i].kind \in EndAt(i - Before(request) - Len(received), request)
        BY <1>a, <4>2, <4>3, Places
      <4>5. output[i].kind \in EndAt(1, request)
        BY <4>2, <4>4
      <4> QED BY <4>1, <4>3, <4>5 DEF EndAt
    <3>2. CASE EndCount # 1
      BY <2>2, <3>2 DEF EndCount, SourceOf
    <3> QED BY <3>1, <3>2
  <2>6. Delivered = Len(received)
    <3>1. EndCount \in Nat
      BY DEF EndCount
    <3> QED BY <1>a, <1>b, <2>4, <3>1
  <2>7. SourceOf' = SourceOf /\ EndOf = "none" /\ EndOf' \in {"left", "complete"}
        /\ Delivered' = Delivered
    BY <2>1, <2>2, <2>3, SourceStays DEF EndOf, Over, Delivered
  <2>8. (Promised!Leave \/ Promised!Complete) /\ Promised!End
    BY <2>1, <2>5, <2>6, <2>7, PromisedSteps
  <2> QED BY <2>8 DEF Promised!Next
<1>6. CASE Take
  <2> DEFINE head == Head(channel)
             shown == Shown(head)
             k == Len(output) + 1
  <2>1. /\ handler = "relaying" /\ taken = None /\ channel # <<>>
        /\ UNCHANGED <<received, request, complete, relay, left>>
    BY <1>6 DEF Take, relayVars
  <2>2. CASE UNCHANGED <<handler, output>>
    <3>1. SourceOf' = SourceOf /\ EndOf' = EndOf
      BY <2>1, <2>2, SourceStays, EndStays DEF Over
    <3> QED BY <2>1, <2>2, <3>1, Stutter
  <2>3. CASE head.kind \in {"error", "done"} /\ output' = Append(output, shown) /\ handler' = "returned"
    <3>1. head \in Result /\ Sent[1] = head /\ Len(Sent) >= 1 /\ Len(Sent) \in Nat
      <4>1. channel \in Seq(Result) /\ pending \in Seq(Result) /\ Sent = channel \o pending
        BY <1>0 DEF TypeOK, Sent
      <4> QED BY <2>1, <4>1
    <3>2. shown \in Shows /\ shown.n = head.n /\ shown.kind = head.kind
      BY <1>0, <3>1, ShownTypes
    <3>3. IsAt(head, k, request, Len(received)) /\ k \in Nat /\ Total >= k
      <4>1. 1 \in DOMAIN Sent /\ Taken = Len(output) /\ Total = Taken + Len(Sent)
        BY <1>0, <2>1, <3>1, SentTypes DEF Taken, Total
      <4> QED BY <1>0, <1>a, <3>1, <4>1 DEF InOrder
    <3> HIDE DEF head, shown
    <3>4. /\ k > Before(request) + Len(received) /\ head.n = 0
          /\ head.kind \in EndAt(k - Before(request) - Len(received), request)
      <4> HIDE DEF k
      <4>1. ~(k <= Before(request))
        BY <1>a, <2>3, <3>3, Places
      <4>2. ~(k > Before(request) /\ k <= Before(request) + Len(received))
        BY <1>a, <2>3, <3>3, Places
      <4>3. k > Before(request) + Len(received)
        BY <1>a, <3>3, <4>1, <4>2
      <4> QED BY <1>a, <3>3, <4>3, Places
    <3>5. Delivered = Len(received)
      BY <1>a, <1>b, <3>4
    <3>6. Delivered' = Delivered
      <4>1. Delivered' = Delivered + 0
        BY <1>0, <2>3, <3>2, <3>4, DeliveredAppend
      <4> QED BY <1>a, <3>5, <4>1
    <3>7. relay # "idle" /\ Total > Offset + Len(received)
      BY <1>0, <1>a, <2>1, <3>3, <3>4 DEF HandlerIsAhead
    <3>8. SourceOf = IF head.kind = "error" THEN "failed" ELSE "complete"
      <4>1. request.question = "oneWord" <=> head.kind # "error"
        BY <3>4 DEF EndAt
      <4> QED BY <3>7, <4>1, BehindTheChunks
    <3>9. output' # <<>> /\ Last(output').kind = head.kind
      <4>1. output' # <<>> /\ Last(output') = shown
        BY <1>a, <2>3, <3>2 DEF Last
      <4> QED BY <3>2, <4>1
    <3>10. SourceOf' = SourceOf /\ EndOf = "none"
           /\ EndOf' = IF head.kind = "error" THEN "error" ELSE IF left THEN "left" ELSE "complete"
      BY <2>1, <2>3, <3>7, <3>9, SourceStays DEF EndOf, Over
    <3>11. (Promised!Fail \/ Promised!Leave \/ Promised!Complete) /\ Promised!End
      BY <2>1, <3>5, <3>6, <3>8, <3>10, PromisedSteps
    <3> QED BY <3>11 DEF Promised!Next
  <2> QED BY <1>6, <2>2, <2>3 DEF Take, Return
<1>7. CASE Write
  <2> DEFINE k == Len(output) + 1
  <2>1. /\ taken # None /\ taken \in Shows
        /\ UNCHANGED <<received, request, complete, relay, left, handler>>
    BY <1>0, <1>7 DEF Write, relayVars, TypeOK
  <2>2. handler = "relaying"
    BY <1>0, <2>1 DEF HandlerIsAhead
  <2>3. PICK upTo \in 0 .. MaxChunks : output' = Append(output, [taken EXCEPT !.upTo = upTo])
    <3>1. taken.upTo \in 0 .. MaxChunks /\ 0 \in 0 .. MaxChunks /\ Len(received) <= MaxChunks
      BY <1>0, <2>1, ConstantsAssumption DEF Shows, Bounded
    <3> QED BY <1>7, <1>a, <3>1, ConstantsAssumption DEF Write, Torn
  <2> DEFINE last == [taken EXCEPT !.upTo = upTo]
  <2>4. last \in Shows /\ last.n = taken.n
    BY <2>1, <2>3 DEF Shows
  <2> HIDE DEF last
  <2>5. Delivered' = Delivered + (IF taken.n # 0 THEN 1 ELSE 0)
    BY <1>0, <2>3, <2>4, DeliveredAppend DEF last
  <2>6. IsAt(taken, k, request, Len(received)) /\ k \in Nat
    <3>1. Taken = k
      BY <2>1 DEF Taken
    <3> QED BY <1>0, <1>a, <2>1, <3>1 DEF InOrder
  <2>7. SourceOf' = SourceOf /\ EndOf = "none" /\ EndOf' = "none"
    BY <2>1, <2>2, SourceStays DEF EndOf, Over
  <2>8. CASE taken.n = 0
    <3>1. Delivered' = Delivered
      <4>1. Delivered \in Nat
        BY <1>a, <1>b
      <4> QED BY <2>5, <2>8, <4>1
    <3>2. <<Len(received), Delivered, SourceOf, EndOf>>' = <<Len(received), Delivered, SourceOf, EndOf>>
      BY <2>1, <2>7, <3>1
    <3> QED BY <3>2, PromisedVars
  <2>9. CASE taken.n # 0
    <3>1. k > Before(request) /\ k <= Before(request) + Len(received)
      <4> HIDE DEF k
      <4>1. ~(k <= Before(request))
        BY <1>a, <2>6, <2>9, Places
      <4>2. ~(k > Before(request) + Len(received))
        BY <1>a, <2>6, <2>9, Places
      <4> QED BY <1>a, <2>6, <4>1, <4>2
    <3>2. Delivered < Len(received)
      BY <1>a, <1>b, <3>1
    <3>3. Promised!Deliver
      BY <2>1, <2>5, <2>7, <2>9, <3>2, PromisedSteps
    <3> QED BY <3>3 DEF Promised!Next
  <2> QED BY <2>8, <2>9
<1> QED BY <1>1, <1>2, <1>3, <1>4, <1>5, <1>6, <1>7 DEF Handler

\* The relay implements AnswerStream: whatever the engine and the client do, each chunk of
\* the engine is written once and in turn, an error comes behind all that was received
\* before it, and an answer that ends without one is whole.
THEOREM ImplementsAnswerStream == Spec => DeliversAnswerStream
<1>1. Init => Promised!Init
  <2> SUFFICES ASSUME Init
               PROVE  Len(received) = 0 /\ Delivered = 0 /\ SourceOf = "open" /\ EndOf = "none"
    BY PromisedSteps
  <2>1. output = <<>> /\ received = <<>> /\ relay = "idle" /\ handler = "creating" /\ ~complete
    BY DEF Init
  <2>2. {i \in DOMAIN output : output[i].n # 0} = {}
    BY <2>1
  <2>3. Delivered = 0
    BY <2>2, FS_EmptySet DEF Delivered
  <2> QED BY <2>1, <2>3 DEF SourceOf, EndOf
<1>2. IInv /\ [Next]_vars => [Promised!Next]_(Promised!vars)
  <2> SUFFICES ASSUME IInv, [Next]_vars PROVE [Promised!Next]_(Promised!vars)
    OBVIOUS
  <2>1. CASE UNCHANGED vars
    <3>1. UNCHANGED <<received, output, request, complete, relay, handler, left>>
      BY <2>1 DEF vars, handlerVars, relayVars
    <3>2. SourceOf' = SourceOf /\ EndOf' = EndOf
      BY <3>1, SourceStays, EndStays DEF Over
    <3> QED BY <3>1, <3>2, Stutter
  <2> QED BY <2>1, RelaySimulation, HandlerSimulation DEF Next
<1> QED BY <1>1, <1>2, Invariant, PTL DEF Spec, DeliversAnswerStream, Promised!Spec

---------------------------------------------------------------------------
(* The events.                                                             *)

Columns == ChunkColumn \union {"Question"}

\* The greatest version that was given to each column.
Version ==
  [column \in Columns |-> IF column = "TokenCount" THEN tokenCount
                          ELSE IF column = "Question" THEN 1 ELSE VersionOf(column, received)]

Has(sequence, column, value) ==
  \E i \in DOMAIN sequence : sequence[i].column = column /\ sequence[i].value = value

\* The chunks whose events are written.
Recorded == IF relay = "recording" THEN Front(received) ELSE received

\* The events have what the chunks make of each column, unless its last was refused.
Kept(chunks) ==
  \A column \in StoredColumns \ refused :
    VersionOf(column, chunks) > 0 => Has(events, column, VersionOf(column, chunks))

EInv ==
  /\ relay # "idle" => events # <<>>
  /\ EventsFormScript
  /\ \A i \in DOMAIN events : events[i].value <= Version[events[i].column]
  /\ tokenCount = Count("TokenCount", Recorded)
  /\ Kept(Recorded)

LEMMA CountOfNone == ASSUME NEW part PROVE Count(part, <<>>) = 0
<1>1. {i \in DOMAIN <<>> : part \in <<>>[i]} = {}
  OBVIOUS
<1> QED BY <1>1, FS_EmptySet DEF Count

LEMMA CountFront ==
  ASSUME NEW part, NEW chunks \in Seq(Chunk), chunks # <<>>
  PROVE  /\ Front(chunks) \in Seq(Chunk) /\ Last(chunks) \in Chunk
         /\ chunks = Append(Front(chunks), Last(chunks))
         /\ Count(part, chunks)
              = Count(part, Front(chunks)) + (IF part \in Last(chunks) THEN 1 ELSE 0)
<1>1. Front(chunks) \in Seq(Chunk) /\ Last(chunks) \in Chunk
  BY DEF Front, Last
<1>2. chunks = Append(Front(chunks), Last(chunks))
  BY DEF Front, Last
<1>3. Count(part, Append(Front(chunks), Last(chunks)))
        = Count(part, Front(chunks)) + (IF part \in Last(chunks) THEN 1 ELSE 0)
  BY <1>1, CountAppend
<1> QED BY <1>1, <1>2, <1>3

LEMMA LongFront ==
  ASSUME NEW chunks \in Seq(Chunk), chunks # <<>>, Len(chunks) # 1
  PROVE  Front(chunks) # <<>>
<1>1. Len(chunks) \in Nat /\ Len(chunks) > 1
  <2>1. PICK n \in Nat : n = Len(chunks)
    OBVIOUS
  <2>2. n # 0
    BY <2>1
  <2>3. n # 1
    BY <2>1, Zenon
  <2>4. n > 1
    BY <2>2, <2>3
  <2> QED BY <2>1, <2>4
<1>2. Len(Front(chunks)) = Len(chunks) - 1
  BY <1>1 DEF Front
<1> QED BY <1>1, <1>2

LEMMA VersionTypes == ASSUME TypeOK PROVE Version \in [Columns -> Nat]
<1>1. tokenCount \in Nat
  BY ConstantsAssumption DEF TypeOK
<1>2. \A column : VersionOf(column, received) \in Nat
  BY CountTypes DEF VersionOf, TypeOK
<1> QED BY <1>1, <1>2 DEF Version

\* What is written at the end of a script, each column in its greatest version, makes a script.
LEMMA ScriptGrows ==
  ASSUME NEW s \in Seq(Event), s # <<>>, NEW version \in [Columns -> Nat],
         NEW t \in Seq({e \in Event : e.column # "Question" /\ e.value = version[e.column]}),
         \A i \in DOMAIN s : s[i].column = "Question" <=> i = 1,
         \A i, j \in DOMAIN s : i < j /\ s[i].column = s[j].column => s[i].value <= s[j].value,
         \A i \in DOMAIN s : s[i].value <= version[s[i].column]
  PROVE  /\ \A i \in DOMAIN (s \o t) : (s \o t)[i].column = "Question" <=> i = 1
         /\ \A i, j \in DOMAIN (s \o t) : i < j /\ (s \o t)[i].column = (s \o t)[j].column
                                            => (s \o t)[i].value <= (s \o t)[j].value
         /\ \A i \in DOMAIN (s \o t) : (s \o t)[i].value <= version[(s \o t)[i].column]
<1> DEFINE u == s \o t
           new == {e \in Event : e.column # "Question" /\ e.value = version[e.column]}
<1>0. \A e \in Event : e.column \in Columns /\ e.value \in Nat
  BY DEF Event, Columns
<1>1. /\ Len(s) \in Nat /\ Len(s) >= 1 /\ Len(t) \in Nat /\ DOMAIN s = 1 .. Len(s)
      /\ DOMAIN u = 1 .. Len(s) + Len(t)
      /\ \A i \in 1 .. Len(s) : u[i] = s[i] /\ s[i] \in Event
      /\ \A i \in DOMAIN u : i > Len(s) => u[i] \in new
  <2>1. t \in Seq(new)
    OBVIOUS
  <2> HIDE DEF new
  <2>2. /\ Len(s) \in Nat /\ Len(s) >= 1 /\ Len(t) \in Nat /\ DOMAIN s = 1 .. Len(s)
        /\ DOMAIN u = 1 .. Len(s) + Len(t)
        /\ \A i \in 1 .. Len(s) : u[i] = s[i] /\ s[i] \in Event
    BY <2>1
  <2>3. ASSUME NEW i \in DOMAIN u, i > Len(s) PROVE u[i] \in new
    <3>1. i - Len(s) \in 1 .. Len(t) /\ u[i] = t[i - Len(s)]
      BY <2>1, <2>2, <2>3
    <3> QED BY <2>1, <3>1
  <2> QED BY <2>2, <2>3
<1> HIDE DEF u
<1>2. ASSUME NEW i \in DOMAIN u PROVE u[i].column = "Question" <=> i = 1
  <2>1. CASE i \in 1 .. Len(s)
    BY <1>1, <2>1
  <2>2. CASE i \notin 1 .. Len(s)
    <3>1. i > Len(s) /\ i # 1
      BY <1>1, <2>2
    <3> QED BY <1>1, <3>1
  <2> QED BY <2>1, <2>2
<1>3. ASSUME NEW i \in DOMAIN u PROVE u[i] \in Event /\ u[i].value <= version[u[i].column]
  <2>1. CASE i \in 1 .. Len(s)
    BY <1>1, <2>1
  <2>2. CASE i \notin 1 .. Len(s)
    <3>1. u[i] \in Event /\ u[i].value = version[u[i].column]
      <4>1. i > Len(s)
        BY <1>1, <2>2
      <4> QED BY <1>1, <4>1
    <3>2. u[i].value \in Nat
      BY <1>0, <3>1
    <3> QED BY <3>1, <3>2
  <2> QED BY <2>1, <2>2
<1>4. ASSUME NEW i \in DOMAIN u, NEW j \in DOMAIN u, i < j, u[i].column = u[j].column
      PROVE  u[i].value <= u[j].value
  <2>1. CASE j \in 1 .. Len(s)
    <3>1. i \in 1 .. Len(s)
      BY <1>1, <1>4, <2>1
    <3> QED BY <1>1, <1>4, <2>1, <3>1
  <2>2. CASE j \notin 1 .. Len(s)
    <3>1. j > Len(s)
      BY <1>1, <2>2
    <3>2. u[j].value = version[u[j].column]
      BY <1>1, <3>1
    <3> QED BY <1>3, <1>4, <3>2
  <2> QED BY <2>1, <2>2
<1> QED BY <1>2, <1>3, <1>4 DEF u

\* What a sequence has, a longer one has.
LEMMA HasConcat ==
  ASSUME NEW s \in Seq(Event), NEW t \in Seq(Event), NEW column, NEW value,
         Has(s, column, value) \/ Has(t, column, value)
  PROVE  Has(s \o t, column, value)
<1>1. CASE Has(s, column, value)
  <2>1. PICK i \in DOMAIN s : s[i].column = column /\ s[i].value = value
    BY <1>1 DEF Has
  <2>2. i \in DOMAIN (s \o t) /\ (s \o t)[i] = s[i]
    OBVIOUS
  <2> QED BY <2>1, <2>2 DEF Has
<1>2. CASE Has(t, column, value)
  <2>1. PICK i \in DOMAIN t : t[i].column = column /\ t[i].value = value
    BY <1>2 DEF Has
  <2>2. Len(s) + i \in DOMAIN (s \o t) /\ (s \o t)[Len(s) + i] = t[i]
    OBVIOUS
  <2> QED BY <2>1, <2>2 DEF Has
<1> QED BY <1>1, <1>2

LEMMA StoredIs ==
  ASSUME TypeOK, NEW column, NEW c \in Nat,
         \A i \in DOMAIN events : events[i].column = column => events[i].value <= c,
         c = 0 \/ Has(events, column, c)
  PROVE  Stored(column) = c
<1> DEFINE values == {events[i].value : i \in {j \in DOMAIN events : events[j].column = column}}
           greatest == CHOOSE v \in values : \A w \in values : w <= v
<1>1. \A v \in values : v \in Nat /\ v <= c
  <2>1. events \in Seq(Event)
    BY DEF TypeOK
  <2>2. \A i \in DOMAIN events : events[i] \in Event
    BY <2>1
  <2>3. \A i \in DOMAIN events : events[i].value \in Nat
    BY <2>2 DEF Event
  <2> QED BY <2>3
<1>2. CASE values = {}
  <2>1. ~Has(events, column, c)
    BY <1>2 DEF Has
  <2> QED BY <1>2, <2>1 DEF Stored
<1>3. CASE values # {}
  <2>1. c \in values
    <3>1. CASE Has(events, column, c)
      BY <3>1 DEF Has
    <3>2. CASE c = 0
      <4>1. PICK v \in values : TRUE
        BY <1>3
      <4> HIDE DEF values
      <4>2. v = c
        BY <1>1, <3>2, <4>1
      <4> QED BY <4>1, <4>2
    <3> QED BY <3>1, <3>2
  <2> HIDE DEF values
  <2>2. greatest \in values /\ \A w \in values : w <= greatest
    BY <1>1, <2>1
  <2>3. greatest = c
    <3> HIDE DEF greatest
    <3> QED BY <1>1, <2>1, <2>2
  <2> QED BY <1>3, <2>3 DEF Stored, values
<1> QED BY <1>2, <1>3

\* Every event of a chunk has the greatest version of its column.
LEMMA EventsAreCurrent ==
  ASSUME TypeOK, NEW tokens \in Nat, NEW accepted, NEW version \in [Columns -> Nat],
         version["TokenCount"] = tokens, version["FileReferences"] = 1,
         \A part \in Part \ {"TokenCount"} : version[part] = Merged(part)
  PROVE  ChunkEvents(tokens, accepted)
           \in Seq({e \in Event : e.column # "Question" /\ e.value = version[e.column]})
<1> DEFINE new == {e \in Event : e.column # "Question" /\ e.value = version[e.column]}
<1>1. ASSUME NEW column \in ChunkColumn PROVE EventOf(column, version[column], accepted) \in Seq(new)
  <2> DEFINE e == [column |-> column, value |-> version[column]]
  <2>1. column # "Question" /\ version[column] \in Nat
    BY DEF ChunkColumn, Columns, Part
  <2>2. e \in new
    BY <2>1 DEF Event
  <2> HIDE DEF e, new
  <2>3. <<e>> \in Seq(new) /\ <<>> \in Seq(new)
    BY <2>2
  <2> QED BY <2>3 DEF EventOf, e
<1>2. /\ "TokenCount" \in ChunkColumn /\ "FileReferences" \in ChunkColumn
      /\ \A part \in Part : part \in ChunkColumn
  BY DEF ChunkColumn, Part
<1> HIDE DEF new
<1>3. /\ EventOf("TokenCount", tokens, accepted) \in Seq(new)
      /\ EventOf("FileReferences", 1, accepted) \in Seq(new)
      /\ \A part \in Part \ {"TokenCount"} : EventOf(part, Merged(part), accepted) \in Seq(new)
  BY <1>1, <1>2
<1>4. /\ EventOf("Answer", Merged("Answer"), accepted) \in Seq(new)
      /\ EventOf("References", Merged("References"), accepted) \in Seq(new)
      /\ EventOf("Keywords", Merged("Keywords"), accepted) \in Seq(new)
      /\ EventOf("RelatedQueries", Merged("RelatedQueries"), accepted) \in Seq(new)
  BY <1>3 DEF Part
<1>5. ChunkEvents(tokens, accepted) \in Seq(new)
  BY <1>3, <1>4 DEF ChunkEvents
<1> QED BY <1>5 DEF new

\* What the writer accepts is in the events of the chunk.
LEMMA AcceptedIsWritten ==
  ASSUME TypeOK, NEW tokens \in Nat, NEW accepted, NEW column \in accepted \cap ChunkColumn
  PROVE  Has(ChunkEvents(tokens, accepted), column,
             IF column = "TokenCount" THEN tokens
             ELSE IF column = "FileReferences" THEN 1 ELSE Merged(column))
<1> DEFINE of(c, value) == EventOf(c, value, accepted)
           s1 == of("TokenCount", tokens)
           s2 == of("Answer", Merged("Answer"))
           s3 == of("FileReferences", 1)
           s4 == of("References", Merged("References"))
           s5 == of("Keywords", Merged("Keywords"))
           s6 == of("RelatedQueries", Merged("RelatedQueries"))
           value == IF column = "TokenCount" THEN tokens
                    ELSE IF column = "FileReferences" THEN 1 ELSE Merged(column)
<1>1. ASSUME NEW c \in ChunkColumn, NEW v \in Nat
      PROVE  of(c, v) \in Seq(Event) /\ (c \in accepted => Has(of(c, v), c, v))
  <2> DEFINE e == [column |-> c, value |-> v]
  <2>1. e \in Event /\ e.column = c /\ e.value = v
    BY DEF Event
  <2> HIDE DEF e
  <2>2. <<e>> \in Seq(Event) /\ <<>> \in Seq(Event) /\ 1 \in DOMAIN <<e>> /\ <<e>>[1] = e
    BY <2>1
  <2>3. of(c, v) = IF c \in accepted THEN <<e>> ELSE <<>>
    BY DEF EventOf, e
  <2> HIDE DEF of
  <2> QED BY <2>1, <2>2, <2>3 DEF Has
<1>2. \A c \in Part : c \in ChunkColumn /\ Merged(c) \in Nat
  BY CountTypes DEF Merged, TypeOK, ChunkColumn
<1>3. /\ s1 \in Seq(Event) /\ s3 \in Seq(Event)
      /\ (column = "TokenCount" => Has(s1, column, value))
      /\ (column = "FileReferences" => Has(s3, column, value))
  <2>1. "TokenCount" \in ChunkColumn /\ "FileReferences" \in ChunkColumn
    BY DEF ChunkColumn, Part
  <2> HIDE DEF of
  <2> QED BY <1>1, <2>1
<1>4. /\ s2 \in Seq(Event) /\ s4 \in Seq(Event) /\ s5 \in Seq(Event) /\ s6 \in Seq(Event)
      /\ (column = "Answer" => Has(s2, column, value))
      /\ (column = "References" => Has(s4, column, value))
      /\ (column = "Keywords" => Has(s5, column, value))
      /\ (column = "RelatedQueries" => Has(s6, column, value))
  <2>1. \A c \in Part : of(c, Merged(c)) \in Seq(Event)
                       /\ (c \in accepted => Has(of(c, Merged(c)), c, Merged(c)))
    BY <1>1, <1>2
  <2> HIDE DEF of
  <2> QED BY <2>1 DEF Part
<1>5. \/ column = "TokenCount" \/ column = "Answer" \/ column = "FileReferences"
      \/ column = "References" \/ column = "Keywords" \/ column = "RelatedQueries"
  BY DEF ChunkColumn, Part
<1>6. ChunkEvents(tokens, accepted) = s1 \o s2 \o s3 \o s4 \o s5 \o s6
  BY DEF ChunkEvents
<1> HIDE DEF s1, s2, s3, s4, s5, s6, value
<1> DEFINE t2 == s1 \o s2
           t3 == t2 \o s3
           t4 == t3 \o s4
           t5 == t4 \o s5
<1>7. t2 \in Seq(Event) /\ (column \in {"TokenCount", "Answer"} => Has(t2, column, value))
  BY <1>3, <1>4, HasConcat
<1> HIDE DEF t2
<1>8. t3 \in Seq(Event)
      /\ (column \in {"TokenCount", "Answer", "FileReferences"} => Has(t3, column, value))
  BY <1>3, <1>7, HasConcat
<1> HIDE DEF t3
<1>9. /\ t4 \in Seq(Event)
      /\ column \in {"TokenCount", "Answer", "FileReferences", "References"}
           => Has(t4, column, value)
  BY <1>4, <1>8, HasConcat
<1> HIDE DEF t4
<1>10. /\ t5 \in Seq(Event)
       /\ column \in {"TokenCount", "Answer", "FileReferences", "References", "Keywords"}
            => Has(t5, column, value)
  BY <1>4, <1>9, HasConcat
<1> HIDE DEF t5
<1>11. Has(t5 \o s6, column, value)
  BY <1>4, <1>5, <1>10, HasConcat
<1> QED BY <1>6, <1>11 DEF t2, t3, t4, t5, value

LEMMA EventsUnchanged ==
  ASSUME EInv, UNCHANGED <<request, events, refused, received, tokenCount>>,
         relay' # "idle" => relay # "idle", relay = "recording" <=> relay' = "recording"
  PROVE  EInv'
<1>1. /\ Version' = Version /\ StoredColumns' = StoredColumns /\ Recorded' = Recorded
      /\ EventsFormScript'
  BY DEF Version, Merged, StoredColumns, Recorded, EInv, EventsFormScript
<1>2. Kept(Recorded)'
  BY <1>1 DEF EInv, Kept
<1> QED BY <1>1, <1>2 DEF EInv

\* What is recorded of a chunk.
LEMMA RecordEvents ==
  ASSUME IInv, EInv, Record
  PROVE  EInv'
<1>0. /\ TypeOK /\ received \in Seq(Chunk) /\ received # <<>> /\ relay = "recording"
      /\ relay' = "looping" /\ UNCHANGED <<request, ctxDone, received>>
      /\ Recorded = Front(received) /\ Recorded' = received
  BY DEF IInv, TypeOK, Bounded, Record, At, Recorded
<1> DEFINE tokens == tokenCount'
<1>1. \A part : Count(part, received) = Count(part, Front(received))
                                          + (IF part \in Last(received) THEN 1 ELSE 0)
  BY <1>0, CountFront
<1>2. \A part : Count(part, received) \in Nat /\ Count(part, Front(received)) \in Nat
  BY <1>0, CountTypes, CountFront
<1>3. tokens = Count("TokenCount", received) /\ tokens \in Nat /\ tokenCount <= tokens
  <2>1. tokenCount = Count("TokenCount", Front(received))
    BY <1>0 DEF EInv
  <2>2. tokens = tokenCount + (IF "TokenCount" \in Last(received) THEN 1 ELSE 0)
    BY DEF Record, Usage
  <2> QED BY <1>1, <1>2, <2>1, <2>2
<1>4. PICK accepted \in SUBSET Due :
          /\ events' = events \o ChunkEvents(tokens, accepted)
          /\ refused' = (refused \ accepted) \union (Due \ accepted)
  BY DEF Record, WriteEvents
<1> DEFINE t == ChunkEvents(tokens, accepted)
<1>5. /\ Version' \in [Columns -> Nat] /\ Version'["TokenCount"] = tokens
      /\ Version'["FileReferences"] = 1
      /\ \A part \in Part \ {"TokenCount"} : Version'[part] = Merged(part)
      /\ \A column \in Columns : Version[column] <= Version'[column]
  <2>1. Version' = [column \in Columns |-> IF column = "TokenCount" THEN tokens
                        ELSE IF column = "Question" THEN 1 ELSE VersionOf(column, received)]
    BY <1>0 DEF Version
  <2>2. /\ \A column : VersionOf(column, received) \in Nat
        /\ VersionOf("FileReferences", received) = 1
        /\ \A part \in Part : VersionOf(part, received) = Merged(part)
    BY <1>0, <1>2 DEF VersionOf, Merged, Part
  <2>3. tokenCount \in Nat
    BY <1>0, ConstantsAssumption DEF TypeOK
  <2> QED BY <1>3, <2>1, <2>2, <2>3 DEF Version, Columns, ChunkColumn, Part
<1>6. t \in Seq({e \in Event : e.column # "Question" /\ e.value = Version'[e.column]})
  BY <1>0, <1>3, <1>5, EventsAreCurrent
<1>7. events \in Seq(Event) /\ events # <<>> /\ t \in Seq(Event)
  <2>1. events \in Seq(Event) /\ events # <<>>
    BY <1>0 DEF EInv, TypeOK
  <2> QED BY <1>0, <1>3, <2>1, EventTypes
<1>8. \A i \in DOMAIN events : events[i].value <= Version'[events[i].column]
  <2> SUFFICES ASSUME NEW i \in DOMAIN events PROVE events[i].value <= Version'[events[i].column]
    OBVIOUS
  <2>1. events[i] \in Event
    BY <1>7
  <2>2. events[i].column \in Columns /\ events[i].value \in Nat
    BY <2>1 DEF Event, Columns
  <2>3. Version \in [Columns -> Nat] /\ events[i].value <= Version[events[i].column]
    BY <1>0, VersionTypes DEF EInv
  <2>4. /\ Version[events[i].column] \in Nat /\ Version'[events[i].column] \in Nat
        /\ Version[events[i].column] <= Version'[events[i].column]
    BY <1>5, <2>2, <2>3
  <2> QED BY <2>2, <2>3, <2>4
<1> HIDE DEF t, tokens
<1>9. EventsFormScript' /\ \A i \in DOMAIN (events') : events'[i].value <= Version'[events'[i].column]
  <2>1. /\ \A i \in DOMAIN events : events[i].column = "Question" <=> i = 1
        /\ \A i, j \in DOMAIN events :
             i < j /\ events[i].column = events[j].column => events[i].value <= events[j].value
    BY DEF EInv, EventsFormScript
  <2> DEFINE version == Version'
  <2>2. /\ version \in [Columns -> Nat]
        /\ t \in Seq({e \in Event : e.column # "Question" /\ e.value = version[e.column]})
        /\ \A i \in DOMAIN events : events[i].value <= version[events[i].column]
    BY <1>5, <1>6, <1>8
  <2> HIDE DEF version
  <2>3. /\ \A i \in DOMAIN (events \o t) : (events \o t)[i].column = "Question" <=> i = 1
        /\ \A i, j \in DOMAIN (events \o t) :
             i < j /\ (events \o t)[i].column = (events \o t)[j].column
               => (events \o t)[i].value <= (events \o t)[j].value
        /\ \A i \in DOMAIN (events \o t) : (events \o t)[i].value <= version[(events \o t)[i].column]
    BY <1>7, <2>1, <2>2, ScriptGrows
  <2>4. events' = events \o t
    BY <1>4 DEF t, tokens
  <2> QED BY <2>3, <2>4 DEF EventsFormScript, version
<1>10. Kept(received)'
  <2> SUFFICES ASSUME NEW column \in StoredColumns' \ refused', VersionOf(column, received) > 0
               PROVE  Has(events', column, VersionOf(column, received))
    BY <1>0 DEF Kept
  <2>0. /\ column \in StoredColumns /\ column \in ChunkColumn
        /\ events' = events \o t
        /\ column \in accepted \/ (column \notin Due /\ column \notin refused)
    <3>1. StoredColumns' = StoredColumns /\ StoredColumns \subseteq ChunkColumn
      BY <1>0 DEF StoredColumns, ChunkColumn, Part
    <3> QED BY <1>4, <3>1 DEF t, tokens
  <2>1. CASE column \in accepted
    <3>1. VersionOf(column, received) = IF column = "TokenCount" THEN tokens
            ELSE IF column = "FileReferences" THEN 1 ELSE Merged(column)
      BY <1>0, <1>3 DEF VersionOf, Merged
    <3>2. Has(t, column, VersionOf(column, received))
      BY <1>0, <1>3, <2>0, <2>1, <3>1, AcceptedIsWritten DEF t, tokens
    <3> QED BY <1>7, <2>0, <3>2, HasConcat
  <2>2. CASE column \notin accepted
    <3>1. column = "FileReferences" /\ Len(received) # 1
      <4>1. VersionOf(column, received) = Merged(column) \/ column = "FileReferences"
        BY DEF VersionOf, Merged
      <4> QED BY <2>0, <2>2, <4>1 DEF Due
    <3>2. Front(received) # <<>>
      BY <1>0, <3>1, LongFront
    <3>3. VersionOf(column, received) = 1 /\ VersionOf(column, Front(received)) = 1
      BY <1>0, <3>1, <3>2 DEF VersionOf
    <3>4. Has(events, column, 1)
      BY <1>0, <2>0, <2>2, <3>3 DEF EInv, Kept
    <3> QED BY <1>7, <2>0, <3>3, <3>4, HasConcat
  <2> QED BY <2>1, <2>2
<1>11. events' # <<>>
  <2>1. events' = events \o t
    BY <1>4 DEF t, tokens
  <2> QED BY <1>7, <2>1
<1>12. Kept(Recorded)' /\ tokenCount' = Count("TokenCount", Recorded')
  BY <1>0, <1>3, <1>10 DEF tokens, Kept
<1> QED BY <1>9, <1>11, <1>12 DEF EInv

LEMMA EventSteps ==
  ASSUME IInv, EInv, [Next]_vars
  PROVE  EInv'
<1>0. /\ TypeOK /\ StreamOnly /\ HandlerIsAhead /\ received \in Seq(Chunk)
      /\ relay \in {"idle", "started", "connecting"} => received = <<>>
  BY DEF IInv, TypeOK, StreamOnly
<1>1. CASE CreateCompletion
  <2> DEFINE q == [column |-> "Question", value |-> 1]
  <2>1. /\ relay = "idle" /\ received = <<>> /\ relay' = "started" /\ events' = <<q>>
        /\ UNCHANGED <<received, tokenCount>>
    BY <1>0, <1>1 DEF CreateCompletion, HandlerIsAhead
  <2>2. tokenCount = 0
    BY <2>1, CountOfNone DEF EInv, Recorded
  <2>3. \A part : Count(part, received') = 0
    BY <2>1, CountOfNone
  <2>4. Recorded = <<>> /\ Recorded' = <<>> /\ Kept(Recorded)'
    <3>1. Recorded = <<>> /\ Recorded' = <<>>
      BY <2>1 DEF Recorded
    <3>2. \A column : VersionOf(column, <<>>) = 0
      BY CountOfNone DEF VersionOf
    <3> QED BY <3>1, <3>2 DEF Kept
  <2>5. DOMAIN (events') = {1} /\ events'[1] = q /\ events' # <<>>
    BY <2>1
  <2>6. Version'["Question"] = 1
    BY DEF Version, Columns, Part
  <2>7. EventsFormScript' /\ \A i \in DOMAIN (events') : events'[i].value <= Version'[events'[i].column]
    BY <2>5, <2>6 DEF EventsFormScript
  <2> QED BY <2>1, <2>2, <2>3, <2>4, <2>5, <2>7 DEF EInv
<1>2. CASE \/ CreateFails \/ Take \/ Write \/ ChannelClosed \/ ContextDone \/ ClientLeaves
           \/ UNCHANGED vars
  <2>1. UNCHANGED <<request, events, refused, received, tokenCount, relay>>
    BY <1>2 DEF CreateFails, Take, Write, ChannelClosed, ContextDone, ClientLeaves, Return, vars,
                relayVars, handlerVars
  <2> QED BY <2>1, EventsUnchanged
<1>3. CASE Send \/ Start \/ Connect \/ CheckContext \/ ReceiveDone \/ ReceiveError \/ Close
  <2>1. /\ UNCHANGED <<request, events, refused, received, tokenCount>>
        /\ relay' # "idle" => relay # "idle"
        /\ relay = "recording" <=> relay' = "recording"
    BY <1>0, <1>3 DEF Send, Start, Connect, CheckContext, ReceiveDone, ReceiveError, Close, At,
                      Finish, TypeOK, Request
  <2> QED BY <2>1, EventsUnchanged
<1>4. CASE ReceiveChunk
  <2>1. PICK chunk \in Chunk : received' = Append(received, chunk)
    BY <1>4 DEF ReceiveChunk
  <2>2. /\ relay = "receiving" /\ relay' = "recording"
        /\ UNCHANGED <<request, events, refused, tokenCount>>
    BY <1>4 DEF ReceiveChunk, At
  <2>3. Front(received') = received /\ received' # <<>>
    BY <1>0, <2>1 DEF Front
  <2>4. StoredColumns' = StoredColumns /\ Recorded = received /\ Recorded' = received
    BY <2>2, <2>3 DEF StoredColumns, Recorded
  <2>5. Kept(Recorded)' /\ tokenCount' = Count("TokenCount", Recorded')
    BY <2>2, <2>4 DEF EInv, Kept
  <2>6. \A column \in Columns : Version[column] \in Nat /\ Version'[column] \in Nat
                                /\ Version[column] <= Version'[column]
    <3>1. \A column : /\ VersionOf(column, received) \in Nat
                      /\ VersionOf(column, received') \in Nat
                      /\ VersionOf(column, received) <= VersionOf(column, received')
      <4>1. \A part : /\ Count(part, received) \in Nat
                      /\ Count(part, received') = Count(part, received)
                                                    + (IF part \in chunk THEN 1 ELSE 0)
        BY <1>0, <2>1, CountTypes, CountAppend
      <4> QED BY <2>3, <4>1 DEF VersionOf
    <3>2. tokenCount \in Nat
      BY <1>0, ConstantsAssumption DEF TypeOK
    <3> QED BY <2>2, <3>1, <3>2 DEF Version
  <2>7. \A i \in DOMAIN events : events[i].value <= Version'[events[i].column]
    <3> SUFFICES ASSUME NEW i \in DOMAIN events PROVE events[i].value <= Version'[events[i].column]
      OBVIOUS
    <3>1. events[i] \in Event
      BY <1>0 DEF TypeOK
    <3>2. events[i].column \in Columns /\ events[i].value \in Nat
      BY <3>1 DEF Event, Columns
    <3>3. events[i].value <= Version[events[i].column]
      BY DEF EInv
    <3> QED BY <2>6, <3>2, <3>3
  <2>8. EventsFormScript' /\ events' # <<>>
    BY <2>2 DEF EInv, EventsFormScript
  <2> QED BY <2>2, <2>5, <2>7, <2>8 DEF EInv
<1>5. CASE Record
  BY <1>5, RecordEvents
<1> QED BY <1>1, <1>2, <1>3, <1>4, <1>5 DEF Next, Handler, Relay

LEMMA InitEvents == Init => EInv
<1> SUFFICES ASSUME Init PROVE EInv
  OBVIOUS
<1>1. relay = "idle" /\ events = <<>> /\ received = <<>> /\ tokenCount = 0 /\ Recorded = <<>>
  BY DEF Init, Recorded
<1>2. \A column : Count(column, <<>>) = 0 /\ VersionOf(column, <<>>) = 0
  BY CountOfNone DEF VersionOf
<1> QED BY <1>1, <1>2 DEF EInv, EventsFormScript, Kept

\* What is stored is what was written.
LEMMA KeptIsStored ==
  ASSUME IInv, EInv
  PROVE  PartialAnswerIsStored
<1> SUFFICES ASSUME relay \in {"looping", "receiving", "closing", "exited"},
                    NEW column \in StoredColumns \ refused
             PROVE  Stored(column) = VersionOf(column, received)
  BY DEF PartialAnswerIsStored
<1> DEFINE all == VersionOf(column, received)
<1>0. TypeOK /\ received \in Seq(Chunk) /\ Recorded = received
  BY DEF IInv, TypeOK, Recorded
<1>1. column \in Columns /\ (column = "FileReferences" \/ column \in Part)
  BY DEF StoredColumns, Columns, ChunkColumn, Part
<1>2. all \in Nat
  BY <1>0, CountTypes DEF VersionOf
<1>3. Kept(received)
  BY <1>0 DEF EInv
<1>4. all = 0 \/ Has(events, column, all)
  <2>1. all > 0 => Has(events, column, all)
    BY <1>3 DEF Kept
  <2> HIDE DEF all
  <2> QED BY <1>2, <2>1
<1>5. ASSUME NEW i \in DOMAIN events, events[i].column = column PROVE events[i].value <= all
  <2>1. events[i].value <= Version[column]
    BY <1>5 DEF EInv
  <2>2. Version[column] = all
    BY <1>0, <1>1 DEF EInv, Version, VersionOf, Part
  <2> QED BY <2>1, <2>2
<1> HIDE DEF all
<1>6. Stored(column) = all
  BY <1>0, <1>2, <1>4, <1>5, StoredIs
<1> QED BY <1>6 DEF all

\* Whatever happens to a request, its events are a script as EventConsumer assumes it, and
\* every column whose last event was not refused holds the answer as far as it was received.
THEOREM StoredAsReceivedHolds == Spec => []StoredAsReceived
<1>1. IInv /\ EInv => StoredAsReceived
  BY KeptIsStored DEF EInv, StoredAsReceived
<1> QED BY <1>1, InitEvents, EventSteps, Invariant, PTL DEF Spec
=============================================================================
