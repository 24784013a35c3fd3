------------------------ MODULE EventConsumer_proofs ------------------------
(***************************************************************************)
(* Proofs about EventConsumer, for any QAs, partitions, scripts, batch     *)
(* size and faults: types and offsets; that the columns of a row are those *)
(* of events of its QA; that a vote stays; that nothing is skipped without *)
(* a fault; and, with one partition, which is what docker-compose.yml      *)
(* makes, that committed events are accounted for and columns grow.        *)
(*                                                                         *)
(* A row is made of queries, which are made of messages: TracedInv follows *)
(* its columns back to the log. OnceInv says why no row is created twice   *)
(* while nothing is redelivered: the question of a QA is in the topic      *)
(* once, a batch has only what is not committed, and the question of a row *)
(* that exists is committed or behind the worker.                          *)
(*                                                                         *)
(* Given answers without references to files, restarts, failed commits,    *)
(* failed statements and batches that the writer stores twice lose nothing *)
(* silently: an event every copy of which is behind the committed offset   *)
(* is in its QA's row, unless the QA was deleted or one of its queries was *)
(* logged and skipped (CommittedAccounted). The copy that counts is the    *)
(* last one: its batch writes a version of the column that is no older, as *)
(* no copy of an older event that is not behind it too can follow          *)
(* (InvOrdered). A retry stores the end of the log again, so what it puts  *)
(* behind an event is undelivered with the event itself (Again). While     *)
(* nothing is redelivered and no batch is stored twice, the columns of a   *)
(* row never go back (ColumnsGrow): they come from messages the worker has *)
(* done with, those of a pending query from later ones (ColumnInv).        *)
(***************************************************************************)
EXTENDS EventConsumer, WellFoundedInduction, TLAPS

(***************************************************************************)
(* A non-empty set of indexes has a greatest element: the offset committed *)
(* for a partition is well defined.                                        *)
(***************************************************************************)
LessThan == {s \in Nat \X Nat : s[1] < s[2]}

\* Less-than on the naturals is well founded.
LEMMA LessThanWellFounded == IsWellFoundedOn(LessThan, Nat)
  BY NatLessThanWellFounded DEF OpToRel, LessThan

\* Every non-empty subset of 1..n has a maximum.
LEMMA MaxExists ==
  ASSUME NEW n \in Nat, NEW S \in SUBSET (1 .. n), S # {}
  PROVE  \E i \in S : \A j \in S : j <= i
<1> DEFINE T == {n - i : i \in S}
<1>1. \A i \in S : n - i \in Nat
  OBVIOUS
<1>2. T \subseteq Nat
  BY <1>1
<1>3. T # {}
  BY Zenon
<1>4. PICK x \in T : \A y \in T : ~ (<<y, x>> \in LessThan)
  BY <1>2, <1>3, LessThanWellFounded, WFMin
<1>5. PICK i \in S : x = n - i
  OBVIOUS
<1>6. \A j \in S : ~ (n - j < n - i)
  BY <1>1, <1>4, <1>5 DEF LessThan
<1> QED
  BY <1>6

---------------------------------------------------------------------------
(* Types.                                                                  *)

TypeInv == TypeOK /\ InBounds

\* A message of the log names an event its QA's script has.
LEMMA MessageContent ==
  ASSUME TypeInv, NEW p \in Partition, NEW i \in DOMAIN log[p]
  PROVE  /\ log[p][i] \in MessageSet
         /\ log[p][i].n \in DOMAIN Script[log[p][i].qa]
         /\ Content(log[p][i]) \in ScriptEvent
<1>1. log[p] \in Seq(MessageSet)
  BY DEF TypeInv, TypeOK
<1>2. log[p][i] \in MessageSet
  BY <1>1
<1>3. log[p][i].qa \in QA /\ log[p][i].n \in Nat \ {0}
  BY <1>2 DEF MessageSet
<1>4. Script[log[p][i].qa] \in Seq(ScriptEvent)
  BY <1>3, ScriptAssumption
<1>5. log[p][i].n <= Len(Script[log[p][i].qa])
  BY <1>3, <1>4 DEF TypeInv, TypeOK, InBounds
<1>6. log[p][i].n \in DOMAIN Script[log[p][i].qa]
  BY <1>3, <1>4, <1>5
<1>7. Content(log[p][i]) \in ScriptEvent
  BY <1>4, <1>6 DEF Content
<1> QED
  BY <1>2, <1>6, <1>7

\* A message of the batch is one.
LEMMA BatchMessage ==
  ASSUME TypeInv, NEW i \in DOMAIN batch
  PROVE  /\ batch[i][1] \in Partition
         /\ batch[i][2] \in DOMAIN log[batch[i][1]]
         /\ Message(batch[i]) \in MessageSet
         /\ Content(Message(batch[i])) \in ScriptEvent
<1>1. batch[i] \in Partition \X (Nat \ {0})
  BY DEF TypeInv, TypeOK
<1>2. batch[i][1] \in Partition /\ batch[i][2] \in Nat \ {0}
  BY <1>1
<1>3. log[batch[i][1]] \in Seq(MessageSet)
  BY <1>2 DEF TypeInv, TypeOK
<1>4. batch[i][2] <= Len(log[batch[i][1]])
  BY DEF TypeInv, InBounds
<1>5. batch[i][2] \in DOMAIN log[batch[i][1]]
  BY <1>2, <1>3, <1>4
<1> QED
  BY <1>2, <1>5, MessageContent DEF Message

\* Converting and merging queries gives queries, and rows stay rows.
LEMMA ConvertType ==
  ASSUME NEW e, Content(e) \in ScriptEvent
  PROVE  ConvertEvent(e) \in Query
  BY DEF ConvertEvent, Query, Blank, ScriptEvent

LEMMA MergeType ==
  ASSUME NEW query \in Query, NEW pending \in Query \union {None}
  PROVE  MergeQuery(query, pending) \in Query
  BY NoneAssumption DEF MergeQuery, MergeQA, Query

LEMMA RowTypes ==
  ASSUME NEW query \in Query
  PROVE  /\ NewRow(query) \in Row
         /\ \A row \in Row : UpdateRow(row, query) \in Row
  BY DEF NewRow, UpdateRow, Query, Row, Vote

\* The offset committed for a partition is one of the partition.
LEMMA CommitOffsetType ==
  ASSUME TypeInv, NEW p \in Partition
  PROVE  CommitOffset(p) \in Nat /\ CommitOffset(p) <= Len(log[p])
<1> DEFINE read == {batch[i][2] : i \in {j \in DOMAIN batch : batch[j][1] = p}}
<1>1. CASE read = {}
  BY <1>1 DEF CommitOffset, TypeInv, TypeOK, InBounds
<1>2. CASE read # {}
  <2>1. log[p] \in Seq(MessageSet)
    BY DEF TypeInv, TypeOK
  <2>2. Len(log[p]) \in Nat /\ DOMAIN log[p] = 1 .. Len(log[p])
    BY <2>1
  <2>3. read \in SUBSET (1 .. Len(log[p]))
    BY <2>2, BatchMessage
  <2>4. \E k \in read : \A j \in read : j <= k
    BY <1>2, <2>2, <2>3, MaxExists
  <2>5. CommitOffset(p) = CHOOSE k \in read : \A j \in read : j <= k
    BY <1>2 DEF CommitOffset
  <2>6. CommitOffset(p) \in read
    BY <2>4, <2>5
  <2> QED
    BY <2>2, <2>3, <2>6
<1> QED
  BY <1>1, <1>2

\* If the batch has messages of the partition, it is the greatest of their offsets.
LEMMA CommitOffsetIs ==
  ASSUME TypeInv, NEW p \in Partition
  PROVE  /\ \/ CommitOffset(p) = committed[p] /\ \A b \in DOMAIN batch : batch[b][1] # p
            \/ \E b \in DOMAIN batch : batch[b][1] = p /\ CommitOffset(p) = batch[b][2]
         /\ \A b \in DOMAIN batch : batch[b][1] = p => batch[b][2] <= CommitOffset(p)
<1> DEFINE read == {batch[i][2] : i \in {j \in DOMAIN batch : batch[j][1] = p}}
<1>1. CASE read = {}
  BY <1>1 DEF CommitOffset
<1>2. CASE read # {}
  <2>1. log[p] \in Seq(MessageSet)
    BY DEF TypeInv, TypeOK
  <2>2. Len(log[p]) \in Nat /\ DOMAIN log[p] = 1 .. Len(log[p])
    BY <2>1
  <2>3. read \in SUBSET (1 .. Len(log[p]))
    BY <2>2, BatchMessage
  <2>4. \E k \in read : \A j \in read : j <= k
    BY <1>2, <2>2, <2>3, MaxExists
  <2>5. CommitOffset(p) = CHOOSE k \in read : \A j \in read : j <= k
    BY <1>2 DEF CommitOffset
  <2>6. CommitOffset(p) \in read /\ \A j \in read : j <= CommitOffset(p)
    BY <2>4, <2>5
  <2> QED
    BY <2>6
<1> QED
  BY <1>1, <1>2

LEMMA InitTypeInv == Init => TypeInv
<1> SUFFICES ASSUME Init PROVE TypeInv
  OBVIOUS
<1>1. TypeOK
  BY ConstantsAssumption, NoneAssumption DEF Init, TypeOK
<1>2. \A q \in QA : Len(Script[q]) \in Nat
  BY ScriptAssumption
<1>3. InBounds
  BY <1>2 DEF Init, InBounds
<1> QED
  BY <1>1, <1>3 DEF TypeInv

\* One more fault keeps the history within its bound.
LEMMA FaultTypes ==
  ASSUME TypeOK, NEW kind, HasFault(kind)
  PROVE  faults' \in Seq(FaultKind) /\ Len(faults') <= MaxFaults
  BY ConstantsAssumption DEF HasFault, TypeOK

\* A batch that is stored twice repeats the end of its partition.
LEMMA RetriedLog ==
  ASSUME log \in [Partition -> Seq(MessageSet)], NEW p \in Partition, RetryBatch(p)
  PROVE  /\ log' \in [Partition -> Seq(MessageSet)]
         /\ \A pp \in Partition : pp # p => log'[pp] = log[pp]
         /\ \E n \in 1 .. Len(log[p]) :
              /\ Len(log'[p]) = Len(log[p]) + n
              /\ \A i \in 1 .. Len(log[p]) : log'[p][i] = log[p][i]
              /\ \A i \in 1 .. n : log'[p][Len(log[p]) + i] = log[p][Len(log[p]) - n + i]
<1>1. log[p] \in Seq(MessageSet)
  OBVIOUS
<1>2. PICK s : s = log[p]
  OBVIOUS
<1>3. PICK n \in 1 .. Len(s) : log' = [log EXCEPT ![p] = s \o SubSeq(s, Len(s) - n + 1, Len(s))]
  BY <1>2 DEF RetryBatch
<1>4. PICK t : t = SubSeq(s, Len(s) - n + 1, Len(s))
  OBVIOUS
<1>5. s \in Seq(MessageSet) /\ Len(s) \in Nat /\ n \in Nat /\ 1 <= n /\ n <= Len(s)
  BY <1>1, <1>2, <1>3
<1>6. t \in Seq(MessageSet) /\ Len(t) = n /\ \A i \in 1 .. n : t[i] = s[Len(s) - n + i]
  BY ONLY <1>4, <1>5
<1>7. /\ s \o t \in Seq(MessageSet) /\ Len(s \o t) = Len(s) + n
      /\ \A i \in 1 .. Len(s) : (s \o t)[i] = s[i]
      /\ \A i \in 1 .. n : (s \o t)[Len(s) + i] = t[i]
  BY ONLY <1>5, <1>6
<1>8. log'[p] = s \o t /\ \A pp \in Partition : pp # p => log'[pp] = log[pp]
  BY <1>3, <1>4
<1>9. log' \in [Partition -> Seq(MessageSet)]
  BY <1>3, <1>4, <1>7
<1>10. \A i \in 1 .. n : log'[p][Len(s) + i] = s[Len(s) - n + i]
  BY <1>6, <1>7, <1>8
<1>11. /\ Len(log'[p]) = Len(s) + n
       /\ \A i \in 1 .. Len(s) : log'[p][i] = s[i]
  BY <1>7, <1>8
<1>12. \E k \in 1 .. Len(s) :
         /\ Len(log'[p]) = Len(s) + k
         /\ \A i \in 1 .. Len(s) : log'[p][i] = s[i]
         /\ \A i \in 1 .. k : log'[p][Len(s) + i] = s[Len(s) - k + i]
  BY <1>3, <1>10, <1>11, Zenon
<1> QED
  BY <1>2, <1>8, <1>9, <1>12, Zenon

\* Each of its messages is one that the partition has already.
LEMMA RetriedMessages ==
  ASSUME log \in [Partition -> Seq(MessageSet)], NEW p \in Partition, RetryBatch(p)
  PROVE  /\ \A pp \in Partition : Len(log[pp]) <= Len(log'[pp])
         /\ \A pp \in Partition : \A i \in DOMAIN log[pp] :
              i \in DOMAIN log'[pp] /\ log'[pp][i] = log[pp][i]
         /\ \A pp \in Partition : \A i \in DOMAIN log'[pp] :
              \E j \in DOMAIN log[pp] : j <= i /\ log'[pp][i] = log[pp][j]
<1>1. PICK n \in 1 .. Len(log[p]) :
         /\ Len(log'[p]) = Len(log[p]) + n
         /\ \A i \in 1 .. Len(log[p]) : log'[p][i] = log[p][i]
         /\ \A i \in 1 .. n : log'[p][Len(log[p]) + i] = log[p][Len(log[p]) - n + i]
  BY RetriedLog
<1>2. log' \in [Partition -> Seq(MessageSet)] /\ \A pp \in Partition : pp # p => log'[pp] = log[pp]
  BY RetriedLog
<1>3. \A pp \in Partition : /\ Len(log[pp]) \in Nat /\ DOMAIN log[pp] = 1 .. Len(log[pp])
                            /\ Len(log'[pp]) \in Nat /\ DOMAIN log'[pp] = 1 .. Len(log'[pp])
  <2>1. \A pp \in Partition : log[pp] \in Seq(MessageSet) /\ log'[pp] \in Seq(MessageSet)
    BY <1>2
  <2> QED
    BY <2>1
<1>4. \A i \in DOMAIN log'[p] : \E j \in DOMAIN log[p] : j <= i /\ log'[p][i] = log[p][j]
  <2> SUFFICES ASSUME NEW i \in DOMAIN log'[p]
               PROVE  \E j \in DOMAIN log[p] : j <= i /\ log'[p][i] = log[p][j]
    OBVIOUS
  <2>1. CASE i <= Len(log[p])
    BY <1>1, <1>3, <2>1
  <2>2. CASE i > Len(log[p])
    <3>1. i - Len(log[p]) \in 1 .. n /\ Len(log[p]) + (i - Len(log[p])) = i
      BY <1>1, <1>3, <2>2
    <3>2. log'[p][i] = log[p][Len(log[p]) - n + (i - Len(log[p]))]
      BY <1>1, <3>1
    <3>3. Len(log[p]) - n + (i - Len(log[p])) \in 1 .. Len(log[p])
          /\ Len(log[p]) - n + (i - Len(log[p])) <= i
      BY <1>3, <3>1
    <3> QED
      BY <1>3, <3>2, <3>3
  <2> QED
    BY <1>3, <2>1, <2>2
<1>5. Len(log[p]) <= Len(log'[p])
      /\ \A i \in DOMAIN log[p] : i \in DOMAIN log'[p] /\ log'[p][i] = log[p][i]
  BY <1>1, <1>3
<1> SUFFICES ASSUME NEW pp \in Partition
             PROVE  /\ Len(log[pp]) <= Len(log'[pp])
                    /\ \A i \in DOMAIN log[pp] : i \in DOMAIN log'[pp] /\ log'[pp][i] = log[pp][i]
                    /\ \A i \in DOMAIN log'[pp] :
                         \E j \in DOMAIN log[pp] : j <= i /\ log'[pp][i] = log[pp][j]
  OBVIOUS
<1>6. CASE pp = p
  BY <1>4, <1>5, <1>6
<1>7. CASE pp # p
  BY <1>2, <1>3, <1>7
<1> QED
  BY <1>6, <1>7

\* The backend's writes.
LEMMA BackendTypeInv ==
  ASSUME TypeInv, NEW q \in QA, NEW p \in Partition, WriteEvent(q, p) \/ LoseEvent(q)
  PROVE  TypeInv'
<1> USE DEF TypeInv, TypeOK
<1> DEFINE e == NextEvent(q)
<1>1. e \in MessageSet /\ e.qa = q /\ e.n = sent[q] + 1
  BY DEF NextEvent, MessageSet
<1>2. /\ sent' = [sent EXCEPT ![q] = @ + 1]
      /\ sent[q] < Len(Script[q])
      /\ faults' \in Seq(FaultKind) /\ Len(faults') <= MaxFaults
      /\ UNCHANGED <<readerVars, workerVars, tableVars, votes>>
  <2>1. CASE WriteEvent(q, p)
    BY <2>1 DEF WriteEvent, readerVars, workerVars, tableVars
  <2>2. CASE LoseEvent(q)
    BY <2>2, FaultTypes DEF LoseEvent, readerVars, workerVars, tableVars
  <2> QED
    BY <2>1, <2>2
<1>3. \E more \in {<<>>, <<e>>} :
        log' = [log EXCEPT ![p] = @ \o more]
  <2>1. log[p] \in Seq(MessageSet)
    OBVIOUS
  <2>2. CASE WriteEvent(q, p)
    <3>1. Append(log[p], e) = log[p] \o <<e>>
      BY <1>1, <2>1
    <3> QED
      BY <2>2, <3>1 DEF WriteEvent
  <2>3. CASE LoseEvent(q)
    <3>1. log' = log /\ log[p] \o <<>> = log[p]
      BY <2>1, <2>3 DEF LoseEvent
    <3> QED
      BY <3>1
  <2> QED
    BY <2>2, <2>3
<1>4. PICK more \in {<<>>, <<e>>} : log' = [log EXCEPT ![p] = @ \o more]
  BY <1>3
<1>5. more \in Seq(MessageSet) /\ \A i \in DOMAIN more : more[i] = e
  <2>1. CASE more = <<>>
    BY <2>1
  <2>2. CASE more = <<e>>
    BY <1>1, <2>2
  <2> QED
    BY <2>1, <2>2
<1>6. \A pp \in Partition : log[pp] \in Seq(MessageSet)
  OBVIOUS
<1>7. log' \in [Partition -> Seq(MessageSet)]
  <2>1. log[p] \o more \in Seq(MessageSet)
    BY <1>5, <1>6
  <2> QED
    BY <1>4, <2>1
<1>8. TypeOK'
  BY <1>2, <1>7 DEF readerVars, workerVars, tableVars
<1>9. \A pp \in Partition :
        /\ Len(log[pp]) <= Len(log'[pp])
        /\ \A i \in DOMAIN log'[pp] :
             \/ i \in DOMAIN log[pp] /\ log'[pp][i] = log[pp][i]
             \/ log'[pp][i] = e
  <2>1. \A pp \in Partition : pp # p => log'[pp] = log[pp]
    BY <1>4
  <2>2. log'[p] = log[p] \o more
    BY <1>4
  <2>3. /\ Len(log[p]) <= Len(log'[p])
        /\ \A i \in DOMAIN log'[p] :
             \/ i \in DOMAIN log[p] /\ log'[p][i] = log[p][i]
             \/ log'[p][i] = e
    BY <1>5, <1>6, <2>2
  <2>4. \A pp \in Partition : Len(log[pp]) \in Nat
    BY <1>6
  <2> SUFFICES ASSUME NEW pp \in Partition
               PROVE  /\ Len(log[pp]) <= Len(log'[pp])
                      /\ \A i \in DOMAIN log'[pp] :
                           \/ i \in DOMAIN log[pp] /\ log'[pp][i] = log[pp][i]
                           \/ log'[pp][i] = e
    OBVIOUS
  <2>5. CASE pp = p
    BY <2>3, <2>5
  <2>6. CASE pp # p
    BY <2>1, <2>4, <2>6
  <2> QED
    BY <2>5, <2>6
<1>10. \A qq \in QA : sent[qq] <= sent'[qq] /\ sent'[qq] <= Len(Script[qq])
  <2>1. \A qq \in QA : Len(Script[qq]) \in Nat
    BY ScriptAssumption
  <2>2. sent \in [QA -> Nat] /\ \A qq \in QA : sent[qq] <= Len(Script[qq])
    BY DEF InBounds
  <2> QED
    BY <1>2, <2>1, <2>2
<1>11. \A pp \in Partition : \A i \in DOMAIN log'[pp] :
         log'[pp][i].n <= sent'[log'[pp][i].qa]
  <2> SUFFICES ASSUME NEW pp \in Partition, NEW i \in DOMAIN log'[pp]
               PROVE  log'[pp][i].n <= sent'[log'[pp][i].qa]
    OBVIOUS
  <2>1. CASE i \in DOMAIN log[pp] /\ log'[pp][i] = log[pp][i]
    <3>1. log[pp][i] \in MessageSet /\ log[pp][i].n <= sent[log[pp][i].qa]
      BY <1>6, <2>1 DEF InBounds
    <3>2. log[pp][i].qa \in QA /\ log[pp][i].n \in Nat
      BY <3>1 DEF MessageSet
    <3> QED
      BY SMTT(30), <1>2, <1>10, <2>1, <3>1, <3>2
  <2>2. CASE log'[pp][i] = e
    BY <1>1, <1>2, <2>2
  <2> QED
    BY <1>9, <2>1, <2>2
<1>12. InBounds'
  <2>1. \A pp \in Partition : Len(log[pp]) \in Nat /\ Len(log'[pp]) \in Nat
    BY <1>6, <1>7
  <2>2. \A pp \in Partition : position'[pp] <= Len(log'[pp]) /\ committed'[pp] <= Len(log'[pp])
    <3>1. position' = position /\ committed' = committed
      BY <1>2 DEF readerVars
    <3>2. \A pp \in Partition : /\ position[pp] <= Len(log[pp])
                                /\ committed[pp] <= Len(log[pp])
                                /\ position[pp] \in Nat /\ committed[pp] \in Nat
      BY DEF InBounds
    <3> QED
      BY <1>9, <2>1, <3>1, <3>2
  <2>3. \A i \in DOMAIN batch' : batch'[i][2] <= Len(log'[batch'[i][1]])
    <3> SUFFICES ASSUME NEW i \in DOMAIN batch
                 PROVE  batch[i][2] <= Len(log'[batch[i][1]])
      BY <1>2 DEF workerVars
    <3>0. batch \in Seq(Partition \X (Nat \ {0}))
      OBVIOUS
    <3> HIDE DEF TypeInv, TypeOK
    <3>1. batch[i][1] \in Partition /\ batch[i][2] \in Nat
      BY ONLY <3>0, i \in DOMAIN batch
    <3> USE DEF TypeInv
    <3>2. batch[i][2] <= Len(log[batch[i][1]])
      BY DEF InBounds
    <3>3. Len(log[batch[i][1]]) <= Len(log'[batch[i][1]])
      BY <1>9, <3>1
    <3>4. Len(log[batch[i][1]]) \in Nat /\ Len(log'[batch[i][1]]) \in Nat
      BY <2>1, <3>1
    <3> HIDE DEF TypeInv
    <3> QED
      BY <3>1, <3>2, <3>3, <3>4
  <2>4. /\ phase' = "reading" => merged' = 0 /\ \A qq \in QA : updates'[qq] = None
        /\ phase' = "merging" => merged' < Len(batch')
        /\ phase' = "applying" => merged' = Len(batch')
    BY <1>2 DEF InBounds, workerVars
  <2> QED
    BY <1>10, <1>11, <2>2, <2>3, <2>4 DEF InBounds
<1> QED
  BY <1>8, <1>12

\* A batch stored twice.
LEMMA RetryTypeInv ==
  ASSUME TypeInv, NEW p \in Partition, RetryBatch(p)
  PROVE  TypeInv'
<1>1. TypeOK /\ InBounds /\ log \in [Partition -> Seq(MessageSet)]
  BY DEF TypeInv, TypeOK
<1>2. UNCHANGED <<sent, position, committed, phase, batch, merged, updates, db, deleted, dropped, votes>>
  BY DEF RetryBatch, readerVars, workerVars, tableVars
<1>3. TypeOK'
  <2>1. faults' \in Seq(FaultKind) /\ Len(faults') <= MaxFaults
    BY <1>1, FaultTypes DEF RetryBatch
  <2>2. log' \in [Partition -> Seq(MessageSet)]
    BY <1>1, RetriedLog
  <2> QED
    BY <1>1, <1>2, <2>1, <2>2 DEF TypeOK
<1>4. \A pp \in Partition : Len(log[pp]) \in Nat /\ Len(log'[pp]) \in Nat /\ Len(log[pp]) <= Len(log'[pp])
  <2>1. \A pp \in Partition : log[pp] \in Seq(MessageSet) /\ log'[pp] \in Seq(MessageSet)
    BY <1>1, <1>3 DEF TypeOK
  <2> QED
    BY <1>1, <2>1, RetriedMessages
<1>5. \A pp \in Partition :
        /\ position[pp] <= Len(log'[pp])
        /\ committed[pp] <= Len(log'[pp])
        /\ \A i \in DOMAIN log'[pp] : log'[pp][i].n <= sent[log'[pp][i].qa]
  <2> SUFFICES ASSUME NEW pp \in Partition
               PROVE  /\ position[pp] <= Len(log'[pp])
                      /\ committed[pp] <= Len(log'[pp])
                      /\ \A i \in DOMAIN log'[pp] : log'[pp][i].n <= sent[log'[pp][i].qa]
    OBVIOUS
  <2>1. position[pp] \in Nat /\ committed[pp] \in Nat
        /\ position[pp] <= Len(log[pp]) /\ committed[pp] <= Len(log[pp])
    BY <1>1 DEF TypeOK, InBounds
  <2>2. ASSUME NEW i \in DOMAIN log'[pp] PROVE log'[pp][i].n <= sent[log'[pp][i].qa]
    <3>1. PICK j \in DOMAIN log[pp] : log'[pp][i] = log[pp][j]
      BY <1>1, <2>2, RetriedMessages
    <3> QED
      BY <1>1, <3>1 DEF InBounds
  <2> QED
    BY <1>4, <2>1, <2>2
<1>6. \A i \in DOMAIN batch : batch[i][2] <= Len(log'[batch[i][1]])
  <2> SUFFICES ASSUME NEW i \in DOMAIN batch PROVE batch[i][2] <= Len(log'[batch[i][1]])
    OBVIOUS
  <2>1. batch[i][1] \in Partition /\ batch[i][2] \in DOMAIN log[batch[i][1]]
    BY BatchMessage
  <2>2. batch[i][2] \in Nat /\ batch[i][2] <= Len(log[batch[i][1]])
    <3>1. log[batch[i][1]] \in Seq(MessageSet)
      BY <1>1, <2>1
    <3> QED
      BY <2>1, <3>1
  <2> QED
    BY <1>4, <2>1, <2>2
<1>7. InBounds'
  BY <1>1, <1>2, <1>5, <1>6 DEF InBounds
<1> QED
  BY <1>3, <1>7 DEF TypeInv

\* Reading a batch.
LEMMA ReadTypeInv ==
  ASSUME TypeInv, (\E p \in Partition : Fetch(p)) \/ BatchTimeout \/ FetchError
  PROVE  TypeInv'
<1> USE DEF TypeInv, TypeOK
<1>1. ASSUME NEW p \in Partition, Fetch(p)
      PROVE  TypeInv'
  <2> USE <1>1 DEF Fetch
  <2>1. log[p] \in Seq(MessageSet) /\ Len(log[p]) \in Nat
    OBVIOUS
  <2>2. /\ position' \in [Partition -> Nat]
        /\ \A pp \in Partition : position'[pp] <= Len(log[pp])
    BY <2>1 DEF InBounds
  <2> DEFINE m == <<p, position[p] + 1>>
  <2>3. m \in Partition \X (Nat \ {0}) /\ m[1] = p /\ m[2] <= Len(log[p])
    BY <2>1
  <2>4. /\ batch' \in Seq(Partition \X (Nat \ {0}))
        /\ Len(batch') = Len(batch) + 1
        /\ \A i \in DOMAIN batch' : \/ i \in DOMAIN batch /\ batch'[i] = batch[i]
                                  \/ batch'[i] = m
    <3>1. batch \in Seq(Partition \X (Nat \ {0})) /\ batch' = Append(batch, m)
      OBVIOUS
    <3> HIDE DEF TypeInv, TypeOK, Fetch, m
    <3> QED
      BY <2>3, <3>1
  <2>5. merged = 0 /\ \A q \in QA : updates[q] = None
    BY DEF InBounds
  <2>6. TypeOK'
    BY <2>2, <2>4, <2>5 DEF backendVars, tableVars
  <2>7. \A i \in DOMAIN batch' : batch'[i][2] <= Len(log'[batch'[i][1]])
    BY <2>3, <2>4 DEF InBounds, backendVars
  <2>8. /\ phase' = "reading" => merged' = 0 /\ \A q \in QA : updates'[q] = None
        /\ phase' = "merging" => merged' < Len(batch')
        /\ phase' # "applying"
    BY <2>4, <2>5
  <2>9. InBounds'
    BY <2>2, <2>7, <2>8 DEF InBounds, backendVars
  <2> QED
    BY <2>6, <2>9
<1>2. CASE BatchTimeout
  <2>1. batch # <<>> => 0 < Len(batch)
    OBVIOUS
  <2>2. TypeOK'
    BY <1>2 DEF BatchTimeout, backendVars, readerVars, tableVars
  <2>3. InBounds'
    BY <1>2, <2>1 DEF BatchTimeout, backendVars, readerVars, tableVars, InBounds
  <2> QED
    BY <2>2, <2>3
<1>3. CASE FetchError
  <2>1. TypeOK'
    BY <1>3, FaultTypes DEF FetchError, backendVars, readerVars, tableVars, InBounds
  <2>2. InBounds'
    BY <1>3 DEF FetchError, backendVars, readerVars, tableVars, InBounds
  <2> QED
    BY <2>1, <2>2
<1> QED
  BY <1>1, <1>2, <1>3

\* Converting and merging one message.
LEMMA MergeTypeInv ==
  ASSUME TypeInv, Merge
  PROVE  TypeInv'
<1> USE DEF Merge
<1> DEFINE e == Message(batch[merged + 1])
<1>1. batch \in Seq(Partition \X (Nat \ {0})) /\ merged \in Nat /\ merged < Len(batch)
  BY DEF TypeInv, TypeOK
<1>2. merged + 1 \in DOMAIN batch
  BY <1>1
<1>3. e.qa \in QA /\ ConvertEvent(e) \in Query
  BY <1>2, BatchMessage, ConvertType DEF MessageSet
<1>4. updates \in [QA -> Query \union {None}]
  BY DEF TypeInv, TypeOK
<1>5. MergeQuery(ConvertEvent(e), updates[e.qa]) \in Query
  BY <1>3, <1>4, MergeType
<1>6. updates' = IF Content(e).valid
                 THEN [updates EXCEPT ![e.qa] = MergeQuery(ConvertEvent(e), @)]
                 ELSE updates
  OBVIOUS
<1>7. updates' \in [QA -> Query \union {None}]
  BY <1>3, <1>4, <1>5, <1>6
<1>8. merged' \in 0 .. Len(batch)
  BY <1>1
<1>9. TypeOK'
  BY <1>7, <1>8 DEF TypeInv, TypeOK, backendVars, readerVars, tableVars
<1>10. InBounds'
  BY <1>1 DEF TypeInv, InBounds, backendVars, readerVars, tableVars
<1> QED
  BY <1>9, <1>10 DEF TypeInv

\* Applying one query.
LEMMA ApplyTypeInv ==
  ASSUME TypeInv, NEW q \in QA, CreateQA(q) \/ UpdateQA(q) \/ WriteError(q)
  PROVE  TypeInv'
<1> USE DEF TypeInv
<1>1. /\ phase = "applying" /\ updates[q] # None
      /\ updates' = [updates EXCEPT ![q] = None]
      /\ UNCHANGED <<log, sent, position, committed, phase, batch, merged, deleted, votes>>
  BY DEF CreateQA, UpdateQA, WriteError, backendVars, readerVars
<1>2. updates[q] \in Query
  BY <1>1 DEF TypeOK
<1>3. db' \in [QA -> Row \union {None}]
  <2>1. CASE CreateQA(q)
    BY <1>2, <2>1, RowTypes DEF CreateQA, TypeOK
  <2>2. CASE UpdateQA(q)
    <3>1. CASE db[q] = None
      BY <2>2, <3>1 DEF UpdateQA, TypeOK
    <3>2. CASE db[q] # None
      <4>1. db[q] \in Row
        BY <3>2 DEF TypeOK
      <4>2. UpdateRow(db[q], updates[q]) \in Row
        BY <1>2, <4>1, RowTypes
      <4>3. db' = [db EXCEPT ![q] = UpdateRow(db[q], updates[q])]
        BY <2>2, <3>2 DEF UpdateQA
      <4> QED
        BY <4>2, <4>3 DEF TypeOK
    <3> QED
      BY <3>1, <3>2
  <2>3. CASE WriteError(q)
    BY <2>3 DEF WriteError, TypeOK
  <2> QED
    BY <2>1, <2>2, <2>3
<1>4. dropped' \subseteq QA
  BY DEF CreateQA, UpdateQA, WriteError, TypeOK
<1>5. faults' \in Seq(FaultKind) /\ Len(faults') <= MaxFaults
  BY FaultTypes DEF CreateQA, UpdateQA, WriteError, HasFault, TypeOK
<1>6. TypeOK'
  BY <1>1, <1>3, <1>4, <1>5 DEF TypeOK
<1>7. InBounds'
  BY <1>1 DEF InBounds
<1> QED
  BY <1>6, <1>7

\* Ending a batch, restarting, rebalancing.
LEMMA RestartTypeInv ==
  ASSUME TypeInv, Commit \/ CommitError \/ Shutdown \/ Crash \/ Rebalance
  PROVE  TypeInv'
<1> USE DEF TypeInv
<1>1. UNCHANGED <<log, sent, db, deleted, dropped, votes>>
  BY DEF Commit, CommitError, Shutdown, Crash, Rebalance, backendVars, tableVars
<1>2. faults' \in Seq(FaultKind) /\ Len(faults') <= MaxFaults
  BY FaultTypes
     DEF Commit, CommitError, Shutdown, Crash, Rebalance, HasFault, TypeOK
<1>3. /\ position' \in [Partition -> Nat] /\ committed' \in [Partition -> Nat]
      /\ \A p \in Partition : position'[p] <= Len(log[p]) /\ committed'[p] <= Len(log[p])
  <2>1. CASE Commit
    BY <2>1, CommitOffsetType DEF Commit, TypeOK, InBounds
  <2>2. CASE CommitError
    BY <2>2 DEF CommitError, TypeOK, InBounds, readerVars
  <2>3. CASE Shutdown \/ Crash \/ Rebalance
    BY <2>3 DEF Shutdown, Crash, Rebalance, TypeOK, InBounds
  <2> QED
    BY <2>1, <2>2, <2>3
<1>4. \/ /\ EndBatch
         /\ updates' \in [QA -> Query \union {None}]
         /\ \A q \in QA : updates'[q] = None
      \/ UNCHANGED <<phase, batch, merged, updates>>
  <2>1. CASE Commit
    BY <2>1 DEF Commit, AllApplied, TypeOK
  <2>2. CASE CommitError
    BY <2>2 DEF CommitError, AllApplied, TypeOK
  <2>3. CASE Crash
    BY <2>3 DEF Crash
  <2>4. CASE Shutdown \/ Rebalance
    BY <2>4 DEF Shutdown, Rebalance, workerVars
  <2> QED
    BY <2>1, <2>2, <2>3, <2>4
<1>5. CASE EndBatch /\ updates' \in [QA -> Query \union {None}] /\ \A q \in QA : updates'[q] = None
  <2>1. TypeOK'
    BY <1>1, <1>2, <1>3, <1>5 DEF EndBatch, TypeOK
  <2>2. InBounds'
    BY <1>1, <1>3, <1>5 DEF EndBatch, InBounds
  <2> QED
    BY <2>1, <2>2
<1>6. CASE UNCHANGED <<phase, batch, merged, updates>>
  <2>1. TypeOK'
    BY <1>1, <1>2, <1>3, <1>6 DEF TypeOK
  <2>2. InBounds'
    BY <1>1, <1>3, <1>6 DEF InBounds
  <2> QED
    BY <2>1, <2>2
<1> QED
  BY <1>4, <1>5, <1>6

\* The REST handlers.
LEMMA ApiTypeInv ==
  ASSUME TypeInv, NEW q \in QA, DeleteQA(q) \/ \E v \in Vote : UpdateVote(q, v)
  PROVE  TypeInv'
<1> USE DEF TypeInv
<1>1. UNCHANGED <<log, sent, position, committed, phase, batch, merged, updates, dropped, faults>>
  BY DEF DeleteQA, UpdateVote, backendVars, readerVars, workerVars
<1>2. /\ db' \in [QA -> Row \union {None}]
      /\ deleted' \subseteq QA
      /\ votes' \in 0 .. MaxVotes
  <2>1. CASE DeleteQA(q)
    BY <2>1 DEF DeleteQA, TypeOK
  <2>2. ASSUME NEW v \in Vote, UpdateVote(q, v)
        PROVE  <1>2!1 /\ <1>2!2 /\ <1>2!3
    <3>1. votes' \in 0 .. MaxVotes /\ deleted' = deleted
      BY <2>2, ConstantsAssumption DEF UpdateVote, TypeOK
    <3>2. CASE db[q] = None
      BY <2>2, <3>1, <3>2 DEF UpdateVote, TypeOK
    <3>3. CASE db[q] # None
      <4>1. db[q] \in Row
        BY <3>3 DEF TypeOK
      <4>2. [db[q] EXCEPT !.vote = v] \in Row
        BY <4>1 DEF Row
      <4>3. db' = [db EXCEPT ![q] = [db[q] EXCEPT !.vote = v]]
        BY <2>2, <3>3 DEF UpdateVote
      <4> QED
        BY <3>1, <4>2, <4>3 DEF TypeOK
    <3> QED
      BY <3>2, <3>3
  <2> QED
    BY <2>1, <2>2
<1>3. TypeOK'
  BY <1>1, <1>2 DEF TypeOK
<1>4. InBounds'
  BY <1>1 DEF InBounds
<1> QED
  BY <1>3, <1>4

\* Stuttering.
LEMMA StutterTypeInv ==
  ASSUME TypeInv, UNCHANGED vars
  PROVE  TypeInv'
  BY DEF TypeInv, TypeOK, InBounds, vars, backendVars, readerVars, workerVars, tableVars

LEMMA NextTypeInv == TypeInv /\ [Next]_vars => TypeInv'
<1> SUFFICES ASSUME TypeInv, [Next]_vars PROVE TypeInv'
  OBVIOUS
<1>1. CASE Backend
  BY <1>1, BackendTypeInv DEF Backend
<1>2. CASE Worker
  BY <1>2, ReadTypeInv, MergeTypeInv, ApplyTypeInv, RestartTypeInv DEF Worker
<1>3. CASE Faulty
  <2>1. CASE \E q \in QA : LoseEvent(q)
    BY <2>1, BackendTypeInv, ConstantsAssumption
  <2>2. CASE \E q \in QA : WriteError(q)
    BY <2>2, ApplyTypeInv
  <2>3. CASE \E p \in Partition : RetryBatch(p)
    BY <2>3, RetryTypeInv
  <2>4. CASE FetchError
    BY <2>4, ReadTypeInv
  <2>5. CASE CommitError \/ Crash \/ Rebalance
    BY <2>5, RestartTypeInv
  <2> QED
    BY <1>3, <2>1, <2>2, <2>3, <2>4, <2>5 DEF Faulty
<1>4. CASE Shutdown
  BY <1>4, RestartTypeInv
<1>5. CASE Api
  BY <1>5, ApiTypeInv DEF Api
<1>6. CASE UNCHANGED vars
  BY <1>6, StutterTypeInv
<1> QED
  BY <1>1, <1>2, <1>3, <1>4, <1>5, <1>6 DEF Next

\* The types hold in every reachable state, for every topic, script and fault.
THEOREM TypeCorrect == Spec => []TypeOK
<1>1. Spec => []TypeInv
  BY InitTypeInv, NextTypeInv, PTL DEF Spec
<1>2. TypeInv => TypeOK
  BY DEF TypeInv
<1> QED
  BY <1>1, <1>2, PTL

\* Neither a batch nor a committed offset reaches beyond what was written, and
\* no query is left over from one batch to the next.
THEOREM OffsetsInBounds == Spec => []InBounds
<1>1. Spec => []TypeInv
  BY InitTypeInv, NextTypeInv, PTL DEF Spec
<1>2. TypeInv => InBounds
  BY DEF TypeInv
<1> QED
  BY <1>1, <1>2, PTL
---------------------------------------------------------------------------
(* Rows and the events they come from.                                     *)

\* Each column that is set is set by a message of the QA.
From(q, cols, messages) ==
  \A c \in Column : cols[c] # 0 =>
    \E p \in Partition : \E i \in DOMAIN messages[p] :
      /\ messages[p][i].qa = q
      /\ Content(messages[p][i]).valid
      /\ Content(messages[p][i]).column = c
      /\ Content(messages[p][i]).value = cols[c]

\* Pending queries and rows come from messages of their QA, and what creates a row has
\* the question.
TracedInv ==
  \A q \in QA :
    /\ updates[q] # None => /\ From(q, updates[q].cols, log)
                            /\ updates[q].create => updates[q].cols["Question"] # 0
    /\ db[q] # None => From(q, db[q].cols, log) /\ db[q].cols["Question"] # 0

IsQuestion(e, q) == e.qa = q /\ e.n = 1

Creating(q) == updates[q] # None /\ updates[q].create

Created(q) == db[q] # None \/ q \in deleted

\* The event that creates a row is in the topic once.
OneQuestion ==
  \A p1, p2 \in Partition : \A i1 \in DOMAIN log[p1], i2 \in DOMAIN log[p2] :
    \A q \in QA : IsQuestion(log[p1][i1], q) /\ IsQuestion(log[p2][i2], q)
                    => p1 = p2 /\ i1 = i2

\* The batch has only messages behind the committed offsets, each once.
BatchIsNew ==
  /\ \A p \in Partition : committed[p] <= position[p]
  /\ \A b \in DOMAIN batch : /\ committed[batch[b][1]] < batch[b][2]
                             /\ batch[b][2] <= position[batch[b][1]]
  /\ \A a, b \in DOMAIN batch : a < b /\ batch[a][1] = batch[b][1] => batch[a][2] < batch[b][2]

\* A pending query that creates is made of a question in the batch.
CreatingIsRead ==
  \A q \in QA : Creating(q) => \E b \in 1 .. merged : IsQuestion(Message(batch[b]), q)

\* The question of a row that was created is behind the worker.
CreatedIsDone ==
  \A q \in QA : Created(q) =>
    /\ sent[q] # 0
    /\ \A p \in Partition : \A i \in DOMAIN log[p] : IsQuestion(log[p][i], q) =>
         \/ i <= committed[p]
         \/ phase = "applying" /\ ~Creating(q) /\ \E b \in DOMAIN batch : batch[b] = <<p, i>>

DeletedStays == \A q \in deleted : db[q] = None

\* While nothing is redelivered, no row is created twice.
OnceInv ==
  ~Redelivered => /\ OneQuestion /\ BatchIsNew /\ CreatingIsRead /\ CreatedIsDone
                  /\ DeletedStays

RowInv == TypeInv /\ TracedInv /\ OnceInv /\ SkippedOnlyAfterFault

\* The fault is in the history from now on.
LEMMA FaultHappens ==
  ASSUME TypeOK, NEW kind, HasFault(kind), NEW kinds
  PROVE  Happened(kinds)' <=> Happened(kinds) \/ kind \in kinds
<1>1. faults \in Seq(FaultKind) /\ kind \in FaultKind /\ faults' = Append(faults, kind)
  BY DEF TypeOK, HasFault
<1>2. /\ Len(faults) \in Nat /\ DOMAIN faults = 1 .. Len(faults)
      /\ DOMAIN faults' = 1 .. Len(faults) + 1
      /\ faults'[Len(faults) + 1] = kind
      /\ \A i \in 1 .. Len(faults) : faults'[i] = faults[i]
  BY <1>1
<1>3. ASSUME NEW i \in DOMAIN faults', faults'[i] \in kinds PROVE Happened(kinds) \/ kind \in kinds
  <2>1. CASE i = Len(faults) + 1
    BY <1>2, <1>3, <2>1
  <2>2. CASE i # Len(faults) + 1
    <3>1. i \in DOMAIN faults /\ faults[i] \in kinds
      BY <1>2, <1>3, <2>2
    <3> QED
      BY <3>1 DEF Happened
  <2> QED
    BY <2>1, <2>2
<1>4. ASSUME NEW i \in DOMAIN faults, faults[i] \in kinds PROVE Happened(kinds)'
  <2>1. i \in DOMAIN faults' /\ faults'[i] \in kinds
    BY <1>2, <1>4
  <2> QED
    BY <2>1 DEF Happened
<1>5. ASSUME kind \in kinds PROVE Happened(kinds)'
  <2>1. Len(faults) + 1 \in DOMAIN faults' /\ faults'[Len(faults) + 1] \in kinds
    BY <1>2, <1>5
  <2> QED
    BY <2>1 DEF Happened
<1> QED
  BY <1>3, <1>4, <1>5 DEF Happened

\* Which steps redeliver, and which are faults at all.
LEMMA FaultsOfSteps ==
  ASSUME TypeOK, [Next]_vars
  PROVE  /\ ~Redelivered' => ~Redelivered
         /\ faults # <<>> => faults' # <<>>
         /\ CommitError \/ Crash \/ Rebalance => Redelivered'
         /\ \A p \in Partition : RetryBatch(p) => Redelivered'
         /\ \A q \in QA : WriteError(q) => faults' # <<>>
<1> DEFINE kinds == {"crash", "rebalance", "commit", "writeDup"}
<1>1. ASSUME NEW kind, HasFault(kind)
      PROVE  /\ ~Redelivered' => ~Redelivered
             /\ kind \in kinds => Redelivered'
             /\ faults' # <<>>
  <2>1. Redelivered' <=> Redelivered \/ kind \in kinds
    BY <1>1, FaultHappens DEF Redelivered
  <2>2. faults \in Seq(FaultKind) /\ kind \in FaultKind /\ faults' = Append(faults, kind)
    BY <1>1 DEF HasFault, TypeOK
  <2>3. faults' # <<>>
    BY <2>2
  <2> QED
    BY <2>1, <2>3
<1>2. ASSUME UNCHANGED faults PROVE (~Redelivered' => ~Redelivered) /\ (faults # <<>> => faults' # <<>>)
  BY <1>2 DEF Redelivered, Happened
<1>3. CommitError \/ Crash \/ Rebalance => Redelivered'
  BY <1>1 DEF CommitError, Crash, Rebalance
<1>4. \A p \in Partition : RetryBatch(p) => Redelivered'
  BY <1>1 DEF RetryBatch
<1>5. \A q \in QA : WriteError(q) => faults' # <<>>
  BY <1>1 DEF WriteError
<1>6. (\E kind : HasFault(kind)) \/ UNCHANGED faults
  BY DEF Next, Backend, Worker, Faulty, Api, WriteEvent, LoseEvent, RetryBatch, Fetch,
         BatchTimeout, FetchError, Merge, CreateQA, UpdateQA, WriteError, Commit, CommitError,
         Shutdown, Crash, Rebalance, DeleteQA, UpdateVote, vars
<1> QED
  BY <1>1, <1>2, <1>3, <1>4, <1>5, <1>6

\* The topic only grows, by the next event of a QA.
LEMMA LogGrows ==
  ASSUME TypeInv, NEW q \in QA, NEW p \in Partition,
         WriteEvent(q, p) \/ LoseEvent(q)
  PROVE  /\ \A pp \in Partition : \A i \in DOMAIN log[pp] :
              i \in DOMAIN log'[pp] /\ log'[pp][i] = log[pp][i]
         /\ \A pp \in Partition : \A i \in DOMAIN log'[pp] :
              \/ i \in DOMAIN log[pp]
              \/ log'[pp][i] = NextEvent(q) /\ pp = p
         /\ \A i \in DOMAIN log'[p] : i \notin DOMAIN log[p] => i = Len(log[p]) + 1
<1> DEFINE e == NextEvent(q)
<1>0. sent[q] \in Nat
  BY DEF TypeInv, TypeOK
<1>1. log \in [Partition -> Seq(MessageSet)] /\ log[p] \in Seq(MessageSet) /\ e \in MessageSet
  <2>1. log \in [Partition -> Seq(MessageSet)]
    BY DEF TypeInv, TypeOK
  <2>2. log[p] \in Seq(MessageSet)
    BY <2>1
  <2>3. sent[q] + 1 \in Nat \ {0}
    BY <1>0
  <2>4. e \in MessageSet
    BY <2>3 DEF NextEvent, MessageSet
  <2> QED
    BY <2>1, <2>2, <2>4
<1> HIDE DEF e
<1>2. \/ log' = [log EXCEPT ![p] = Append(log[p], e)]
      \/ log' = log
  BY DEF WriteEvent, LoseEvent, e
<1>3. \A pp \in Partition : pp # p => log'[pp] = log[pp]
  BY <1>1, <1>2
<1>4. \/ log'[p] = Append(log[p], e)
      \/ log'[p] = log[p]
  BY <1>1, <1>2
<1>5. /\ \A i \in DOMAIN log[p] : i \in DOMAIN log'[p] /\ log'[p][i] = log[p][i]
      /\ \A i \in DOMAIN log'[p] : i \in DOMAIN log[p] \/ log'[p][i] = e
      /\ \A i \in DOMAIN log'[p] : i \notin DOMAIN log[p] => i = Len(log[p]) + 1
  <2>1. CASE log'[p] = Append(log[p], e)
    BY <1>1, <2>1
  <2>2. CASE log'[p] = log[p]
    BY <2>2
  <2> QED
    BY <1>4, <2>1, <2>2
<1> QED
  BY <1>3, <1>5 DEF e

LEMMA FromGrows ==
  ASSUME NEW q, NEW cols, NEW before, NEW after, From(q, cols, before),
         \A p \in Partition : \A i \in DOMAIN before[p] :
           i \in DOMAIN after[p] /\ after[p][i] = before[p][i]
  PROVE  From(q, cols, after)
BY DEF From

\* What a message of the batch is converted to comes from it.
LEMMA ConvertedFrom ==
  ASSUME TypeInv, NEW b \in DOMAIN batch, Content(Message(batch[b])).valid
  PROVE  LET e == Message(batch[b])
         IN  /\ From(e.qa, ConvertEvent(e).cols, log)
             /\ ConvertEvent(e).create => /\ ConvertEvent(e).cols["Question"] # 0
                                          /\ IsQuestion(e, e.qa)
<1> DEFINE e == Message(batch[b])
<1>1. /\ batch[b][1] \in Partition /\ batch[b][2] \in DOMAIN log[batch[b][1]]
      /\ e \in MessageSet /\ Content(e) \in ScriptEvent /\ e = log[batch[b][1]][batch[b][2]]
  BY BatchMessage DEF Message
<1>2. \A c \in Column : ConvertEvent(e).cols[c] = IF c = Content(e).column THEN Content(e).value ELSE 0
  BY <1>1 DEF ConvertEvent, Blank, ScriptEvent
<1> HIDE DEF e
<1>3. From(e.qa, ConvertEvent(e).cols, log)
  <2> SUFFICES ASSUME NEW c \in Column, ConvertEvent(e).cols[c] # 0
               PROVE  \E p \in Partition : \E i \in DOMAIN log[p] :
                        /\ log[p][i].qa = e.qa
                        /\ Content(log[p][i]).valid
                        /\ Content(log[p][i]).column = c
                        /\ Content(log[p][i]).value = ConvertEvent(e).cols[c]
    BY DEF From
  <2>1. c = Content(e).column /\ ConvertEvent(e).cols[c] = Content(e).value
    BY <1>2
  <2> QED
    BY <1>1, <2>1 DEF e
<1>4. ASSUME ConvertEvent(e).create
      PROVE  ConvertEvent(e).cols["Question"] # 0 /\ IsQuestion(e, e.qa)
  <2>1. Content(e).column = "Question" /\ e.qa \in QA
    BY <1>1, <1>4 DEF ConvertEvent, MessageSet
  <2>2. e.n = 1
    <3>1. e.n \in DOMAIN Script[e.qa] /\ Script[e.qa][e.n].column = "Question"
      BY <1>1, <2>1, MessageContent DEF Content
    <3> QED
      BY <2>1, <3>1, ScriptAssumption
  <2>3. Content(e).value # 0
    BY <2>1, <2>2, ScriptAssumption DEF Content
  <2>4. "Question" \in Column
    BY DEF Column
  <2> QED
    BY <1>2, <2>1, <2>2, <2>3, <2>4 DEF IsQuestion
<1> QED
  BY <1>3, <1>4 DEF e

\* Rows and pending queries come from messages, whatever happens.
LEMMA TracedSteps ==
  ASSUME TypeInv, TracedInv, [Next]_vars
  PROVE  TracedInv'
<1>0. /\ updates \in [QA -> Query \union {None}] /\ db \in [QA -> Row \union {None}]
      /\ "Question" \in MergedColumn /\ "Question" \in Column
  BY DEF TypeInv, TypeOK, MergedColumn, Column
<1>1. ASSUME UNCHANGED <<updates, db>>,
             \A p \in Partition : \A i \in DOMAIN log[p] :
               i \in DOMAIN log'[p] /\ log'[p][i] = log[p][i]
      PROVE  TracedInv'
  <2>1. \A r, cols : From(r, cols, log) => From(r, cols, log')
    BY <1>1, FromGrows
  <2> QED
    BY <1>1, <2>1 DEF TracedInv
<1>9. ASSUME NEW q \in QA, NEW p \in Partition, WriteEvent(q, p) \/ LoseEvent(q)
      PROVE  TracedInv'
  <2>1. UNCHANGED <<updates, db>>
    BY <1>9 DEF WriteEvent, LoseEvent, workerVars, tableVars
  <2> QED
    BY <1>1, <1>9, <2>1, LogGrows
<1>10. ASSUME NEW p \in Partition, RetryBatch(p)
       PROVE  TracedInv'
  <2>1. UNCHANGED <<updates, db>> /\ log \in [Partition -> Seq(MessageSet)]
    BY <1>10 DEF RetryBatch, workerVars, tableVars, TypeInv, TypeOK
  <2> QED
    BY <1>1, <1>10, <2>1, RetriedMessages
<1>2. ASSUME UNCHANGED <<log, db>>, \A q \in QA : updates'[q] = updates[q] \/ updates'[q] = None
      PROVE  TracedInv'
  <2> SUFFICES ASSUME NEW q \in QA
               PROVE  /\ updates'[q] # None => /\ From(q, updates'[q].cols, log)
                                               /\ updates'[q].create => updates'[q].cols["Question"] # 0
                      /\ db[q] # None => From(q, db[q].cols, log) /\ db[q].cols["Question"] # 0
    BY <1>2 DEF TracedInv
  <2>1. CASE updates'[q] = None
    BY <2>1 DEF TracedInv
  <2>2. CASE updates'[q] = updates[q]
    BY <2>2 DEF TracedInv
  <2> QED
    BY <1>2, <2>1, <2>2
<1>3. CASE Merge
  <2> DEFINE e == Message(batch[merged + 1])
             src == ConvertEvent(e)
             dst == updates[e.qa]
             new == MergeQuery(src, dst)
  <2>1. merged + 1 \in DOMAIN batch
    BY <1>3 DEF Merge, TypeInv, TypeOK
  <2>2. e \in MessageSet /\ Content(e) \in ScriptEvent /\ e.qa \in QA /\ src \in Query
    BY <2>1, BatchMessage, ConvertType DEF MessageSet
  <2>3. UNCHANGED <<log, db>> /\ updates' = IF Content(e).valid THEN [updates EXCEPT ![e.qa] = new]
                                            ELSE updates
    BY <1>3 DEF Merge, backendVars, tableVars
  <2>4. CASE ~Content(e).valid
    BY <1>2, <2>3, <2>4
  <2>5. CASE Content(e).valid
    <3>1. From(e.qa, src.cols, log) /\ (src.create => src.cols["Question"] # 0)
      BY <2>1, <2>5, ConvertedFrom
    <3>2. dst # None => /\ From(e.qa, dst.cols, log)
                        /\ dst.create => dst.cols["Question"] # 0
      BY <2>2 DEF TracedInv
    <3> HIDE DEF e, src, dst
    <3>3. From(e.qa, new.cols, log) /\ (new.create => new.cols["Question"] # 0)
      <4>1. CASE dst = None
        BY <3>1, <4>1 DEF MergeQuery
      <4>2. CASE dst # None
        <5>1. new.create = (dst.create \/ src.create) /\ new.cols = MergeQA(src.cols, dst.cols)
          BY <4>2 DEF MergeQuery
        <5>2. \A c \in Column : \/ new.cols[c] = src.cols[c] /\ src.cols[c] # 0
                                \/ new.cols[c] = dst.cols[c]
          BY <5>1 DEF MergeQA
        <5>3. From(e.qa, new.cols, log)
          BY <3>1, <3>2, <4>2, <5>2 DEF From
        <5>4. new.cols["Question"] = IF src.cols["Question"] # 0 THEN src.cols["Question"]
                                     ELSE dst.cols["Question"]
          BY <1>0, <5>1 DEF MergeQA
        <5>5. new.create => new.cols["Question"] # 0
          BY <3>1, <3>2, <4>2, <5>1, <5>4
        <5> QED
          BY <5>3, <5>5
      <4> QED
        BY <4>1, <4>2
    <3> HIDE DEF new
    <3>4. \A q \in QA : updates'[q] = IF q = e.qa THEN new ELSE updates[q]
      BY <1>0, <2>2, <2>3, <2>5
    <3> SUFFICES ASSUME NEW q \in QA
                 PROVE  /\ updates'[q] # None => /\ From(q, updates'[q].cols, log)
                                                 /\ updates'[q].create => updates'[q].cols["Question"] # 0
                        /\ db[q] # None => From(q, db[q].cols, log) /\ db[q].cols["Question"] # 0
      BY <2>3 DEF TracedInv
    <3>5. CASE q = e.qa
      BY <3>3, <3>4, <3>5 DEF TracedInv
    <3>6. CASE q # e.qa
      BY <3>4, <3>6 DEF TracedInv
    <3> QED
      BY <3>5, <3>6
  <2> QED
    BY <2>4, <2>5
<1>4. ASSUME NEW q \in QA, CreateQA(q) \/ UpdateQA(q) PROVE TracedInv'
  <2>1. /\ updates[q] # None /\ updates' = [updates EXCEPT ![q] = None] /\ log' = log
        /\ From(q, updates[q].cols, log)
        /\ updates[q].create => updates[q].cols["Question"] # 0
    BY <1>4 DEF CreateQA, UpdateQA, backendVars, TracedInv
  <2>2. ASSUME db' = [db EXCEPT ![q] = NewRow(updates[q])], updates[q].create
        PROVE  From(q, db'[q].cols, log) /\ db'[q].cols["Question"] # 0
    BY <1>0, <2>1, <2>2 DEF NewRow
  <2>3. ASSUME db[q] # None, db' = [db EXCEPT ![q] = UpdateRow(db[q], updates[q])]
        PROVE  From(q, db'[q].cols, log) /\ db'[q].cols["Question"] # 0
    <3>1. db[q] \in Row /\ From(q, db[q].cols, log) /\ db[q].cols["Question"] # 0
      BY <1>0, <2>3 DEF TracedInv
    <3>2. \A c \in Column : db'[q].cols[c] = IF updates[q].cols[c] # 0 THEN updates[q].cols[c]
                                             ELSE db[q].cols[c]
      BY <1>0, <2>3, <3>1 DEF UpdateRow, Row
    <3>3. From(q, db'[q].cols, log)
      BY <2>1, <3>1, <3>2 DEF From
    <3>4. db'[q].cols["Question"] # 0
      BY <1>0, <3>1, <3>2
    <3> QED
      BY <3>3, <3>4
  <2>4. \/ db' = [db EXCEPT ![q] = NewRow(updates[q])] /\ updates[q].create
        \/ db[q] # None /\ db' = [db EXCEPT ![q] = UpdateRow(db[q], updates[q])]
        \/ db' = db
    BY <1>4 DEF CreateQA, UpdateQA
  <2>5. \A r \in QA : \/ r # q /\ db'[r] = db[r]
                      \/ r = q /\ From(q, db'[q].cols, log) /\ db'[q].cols["Question"] # 0
                      \/ db' = db
    BY <1>0, <2>2, <2>3, <2>4
  <2>6. \A r \in QA : updates'[r] = updates[r] \/ updates'[r] = None
    BY <1>0, <2>1
  <2> SUFFICES ASSUME NEW r \in QA
               PROVE  /\ updates'[r] # None => /\ From(r, updates'[r].cols, log)
                                               /\ updates'[r].create => updates'[r].cols["Question"] # 0
                      /\ db'[r] # None => From(r, db'[r].cols, log) /\ db'[r].cols["Question"] # 0
    BY <2>1 DEF TracedInv
  <2>7. db'[r] # None => From(r, db'[r].cols, log) /\ db'[r].cols["Question"] # 0
    BY <2>5 DEF TracedInv
  <2>8. CASE updates'[r] = None
    BY <2>7, <2>8
  <2>9. CASE updates'[r] = updates[r]
    BY <2>7, <2>9 DEF TracedInv
  <2> QED
    BY <2>6, <2>8, <2>9
<1>5. ASSUME NEW q \in QA, DeleteQA(q) \/ \E v \in Vote : UpdateVote(q, v) PROVE TracedInv'
  <2>1. UNCHANGED <<log, updates>>
    BY <1>5 DEF DeleteQA, UpdateVote, backendVars, workerVars
  <2>2. ASSUME NEW r \in QA PROVE db'[r] = None \/ (db[r] # None /\ db'[r].cols = db[r].cols)
    <3>1. CASE DeleteQA(q)
      BY <1>0, <3>1 DEF DeleteQA
    <3>2. ASSUME NEW v \in Vote, UpdateVote(q, v), db[q] # None
          PROVE  db'[r] = None \/ (db[r] # None /\ db'[r].cols = db[r].cols)
      <4>1. db' = [db EXCEPT ![q] = [db[q] EXCEPT !.vote = v]] /\ db[q] \in Row
        BY <1>0, <3>2 DEF UpdateVote
      <4>2. [db[q] EXCEPT !.vote = v].cols = db[q].cols
        BY <4>1 DEF Row
      <4> QED
        BY <1>0, <3>2, <4>1, <4>2
    <3>3. CASE db' = db
      BY <3>3
    <3> QED
      BY <1>5, <3>1, <3>2, <3>3 DEF UpdateVote
  <2> SUFFICES ASSUME NEW r \in QA
               PROVE  db'[r] # None => From(r, db'[r].cols, log) /\ db'[r].cols["Question"] # 0
    BY <2>1 DEF TracedInv
  <2> QED
    BY <2>2 DEF TracedInv
<1>6. CASE \/ \E p \in Partition : Fetch(p)
           \/ BatchTimeout \/ FetchError \/ Commit \/ CommitError \/ Shutdown \/ Crash \/ Rebalance
           \/ UNCHANGED vars
  <2>1. UNCHANGED <<log, db>> /\ \A q \in QA : updates'[q] = updates[q] \/ updates'[q] = None
    BY <1>6 DEF Fetch, BatchTimeout, FetchError, Commit, CommitError, Shutdown, Crash, Rebalance,
                vars, backendVars, tableVars, workerVars
  <2> QED
    BY <1>2, <2>1
<1>7. ASSUME NEW q \in QA, WriteError(q) PROVE TracedInv'
  <2>1. UNCHANGED <<log, db>> /\ \A r \in QA : updates'[r] = updates[r] \/ updates'[r] = None
    BY <1>0, <1>7 DEF WriteError, backendVars
  <2> QED
    BY <1>2, <2>1
<1>8. PICK p \in Partition : TRUE
  BY ConstantsAssumption
<1> QED
  BY <1>3, <1>4, <1>5, <1>6, <1>7, <1>8, <1>9, <1>10 DEF Next, Backend, Worker, Faulty, Api

\* What a message of the batch reads.
LEMMA BatchTypes ==
  ASSUME TypeInv
  PROVE  /\ Len(batch) \in Nat /\ DOMAIN batch = 1 .. Len(batch)
         /\ merged \in Nat /\ merged <= Len(batch)
         /\ \A b \in DOMAIN batch : /\ batch[b][1] \in Partition /\ batch[b][2] \in Nat
                                    /\ batch[b][2] \in DOMAIN log[batch[b][1]]
                                    /\ batch[b] = <<batch[b][1], batch[b][2]>>
         /\ \A p \in Partition : /\ position[p] \in Nat /\ committed[p] \in Nat
                                 /\ Len(log[p]) \in Nat /\ DOMAIN log[p] = 1 .. Len(log[p])
<1>1. batch \in Seq(Partition \X (Nat \ {0})) /\ merged \in 0 .. Len(batch)
  BY DEF TypeInv, TypeOK
<1>2. \A p \in Partition : position[p] \in Nat /\ committed[p] \in Nat /\ log[p] \in Seq(MessageSet)
  BY DEF TypeInv, TypeOK
<1>3. \A b \in DOMAIN batch : batch[b] \in Partition \X (Nat \ {0})
  BY <1>1
<1> QED
  BY <1>1, <1>2, <1>3, BatchMessage

\* Writing: a question is written once, before its row can exist.
LEMMA WriteOnce ==
  ASSUME TypeInv, OnceInv, ~Redelivered, NEW q \in QA, NEW p \in Partition,
         WriteEvent(q, p) \/ LoseEvent(q)
  PROVE  OneQuestion' /\ BatchIsNew' /\ CreatingIsRead' /\ CreatedIsDone' /\ DeletedStays'
<1> DEFINE e == NextEvent(q)
<1>0. OneQuestion /\ BatchIsNew /\ CreatingIsRead /\ CreatedIsDone /\ DeletedStays
  BY DEF OnceInv
<1>1. /\ sent' = [sent EXCEPT ![q] = @ + 1] /\ sent \in [QA -> Nat]
      /\ UNCHANGED <<position, committed, phase, batch, merged, updates, db, deleted, dropped>>
  BY DEF WriteEvent, LoseEvent, readerVars, workerVars, tableVars, TypeInv, TypeOK
<1>2. /\ \A pp \in Partition : \A i \in DOMAIN log[pp] :
           i \in DOMAIN log'[pp] /\ log'[pp][i] = log[pp][i]
      /\ \A pp \in Partition : \A i \in DOMAIN log'[pp] :
           \/ i \in DOMAIN log[pp]
           \/ log'[pp][i] = e /\ pp = p /\ i = Len(log[p]) + 1
  BY LogGrows
<1>3. \A r : IsQuestion(e, r) => r = q /\ sent[q] = 0
  BY <1>1 DEF IsQuestion, NextEvent
<1>4. \A pp \in Partition : \A i \in DOMAIN log[pp] :
        IsQuestion(log[pp][i], q) => sent[q] # 0
  <2> SUFFICES ASSUME NEW pp \in Partition, NEW i \in DOMAIN log[pp], IsQuestion(log[pp][i], q)
               PROVE  sent[q] # 0
    OBVIOUS
  <2>1. log[pp][i].n <= sent[log[pp][i].qa]
    BY DEF TypeInv, InBounds
  <2> QED
    BY <1>1, <2>1 DEF IsQuestion
<1> HIDE DEF e
<1>5. OneQuestion'
  <2> SUFFICES ASSUME NEW p1 \in Partition, NEW p2 \in Partition,
                      NEW i1 \in DOMAIN log'[p1], NEW i2 \in DOMAIN log'[p2], NEW r \in QA,
                      IsQuestion(log'[p1][i1], r), IsQuestion(log'[p2][i2], r)
               PROVE  p1 = p2 /\ i1 = i2
    BY DEF OneQuestion, IsQuestion
  <2>1. CASE i1 \in DOMAIN log[p1] /\ i2 \in DOMAIN log[p2]
    BY <1>0, <1>2, <2>1 DEF OneQuestion
  <2>2. CASE i1 \notin DOMAIN log[p1] /\ i2 \notin DOMAIN log[p2]
    BY <1>2, <2>2
  <2>3. CASE i1 \in DOMAIN log[p1] /\ i2 \notin DOMAIN log[p2]
    BY <1>2, <1>3, <1>4, <2>3
  <2>4. CASE i1 \notin DOMAIN log[p1] /\ i2 \in DOMAIN log[p2]
    BY <1>2, <1>3, <1>4, <2>4
  <2> QED
    BY <2>1, <2>2, <2>3, <2>4
<1>6. BatchIsNew'
  BY <1>0, <1>1 DEF BatchIsNew
<1>7. \A b \in DOMAIN batch : Message(batch[b])' = Message(batch[b])
  BY <1>1, <1>2, BatchTypes DEF Message
<1>8. CreatingIsRead'
  <2>1. 1 .. merged \subseteq DOMAIN batch
    BY BatchTypes
  <2> SUFFICES ASSUME NEW r \in QA, Creating(r)
               PROVE  \E b \in 1 .. merged : IsQuestion(Message(batch[b])', r)
    BY <1>1 DEF CreatingIsRead, Creating, IsQuestion
  <2> QED
    BY <1>0, <1>7, <2>1 DEF CreatingIsRead
<1>9. CreatedIsDone'
  <2> SUFFICES ASSUME NEW r \in QA, Created(r)
               PROVE  /\ sent'[r] # 0
                      /\ \A pp \in Partition : \A i \in DOMAIN log'[pp] : IsQuestion(log'[pp][i], r) =>
                           \/ i <= committed[pp]
                           \/ /\ phase = "applying" /\ ~Creating(r)
                              /\ \E b \in DOMAIN batch : batch[b] = <<pp, i>>
    BY <1>1 DEF CreatedIsDone, Created, Creating, IsQuestion
  <2>1. sent[r] # 0 /\ sent'[r] # 0
    BY <1>0, <1>1 DEF CreatedIsDone
  <2> SUFFICES ASSUME NEW pp \in Partition, NEW i \in DOMAIN log'[pp], IsQuestion(log'[pp][i], r)
               PROVE  \/ i <= committed[pp]
                      \/ /\ phase = "applying" /\ ~Creating(r)
                         /\ \E b \in DOMAIN batch : batch[b] = <<pp, i>>
    BY <2>1
  <2>2. i \in DOMAIN log[pp]
    BY <1>2, <1>3, <2>1
  <2> QED
    BY <1>0, <1>2, <2>2 DEF CreatedIsDone
<1>10. DeletedStays'
  BY <1>0, <1>1 DEF DeletedStays
<1> QED
  BY <1>5, <1>6, <1>8, <1>9, <1>10

\* Reading: the next message is behind everything the worker has seen.
LEMMA ReadOnce ==
  ASSUME TypeInv, OnceInv, ~Redelivered,
         (\E p \in Partition : Fetch(p)) \/ BatchTimeout \/ FetchError \/ Shutdown
  PROVE  OneQuestion' /\ BatchIsNew' /\ CreatingIsRead' /\ CreatedIsDone' /\ DeletedStays'
<1>0. OneQuestion /\ BatchIsNew /\ CreatingIsRead /\ CreatedIsDone /\ DeletedStays
  BY DEF OnceInv
<1>1. /\ phase = "reading"
      /\ UNCHANGED <<log, sent, committed, merged, updates, db, deleted, dropped>>
  BY DEF Fetch, BatchTimeout, FetchError, Shutdown, backendVars, readerVars, workerVars, tableVars
<1>2. \A q \in QA : ~Creating(q) /\ ~Creating(q)' /\ Created(q)' = Created(q)
  BY <1>1 DEF TypeInv, InBounds, Creating, Created
<1>3. OneQuestion' /\ DeletedStays'
  BY <1>0, <1>1 DEF OneQuestion, DeletedStays
<1>4. CreatingIsRead'
  BY <1>2 DEF CreatingIsRead
<1>5. CreatedIsDone'
  <2>1. \A q \in QA : Created(q) =>
          sent[q] # 0 /\ \A p \in Partition : \A i \in DOMAIN log[p] :
                           IsQuestion(log[p][i], q) => i <= committed[p]
    BY <1>0, <1>1 DEF CreatedIsDone
  <2> QED
    BY <1>1, <1>2, <2>1 DEF CreatedIsDone
<1>6. BatchIsNew'
  <2>1. ASSUME NEW p \in Partition, Fetch(p) PROVE BatchIsNew'
    <3> DEFINE m == <<p, position[p] + 1>>
    <3>1. position \in [Partition -> Nat] /\ committed \in [Partition -> Nat]
          /\ batch \in Seq(Partition \X (Nat \ {0}))
      BY DEF TypeInv, TypeOK
    <3>2. position' = [position EXCEPT ![p] = @ + 1] /\ batch' = Append(batch, m)
      BY <2>1 DEF Fetch
    <3>3. m \in Partition \X (Nat \ {0}) /\ m[1] = p /\ m[2] = position[p] + 1
      BY <3>1
    <3> HIDE DEF m
    <3>4. /\ Len(batch) \in Nat /\ DOMAIN batch = 1 .. Len(batch)
          /\ DOMAIN batch' = 1 .. Len(batch) + 1
          /\ batch'[Len(batch) + 1] = m
          /\ \A b \in DOMAIN batch : batch'[b] = batch[b]
      BY <3>1, <3>2, <3>3
    <3>5. \A pp \in Partition : /\ committed[pp] \in Nat /\ position[pp] \in Nat
                                /\ committed[pp] <= position[pp]
                                /\ position'[pp] = IF pp = p THEN position[p] + 1 ELSE position[pp]
      BY <1>0, <3>1, <3>2 DEF BatchIsNew
    <3>6. \A b \in DOMAIN batch : /\ batch[b][1] \in Partition /\ batch[b][2] \in Nat
                                  /\ committed[batch[b][1]] < batch[b][2]
                                  /\ batch[b][2] <= position[batch[b][1]]
      BY <1>0, BatchTypes DEF BatchIsNew
    <3>7. \A pp \in Partition : committed[pp] <= position'[pp]
      BY <3>5
    <3>8. \A b \in DOMAIN batch' : /\ committed[batch'[b][1]] < batch'[b][2]
                                   /\ batch'[b][2] <= position'[batch'[b][1]]
      <4> SUFFICES ASSUME NEW b \in DOMAIN batch'
                   PROVE  /\ committed[batch'[b][1]] < batch'[b][2]
                          /\ batch'[b][2] <= position'[batch'[b][1]]
        OBVIOUS
      <4>1. CASE b = Len(batch) + 1
        BY <3>3, <3>4, <3>5, <4>1
      <4>2. CASE b # Len(batch) + 1
        BY <3>4, <3>5, <3>6, <4>2
      <4> QED
        BY <4>1, <4>2
    <3>9. \A a, b \in DOMAIN batch' : a < b /\ batch'[a][1] = batch'[b][1] => batch'[a][2] < batch'[b][2]
      <4> SUFFICES ASSUME NEW a \in DOMAIN batch', NEW b \in DOMAIN batch', a < b,
                          batch'[a][1] = batch'[b][1]
                   PROVE  batch'[a][2] < batch'[b][2]
        OBVIOUS
      <4>1. a \in DOMAIN batch /\ batch'[a] = batch[a]
        BY <3>4
      <4>2. CASE b = Len(batch) + 1
        BY <3>3, <3>4, <3>5, <3>6, <4>1, <4>2
      <4>3. CASE b # Len(batch) + 1
        <5>1. b \in DOMAIN batch /\ batch'[b] = batch[b]
          BY <3>4, <4>3
        <5> QED
          BY <1>0, <4>1, <5>1 DEF BatchIsNew
      <4> QED
        BY <4>2, <4>3
    <3> QED
      BY <1>1, <3>7, <3>8, <3>9 DEF BatchIsNew
  <2>2. CASE BatchTimeout
    BY <1>0, <2>2 DEF BatchTimeout, BatchIsNew, readerVars
  <2>3. CASE FetchError
    BY <1>0, <2>3 DEF FetchError, BatchIsNew, readerVars
  <2>4. CASE Shutdown
    BY <1>0, <2>4, BatchTypes DEF Shutdown, BatchIsNew, workerVars
  <2> QED
    BY <2>1, <2>2, <2>3, <2>4
<1> QED
  BY <1>3, <1>4, <1>5, <1>6

\* Merging: what creates comes from a question of the batch.
LEMMA MergeOnce ==
  ASSUME TypeInv, OnceInv, ~Redelivered, Merge
  PROVE  OneQuestion' /\ BatchIsNew' /\ CreatingIsRead' /\ CreatedIsDone' /\ DeletedStays'
<1> DEFINE e == Message(batch[merged + 1])
<1>0. OneQuestion /\ BatchIsNew /\ CreatingIsRead /\ CreatedIsDone /\ DeletedStays
  BY DEF OnceInv
<1>1. /\ phase = "merging" /\ merged' = merged + 1 /\ merged + 1 \in DOMAIN batch /\ merged \in Nat
      /\ UNCHANGED <<log, sent, position, committed, batch, db, deleted, dropped>>
      /\ updates \in [QA -> Query \union {None}]
      /\ updates' = IF Content(e).valid
                    THEN [updates EXCEPT ![e.qa] = MergeQuery(ConvertEvent(e), updates[e.qa])]
                    ELSE updates
  <2>1. updates \in [QA -> Query \union {None}]
    BY DEF TypeInv, TypeOK
  <2>2. merged < Len(batch) /\ merged + 1 \in DOMAIN batch /\ merged \in Nat
    BY BatchTypes DEF Merge
  <2> QED
    BY <2>1, <2>2 DEF Merge, backendVars, readerVars, tableVars
<1>2. OneQuestion' /\ DeletedStays' /\ BatchIsNew'
  BY <1>0, <1>1 DEF OneQuestion, DeletedStays, BatchIsNew
<1>3. ASSUME NEW q \in QA, Creating(q)'
      PROVE  Creating(q) \/ IsQuestion(e, q)
  <2>1. CASE ~Content(e).valid
    BY <1>1, <1>3, <2>1 DEF Creating
  <2>2. CASE Content(e).valid /\ e.qa = q
    <3>1. ConvertEvent(e).create => IsQuestion(e, q)
      BY <1>1, <2>2, ConvertedFrom
    <3> HIDE DEF e
    <3>2. updates'[q] = MergeQuery(ConvertEvent(e), updates[q])
      BY <1>1, <2>2
    <3>3. updates'[q].create
      BY <1>3 DEF Creating
    <3>4. ConvertEvent(e).create \/ Creating(q)
      <4>1. CASE updates[q] = None
        BY <3>2, <3>3, <4>1 DEF MergeQuery
      <4>2. CASE updates[q] # None
        <5>1. MergeQuery(ConvertEvent(e), updates[q]).create = (updates[q].create \/ ConvertEvent(e).create)
          BY <4>2 DEF MergeQuery
        <5> QED
          BY <3>2, <3>3, <4>2, <5>1 DEF Creating
      <4> QED
        BY <4>1, <4>2
    <3> QED
      BY <3>1, <3>4
  <2>3. CASE Content(e).valid /\ e.qa # q
    BY <1>1, <1>3, <2>3 DEF Creating
  <2> QED
    BY <2>1, <2>2, <2>3
<1>4. CreatingIsRead'
  <2> SUFFICES ASSUME NEW q \in QA, Creating(q)'
               PROVE  \E b \in 1 .. merged' : IsQuestion(Message(batch[b]), q)
    BY <1>1 DEF CreatingIsRead, Message, IsQuestion
  <2>1. CASE Creating(q)
    <3>1. PICK b \in 1 .. merged : IsQuestion(Message(batch[b]), q)
      BY <1>0, <2>1 DEF CreatingIsRead
    <3>2. b \in 1 .. merged'
      BY <1>1
    <3> QED
      BY <3>1, <3>2
  <2>2. CASE IsQuestion(e, q)
    <3>1. merged + 1 \in 1 .. merged'
      BY <1>1
    <3> QED
      BY <2>2, <3>1
  <2> QED
    BY <1>3, <2>1, <2>2
<1>5. CreatedIsDone'
  <2>1. \A q \in QA : Created(q) =>
          sent[q] # 0 /\ \A p \in Partition : \A i \in DOMAIN log[p] :
                           IsQuestion(log[p][i], q) => i <= committed[p]
    BY <1>0, <1>1 DEF CreatedIsDone
  <2> QED
    BY <1>1, <2>1 DEF CreatedIsDone, Created
<1> QED
  BY <1>2, <1>4, <1>5

\* While nothing is redelivered, no row is there yet when one is created.
LEMMA CreateOnce ==
  ASSUME TypeInv, OnceInv, ~Redelivered, NEW q \in QA, Creating(q), phase = "applying"
  PROVE  /\ ~Created(q)
         /\ sent[q] # 0
         /\ \A p \in Partition : \A i \in DOMAIN log[p] : IsQuestion(log[p][i], q) =>
              \E b \in DOMAIN batch : batch[b] = <<p, i>>
<1>0. OneQuestion /\ BatchIsNew /\ CreatingIsRead /\ CreatedIsDone
  BY DEF OnceInv
<1>1. PICK b \in 1 .. merged : IsQuestion(Message(batch[b]), q)
  BY <1>0 DEF CreatingIsRead
<1>2. b \in DOMAIN batch
  BY BatchTypes
<1>3. PICK p \in Partition, i \in Nat : batch[b] = <<p, i>> /\ i \in DOMAIN log[p]
  BY <1>2, BatchTypes
<1>4. IsQuestion(log[p][i], q)
  BY <1>1, <1>3 DEF Message
<1>5. committed[p] < i /\ committed[p] \in Nat
  BY <1>0, <1>2, <1>3, BatchTypes DEF BatchIsNew
<1>6. ~Created(q)
  <2>1. ~(i <= committed[p])
    BY <1>3, <1>5
  <2> QED
    BY <1>0, <1>3, <1>4, <2>1 DEF CreatedIsDone
<1>7. sent[q] # 0
  <2>1. log[p][i].n <= sent[log[p][i].qa] /\ sent[q] \in Nat
    BY <1>3 DEF TypeInv, TypeOK, InBounds
  <2> QED
    BY <1>4, <2>1 DEF IsQuestion
<1>8. ASSUME NEW pp \in Partition, NEW ii \in DOMAIN log[pp], IsQuestion(log[pp][ii], q)
      PROVE  batch[b] = <<pp, ii>>
  BY <1>0, <1>3, <1>4, <1>8 DEF OneQuestion
<1> QED
  BY <1>2, <1>6, <1>7, <1>8

\* Applying.
LEMMA ApplyOnce ==
  ASSUME TypeInv, OnceInv, ~Redelivered, NEW q \in QA,
         CreateQA(q) \/ UpdateQA(q) \/ WriteError(q)
  PROVE  OneQuestion' /\ BatchIsNew' /\ CreatingIsRead' /\ CreatedIsDone' /\ DeletedStays'
<1>0. OneQuestion /\ BatchIsNew /\ CreatingIsRead /\ CreatedIsDone /\ DeletedStays
  BY DEF OnceInv
<1>1. /\ phase = "applying"
      /\ updates' = [updates EXCEPT ![q] = None] /\ updates \in [QA -> Query \union {None}]
      /\ db \in [QA -> Row \union {None}]
      /\ UNCHANGED <<log, sent, position, committed, phase, batch, merged, deleted>>
  BY DEF CreateQA, UpdateQA, WriteError, backendVars, readerVars, TypeInv, TypeOK
<1>2. ~Creating(q)' /\ \A r \in QA : r # q => Creating(r)' = Creating(r)
  BY <1>1 DEF Creating
<1>3. /\ CreateQA(q) => Creating(q)
      /\ \A r \in QA : r # q => db'[r] = db[r]
      /\ ~CreateQA(q) => (db'[q] = None <=> db[q] = None)
  <2>1. CASE CreateQA(q)
    BY <1>1, <2>1 DEF CreateQA, Creating
  <2>2. CASE UpdateQA(q) /\ ~CreateQA(q)
    <3>1. CASE db[q] = None
      BY <2>2, <3>1 DEF UpdateQA
    <3>2. CASE db[q] # None
      <4>1. db[q] \in Row /\ updates[q] \in Query
        BY <1>1, <2>2, <3>2 DEF UpdateQA
      <4>2. UpdateRow(db[q], updates[q]) \in Row
        BY <4>1, RowTypes
      <4>3. db' = [db EXCEPT ![q] = UpdateRow(db[q], updates[q])]
        BY <2>2, <3>2 DEF UpdateQA
      <4> QED
        BY <1>1, <2>2, <3>2, <4>2, <4>3, NoneAssumption
    <3> QED
      BY <3>1, <3>2
  <2>3. CASE WriteError(q) /\ ~CreateQA(q)
    BY <2>3 DEF WriteError
  <2> QED
    BY <2>1, <2>2, <2>3
<1>4. OneQuestion' /\ BatchIsNew'
  BY <1>0, <1>1 DEF OneQuestion, BatchIsNew
<1>5. CreatingIsRead'
  <2>1. \A r \in QA : Creating(r)' => Creating(r)
    BY <1>2
  <2> QED
    BY <1>0, <1>1, <2>1 DEF CreatingIsRead, Message, IsQuestion
<1>6. CreatedIsDone'
  <2> SUFFICES ASSUME NEW r \in QA, Created(r)'
               PROVE  /\ sent[r] # 0
                      /\ \A p \in Partition : \A i \in DOMAIN log[p] : IsQuestion(log[p][i], r) =>
                           \/ i <= committed[p]
                           \/ ~Creating(r)' /\ \E b \in DOMAIN batch : batch[b] = <<p, i>>
    BY <1>1 DEF CreatedIsDone, IsQuestion
  <2>1. CASE r # q
    <3>1. Created(r) /\ Creating(r)' = Creating(r)
      BY <1>1, <1>2, <1>3, <2>1 DEF Created
    <3> QED
      BY <1>0, <3>1 DEF CreatedIsDone
  <2>2. CASE r = q /\ CreateQA(q)
    BY <1>1, <1>2, <1>3, <2>2, CreateOnce
  <2>3. CASE r = q /\ ~CreateQA(q)
    <3>1. Created(q)
      BY <1>1, <1>3, <2>3 DEF Created
    <3> QED
      BY <1>0, <1>2, <2>3, <3>1 DEF CreatedIsDone
  <2> QED
    BY <2>1, <2>2, <2>3
<1>7. DeletedStays'
  <2>0. deleted \subseteq QA
    BY DEF TypeInv, TypeOK
  <2>1. CASE CreateQA(q)
    <3>1. q \notin deleted
      BY <1>1, <1>3, <2>1, CreateOnce DEF Created
    <3> QED
      BY <1>0, <1>1, <1>3, <2>0, <3>1 DEF DeletedStays
  <2>2. CASE ~CreateQA(q)
    BY <1>0, <1>1, <1>3, <2>0, <2>2 DEF DeletedStays
  <2> QED
    BY <2>1, <2>2
<1> QED
  BY <1>4, <1>5, <1>6, <1>7

\* The offset committed for a partition is past the batch, and not past the reader.
LEMMA CommitOffsetCovers ==
  ASSUME TypeInv, BatchIsNew, NEW p \in Partition
  PROVE  /\ committed[p] <= CommitOffset(p) /\ CommitOffset(p) <= position[p]
         /\ CommitOffset(p) \in Nat
         /\ \A b \in DOMAIN batch : batch[b][1] = p => batch[b][2] <= CommitOffset(p)
<1>1. CommitOffset(p) \in Nat /\ committed[p] \in Nat /\ position[p] \in Nat
      /\ committed[p] <= position[p]
  BY CommitOffsetType, BatchTypes DEF BatchIsNew
<1>2. \A b \in DOMAIN batch : batch[b][1] = p => batch[b][2] <= CommitOffset(p)
  BY CommitOffsetIs
<1>3. CASE CommitOffset(p) = committed[p]
  BY <1>1, <1>2, <1>3
<1>4. ASSUME NEW b \in DOMAIN batch, batch[b][1] = p, CommitOffset(p) = batch[b][2]
      PROVE  committed[p] <= CommitOffset(p) /\ CommitOffset(p) <= position[p]
  <2>1. committed[p] < batch[b][2] /\ batch[b][2] <= position[p]
    BY <1>4 DEF BatchIsNew
  <2> QED
    BY <1>1, <1>4, <2>1
<1> QED
  BY <1>1, <1>2, <1>3, <1>4, CommitOffsetIs

\* Committing: the batch is behind the worker.
LEMMA CommitOnce ==
  ASSUME TypeInv, OnceInv, ~Redelivered, Commit
  PROVE  OneQuestion' /\ BatchIsNew' /\ CreatingIsRead' /\ CreatedIsDone' /\ DeletedStays'
<1>0. OneQuestion /\ BatchIsNew /\ CreatingIsRead /\ CreatedIsDone /\ DeletedStays
  BY DEF OnceInv
<1>1. /\ \A q \in QA : updates[q] = None
      /\ committed' = [p \in Partition |-> CommitOffset(p)]
      /\ phase' = "reading" /\ batch' = <<>>
      /\ UNCHANGED <<log, sent, position, updates, db, deleted, dropped>>
  BY DEF Commit, AllApplied, EndBatch, backendVars, tableVars
<1>2. OneQuestion' /\ DeletedStays'
  BY <1>0, <1>1 DEF OneQuestion, DeletedStays
<1>3. CreatingIsRead'
  BY <1>1 DEF CreatingIsRead, Creating
<1>4. BatchIsNew'
  BY <1>0, <1>1, CommitOffsetCovers DEF BatchIsNew
<1>5. CreatedIsDone'
  <2> SUFFICES ASSUME NEW q \in QA, Created(q), NEW p \in Partition, NEW i \in DOMAIN log[p],
                      IsQuestion(log[p][i], q)
               PROVE  i <= CommitOffset(p)
    BY <1>0, <1>1 DEF CreatedIsDone, Created, IsQuestion
  <2>1. i \in Nat /\ committed[p] \in Nat
    BY BatchTypes
  <2>2. i <= committed[p] \/ \E b \in DOMAIN batch : batch[b] = <<p, i>>
    BY <1>0 DEF CreatedIsDone
  <2> QED
    BY <1>0, <2>1, <2>2, CommitOffsetCovers
<1> QED
  BY <1>2, <1>3, <1>4, <1>5

\* The REST handlers: what is deleted was created.
LEMMA ApiOnce ==
  ASSUME TypeInv, OnceInv, ~Redelivered, NEW q \in QA, DeleteQA(q) \/ \E v \in Vote : UpdateVote(q, v)
  PROVE  OneQuestion' /\ BatchIsNew' /\ CreatingIsRead' /\ CreatedIsDone' /\ DeletedStays'
<1>0. OneQuestion /\ BatchIsNew /\ CreatingIsRead /\ CreatedIsDone /\ DeletedStays
  BY DEF OnceInv
<1>1. UNCHANGED <<log, sent, position, committed, phase, batch, merged, updates>>
  BY DEF DeleteQA, UpdateVote, backendVars, readerVars, workerVars
<1>2. \/ /\ db[q] # None /\ deleted' = deleted \union {q}
         /\ db'[q] = None /\ \A r \in QA : r # q => db'[r] = db[r]
      \/ deleted' = deleted /\ \A r \in QA : db'[r] = None <=> db[r] = None
  <2>0. db \in [QA -> Row \union {None}]
    BY DEF TypeInv, TypeOK
  <2>1. CASE DeleteQA(q)
    BY <2>0, <2>1 DEF DeleteQA
  <2>2. ASSUME NEW v \in Vote, UpdateVote(q, v)
        PROVE  deleted' = deleted /\ \A r \in QA : db'[r] = None <=> db[r] = None
    <3>1. CASE db[q] = None
      BY <2>2, <3>1 DEF UpdateVote
    <3>2. CASE db[q] # None
      <4>1. db[q] \in Row /\ db' = [db EXCEPT ![q] = [db[q] EXCEPT !.vote = v]] /\ deleted' = deleted
        BY <2>0, <2>2, <3>2 DEF UpdateVote
      <4>2. [db[q] EXCEPT !.vote = v] \in Row
        BY <4>1 DEF Row
      <4> QED
        BY <2>0, <3>2, <4>1, <4>2, NoneAssumption
    <3> QED
      BY <3>1, <3>2
  <2> QED
    BY <2>1, <2>2
<1>3. OneQuestion' /\ BatchIsNew'
  BY <1>0, <1>1 DEF OneQuestion, BatchIsNew
<1>4. CreatingIsRead'
  BY <1>0, <1>1 DEF CreatingIsRead, Creating, Message, IsQuestion
<1>5. \A r \in QA : Created(r)' => Created(r)
  BY <1>2 DEF Created
<1>6. CreatedIsDone'
  BY <1>0, <1>1, <1>5 DEF CreatedIsDone, Creating, IsQuestion
<1>7. DeletedStays'
  <2>1. deleted \subseteq QA
    BY DEF TypeInv, TypeOK
  <2> QED
    BY <1>0, <1>2, <2>1 DEF DeletedStays
<1> QED
  BY <1>3, <1>4, <1>6, <1>7

LEMMA OnceSteps ==
  ASSUME TypeInv, OnceInv, [Next]_vars
  PROVE  OnceInv'
<1> SUFFICES ASSUME ~Redelivered'
             PROVE  OneQuestion' /\ BatchIsNew' /\ CreatingIsRead' /\ CreatedIsDone' /\ DeletedStays'
  BY DEF OnceInv
<1>0. /\ ~Redelivered
      /\ ~CommitError /\ ~Crash /\ ~Rebalance
      /\ \A p \in Partition : ~RetryBatch(p)
  BY FaultsOfSteps DEF TypeInv
<1>1. PICK p \in Partition : TRUE
  BY ConstantsAssumption
<1>2. CASE UNCHANGED vars
  <2>1. UNCHANGED <<log, sent, position, committed, phase, batch, merged, updates, db, deleted>>
    BY <1>2 DEF vars, backendVars, readerVars, workerVars, tableVars
  <2>2. OneQuestion /\ BatchIsNew /\ CreatingIsRead /\ CreatedIsDone /\ DeletedStays
    BY <1>0 DEF OnceInv
  <2> QED
    BY <2>1, <2>2 DEF OneQuestion, BatchIsNew, CreatingIsRead, CreatedIsDone, DeletedStays,
                      Creating, Created, IsQuestion, Message
<1> QED
  BY <1>0, <1>1, <1>2, WriteOnce, ReadOnce, MergeOnce, ApplyOnce, CommitOnce, ApiOnce
     DEF Next, Backend, Worker, Faulty, Api

\* A query is skipped only when its statement failed or its row is already there.
LEMMA SkippedSteps ==
  ASSUME TypeInv, OnceInv, SkippedOnlyAfterFault, [Next]_vars
  PROVE  SkippedOnlyAfterFault'
<1>1. faults # <<>> => faults' # <<>>
  BY FaultsOfSteps DEF TypeInv
<1>2. CASE UNCHANGED dropped
  BY <1>1, <1>2 DEF SkippedOnlyAfterFault
<1>3. ASSUME NEW q \in QA, WriteError(q) PROVE SkippedOnlyAfterFault'
  BY <1>3, FaultsOfSteps DEF SkippedOnlyAfterFault, TypeInv
<1>4. ASSUME NEW q \in QA, CreateQA(q), dropped' # dropped PROVE SkippedOnlyAfterFault'
  <2>1. phase = "applying" /\ Creating(q) /\ Created(q)
    BY <1>4 DEF CreateQA, Creating, Created
  <2>2. Redelivered
    BY <2>1, CreateOnce
  <2>3. faults # <<>>
    BY <2>2 DEF Redelivered, Happened
  <2> QED
    BY <1>1, <2>3 DEF SkippedOnlyAfterFault
<1>5. \/ UNCHANGED dropped
      \/ \E q \in QA : WriteError(q) \/ CreateQA(q)
  BY DEF Next, Backend, Worker, Faulty, Api, WriteEvent, LoseEvent, RetryBatch, Fetch,
         BatchTimeout, FetchError, Merge, CreateQA, UpdateQA, Commit, CommitError,
         Shutdown, Crash, Rebalance, DeleteQA, UpdateVote, vars, tableVars
<1> QED
  BY <1>2, <1>3, <1>4, <1>5

LEMMA InitRowInv == Init => RowInv
<1> SUFFICES ASSUME Init PROVE RowInv
  OBVIOUS
<1>1. TypeInv
  BY InitTypeInv
<1>2. TracedInv
  BY DEF Init, TracedInv
<1>3. OnceInv
  BY DEF Init, OnceInv, OneQuestion, BatchIsNew, CreatingIsRead, CreatedIsDone, DeletedStays,
         Creating, Created
<1>4. SkippedOnlyAfterFault
  BY DEF Init, SkippedOnlyAfterFault
<1> QED
  BY <1>1, <1>2, <1>3, <1>4 DEF RowInv

LEMMA RowInvHolds == Spec => []RowInv
<1>1. RowInv /\ [Next]_vars => RowInv'
  BY NextTypeInv, TracedSteps, OnceSteps, SkippedSteps DEF RowInv
<1> QED
  BY InitRowInv, <1>1, PTL DEF Spec

\* Without a fault no query is skipped: the offsets are committed only after their
\* messages are applied and only a redelivered question finds its row in place.
THEOREM SkippedOnlyAfterFaultHolds == Spec => []SkippedOnlyAfterFault
<1>1. RowInv => SkippedOnlyAfterFault
  BY DEF RowInv
<1> QED
  BY RowInvHolds, <1>1, PTL

\* Under every fault a row is made of its own QA's events and has its question, and a
\* deleted row is back only if something was redelivered.
THEOREM RowsComeFromTheirEventsHolds == Spec => []RowsComeFromTheirEvents
<1>1. RowInv => RowsComeFromTheirEvents
  <2> SUFFICES ASSUME RowInv, NEW q \in QA, db[q] # None
               PROVE  /\ q \in deleted => Redelivered
                      /\ db[q].cols["Question"] # 0
                      /\ From(q, db[q].cols, log)
    BY DEF RowsComeFromTheirEvents, From
  <2> QED
    BY DEF RowInv, TracedInv, OnceInv, DeletedStays
<1> QED
  BY RowInvHolds, <1>1, PTL

\* No step of the consumer changes the vote of a row.
THEOREM VotesSurvive == Spec => VotesSurviveEvents
<1>1. ASSUME TypeInv, [Next]_vars, NEW q \in QA, db[q] # None, db'[q] # None, votes' = votes
      PROVE  db'[q].vote = db[q].vote
  <2>0. db \in [QA -> Row \union {None}] /\ votes \in Nat
    BY <1>1 DEF TypeInv, TypeOK
  <2>1. CASE UNCHANGED db
    BY <2>1
  <2>2. ASSUME NEW r \in QA, CreateQA(r) PROVE db'[q] = db[q]
    BY <1>1, <2>0, <2>2 DEF CreateQA
  <2>3. ASSUME NEW r \in QA, UpdateQA(r) PROVE db'[q].vote = db[q].vote
    <3>1. CASE db[r] = None \/ r # q
      BY <2>0, <2>3, <3>1 DEF UpdateQA
    <3>2. CASE r = q /\ db[q] # None
      <4>1. db'[q] = UpdateRow(db[q], updates[q]) /\ db[q] \in Row
        BY <2>0, <2>3, <3>2 DEF UpdateQA
      <4>2. UpdateRow(db[q], updates[q]).vote = db[q].vote
        BY <4>1 DEF UpdateRow, Row
      <4> QED
        BY <4>1, <4>2
    <3> QED
      BY <1>1, <3>1, <3>2
  <2>4. ASSUME NEW r \in QA, DeleteQA(r) PROVE db'[q] = db[q]
    BY <1>1, <2>0, <2>4 DEF DeleteQA
  <2>5. ASSUME NEW r \in QA, NEW v \in Vote, UpdateVote(r, v) PROVE FALSE
    BY <1>1, <2>0, <2>5 DEF UpdateVote
  <2>6. \/ UNCHANGED db
        \/ \E r \in QA : \/ CreateQA(r) \/ UpdateQA(r) \/ DeleteQA(r)
                         \/ \E v \in Vote : UpdateVote(r, v)
    BY <1>1 DEF Next, Backend, Worker, Faulty, Api, WriteEvent, LoseEvent, RetryBatch, Fetch,
         BatchTimeout, FetchError, Merge, WriteError, Commit, CommitError,
         Shutdown, Crash, Rebalance, vars, tableVars
  <2> QED
    BY <2>1, <2>2, <2>3, <2>4, <2>5, <2>6
<1>2. TypeInv /\ [Next]_vars =>
        [\A q \in QA : db[q] # None /\ db'[q] # None /\ votes' = votes
           => db'[q].vote = db[q].vote]_vars
  BY <1>1
<1> QED
  BY InitTypeInv, NextTypeInv, <1>2, PTL DEF Spec, VotesSurviveEvents
---------------------------------------------------------------------------

SinglePartition == \A p1, p2 \in Partition : p1 = p2

NoFileReferences ==
  \A q \in QA : \A i \in DOMAIN Script[q] : Script[q][i].column # "FileReferences"

\* No batch was discarded by a fetch error, no write was lost by the backend,
\* and no rebalance happened under a batch in progress.
Tolerated == ~Happened({"fetch", "writeLost", "rebalance"})

\* What one partition holds below the batch: Base(p) messages.
Base(p) == position[p] - Len(batch)

\* The batch is the window of the log that follows Base, and nothing above
\* Base is committed.
InvWindow ==
  \A p \in Partition :
    /\ committed[p] <= Base(p)
    /\ \A i \in DOMAIN batch : batch[i] = <<p, Base(p) + i>>

\* e carries an earlier version of the column that f sets.
Older(e, f) ==
  /\ e.qa = f.qa
  /\ Content(e).column = Content(f).column
  /\ Content(e).value < Content(f).value

\* The events of one QA are in the log in the order of its script, but for batches
\* stored twice: an event that an older one follows is there once more behind it.
InvOrdered ==
  \A p \in Partition : \A i, j \in DOMAIN log[p] :
    i <= j /\ Older(log[p][j], log[p][i]) =>
      \E m \in DOMAIN log[p] : j < m /\ log[p][m] = log[p][i]

\* The event, which creates no row, is once more above k.
Again(e, p, k) == e.n # 1 /\ \E m \in DOMAIN log[p] : k < m /\ log[p][m] = e

\* The QuestionCreated event of a QA precedes its other events.
InvQuestionFirst ==
  \A p \in Partition :
    /\ \A i \in DOMAIN log[p] :
         \E j \in 1 .. i : log[p][j].qa = log[p][i].qa /\ log[p][j].n = 1
    /\ \A q \in QA : sent[q] > 0 =>
         \E j \in DOMAIN log[p] : log[p][j].qa = q /\ log[p][j].n = 1

\* The event is part of the query that waits to be applied to its QA.
Pending(e) ==
  /\ updates[e.qa] # None
  /\ updates[e.qa].cols[Content(e).column] >= Content(e).value
  /\ Content(e).column = "Question" => updates[e.qa].create

\* The query of the event's QA was applied.
Applied(e) == phase = "applying" /\ updates[e.qa] = None /\ Accounted(e)

\* A message of the batch that was merged is pending, was applied, or is still to
\* be merged once more.
InvMerged ==
  \A p \in Partition : \A i \in 1 .. merged :
    LET e == Message(batch[i])
    IN  Content(e).valid => Pending(e) \/ Applied(e) \/ Again(e, p, Base(p) + merged)

\* A pending query is made of events of its QA in the batch.
InvUpdates ==
  \A q \in QA : updates[q] # None =>
    /\ \E i \in 1 .. merged : Message(batch[i]).qa = q
    /\ \A c \in Column : updates[q].cols[c] # 0 =>
         \E i \in 1 .. merged :
           /\ Message(batch[i]).qa = q
           /\ Content(Message(batch[i])).column = c
           /\ Content(Message(batch[i])).value = updates[q].cols[c]

\* Everything below the batch is accounted for, or is above it once more.
InvBase ==
  \A p \in Partition : \A i \in 1 .. Base(p) :
    Accounted(log[p][i]) \/ Again(log[p][i], p, Base(p))

IInv ==
  /\ TypeInv /\ InvWindow /\ InvOrdered /\ InvQuestionFirst
  /\ InvMerged /\ InvUpdates /\ InvBase

---------------------------------------------------------------------------
(* Facts about scripts and messages.                                       *)

\* Along a script the versions of one column do not go back.
LEMMA ScriptOrder ==
  ASSUME NEW q \in QA, NEW i \in DOMAIN Script[q], NEW j \in DOMAIN Script[q],
         i <= j, Script[q][i].column = Script[q][j].column
  PROVE  Script[q][i].value <= Script[q][j].value
<1>1. Script[q] \in Seq(ScriptEvent) /\ Cumulative(Script[q])
  BY ScriptAssumption
<1>2. Script[q][i].value \in Nat
  <2>1. Script[q][i] \in ScriptEvent
    BY <1>1
  <2> QED
    BY <2>1 DEF ScriptEvent
<1>3. CASE i = j
  BY <1>2, <1>3
<1>4. CASE i # j
  BY <1>1, <1>4 DEF Cumulative
<1> QED
  BY <1>3, <1>4

\* The message at an index of the batch, seen in the log of the partition.
LEMMA WindowMessage ==
  ASSUME TypeInv, InvWindow, NEW p \in Partition, NEW i \in DOMAIN batch
  PROVE  /\ Message(batch[i]) = log[p][Base(p) + i]
         /\ Base(p) + i \in DOMAIN log[p]
         /\ Base(p) \in Nat
<1>1. batch[i] = <<p, Base(p) + i>>
  BY DEF InvWindow
<1>2. Base(p) + i \in DOMAIN log[p]
  BY <1>1, BatchMessage
<1>3. Message(batch[i]) = log[p][Base(p) + i]
  BY <1>1 DEF Message
<1>4. Base(p) \in Nat
  BY DEF TypeInv, TypeOK, InvWindow, Base
<1> QED
  BY <1>2, <1>3, <1>4

\* The content of a message of the log, field by field.
LEMMA LogContent ==
  ASSUME TypeInv, NEW p \in Partition, NEW i \in DOMAIN log[p]
  PROVE  /\ log[p][i].qa \in QA
         /\ log[p][i].n \in Nat \ {0}
         /\ log[p][i].n \in DOMAIN Script[log[p][i].qa]
         /\ Content(log[p][i]).column \in Column
         /\ Content(log[p][i]).value \in Nat
         /\ Content(log[p][i]).valid \in BOOLEAN
         /\ Content(log[p][i]).column = "Question" <=> log[p][i].n = 1
         /\ log[p][i].n = 1 => Content(log[p][i]).valid
<1>1. /\ log[p][i] \in MessageSet
      /\ log[p][i].n \in DOMAIN Script[log[p][i].qa]
      /\ Content(log[p][i]) \in ScriptEvent
  BY MessageContent
<1>2. log[p][i].qa \in QA /\ log[p][i].n \in Nat \ {0}
  BY <1>1 DEF MessageSet
<1>3. /\ Content(log[p][i]).column = "Question" <=> log[p][i].n = 1
      /\ log[p][i].n = 1 => Content(log[p][i]).valid
  BY <1>1, <1>2, ScriptAssumption DEF Content
<1> QED
  BY <1>1, <1>2, <1>3 DEF ScriptEvent

\* The question of a QA has one version.
LEMMA OlderIsNoQuestion ==
  ASSUME TypeInv, NEW p \in Partition, NEW i \in DOMAIN log[p], NEW j \in DOMAIN log[p],
         Older(log[p][i], log[p][j])
  PROVE  log[p][j].n # 1
<1> SUFFICES ASSUME log[p][j].n = 1 PROVE FALSE
  OBVIOUS
<1>1. Content(log[p][j]).column = "Question" /\ Content(log[p][j]).value \in Nat
  BY LogContent
<1>2. log[p][i].n = 1 /\ log[p][i].qa = log[p][j].qa
  BY <1>1, LogContent DEF Older
<1>3. Content(log[p][i]).value = Content(log[p][j]).value
  BY <1>2 DEF Content
<1> QED
  BY <1>1, <1>3 DEF Older

\* What is above k once more stays there while the topic grows.
LEMMA AgainGrows ==
  ASSUME NEW p \in Partition, NEW e, NEW k, Again(e, p, k),
         \A i \in DOMAIN log[p] : i \in DOMAIN log'[p] /\ log'[p][i] = log[p][i]
  PROVE  e.n # 1 /\ \E m \in DOMAIN log'[p] : k < m /\ log'[p][m] = e
  BY DEF Again

\* Whether an event is accounted for depends on the table only.
LEMMA AccountedUnchanged ==
  ASSUME UNCHANGED <<db, deleted, dropped>>, NEW e
  PROVE  Accounted(e)' <=> Accounted(e)
  BY DEF Accounted, Registered, InRow, Content

LEMMA PendingUnchanged ==
  ASSUME UNCHANGED updates, NEW e
  PROVE  Pending(e)' <=> Pending(e)
  BY DEF Pending, Content

LEMMA BaseUnchanged ==
  ASSUME InvBase, UNCHANGED <<log, position, batch, db, deleted, dropped>>
  PROVE  InvBase'
<1> SUFFICES ASSUME NEW p \in Partition, NEW i \in 1 .. Base(p)
             PROVE  Accounted(log[p][i])' \/ Again(log[p][i], p, Base(p))
  BY DEF InvBase, Base, Again
<1>1. Accounted(log[p][i]) \/ Again(log[p][i], p, Base(p))
  BY DEF InvBase
<1> QED
  BY <1>1 DEF Accounted, Registered, InRow, Content

---------------------------------------------------------------------------
(* The invariant is inductive.                                             *)

LEMMA InitIInv == Init => IInv
<1> SUFFICES ASSUME Init PROVE IInv
  OBVIOUS
<1>1. TypeInv
  BY InitTypeInv
<1>2. \A p \in Partition : Base(p) = 0 /\ committed[p] = 0 /\ log[p] = <<>>
  BY DEF Init, Base
<1>3. InvWindow
  BY <1>2 DEF InvWindow, Init
<1>4. InvOrdered /\ InvQuestionFirst
  BY <1>2 DEF InvOrdered, InvQuestionFirst, Init
<1>5. InvMerged /\ InvUpdates
  BY DEF InvMerged, InvUpdates, Init
<1>6. InvBase
  BY <1>2 DEF InvBase
<1> QED
  BY <1>1, <1>3, <1>4, <1>5, <1>6 DEF IInv

\* A step that only makes the topic longer keeps what the worker has done.
LEMMA GrownIInv ==
  ASSUME IInv, TypeInv', InvOrdered', InvQuestionFirst',
         UNCHANGED <<position, committed, phase, batch, merged, updates, db, deleted, dropped>>,
         \A p \in Partition : \A i \in DOMAIN log[p] :
           i \in DOMAIN log'[p] /\ log'[p][i] = log[p][i]
  PROVE  IInv'
<1>1. TypeInv
  BY DEF IInv
<1>2. InvWindow'
  BY DEF IInv, InvWindow, Base
<1>3. \A i \in DOMAIN batch : Message(batch[i])' = Message(batch[i])
  BY <1>1, BatchMessage DEF Message
<1>4. 1 .. merged \subseteq DOMAIN batch
  BY <1>1 DEF TypeInv, TypeOK
<1>5. \A e : (Accounted(e)' <=> Accounted(e)) /\ (Pending(e)' <=> Pending(e)) /\ Content(e)' = Content(e)
  BY AccountedUnchanged, PendingUnchanged DEF Content
<1>6. \A p \in Partition : \A e, k : Again(e, p, k) =>
         e.n # 1 /\ \E m \in DOMAIN log'[p] : k < m /\ log'[p][m] = e
  BY AgainGrows
<1>7. InvMerged'
  <2> SUFFICES ASSUME NEW p \in Partition, NEW i \in 1 .. merged,
                      NEW e, e = Message(batch[i]), Content(e).valid
               PROVE  \/ Pending(e)
                      \/ phase = "applying" /\ updates[e.qa] = None /\ Accounted(e)
                      \/ e.n # 1 /\ \E m \in DOMAIN log'[p] : Base(p) + merged < m /\ log'[p][m] = e
    BY <1>3, <1>4, <1>5 DEF InvMerged, Applied, Again, Base, Content
  <2>1. Pending(e) \/ Applied(e) \/ Again(e, p, Base(p) + merged)
    BY DEF IInv, InvMerged
  <2> QED
    BY <1>6, <2>1 DEF Applied
<1>8. InvUpdates'
  BY <1>3, <1>4 DEF IInv, InvUpdates, Content
<1>9. InvBase'
  <2> SUFFICES ASSUME NEW p \in Partition, NEW i \in 1 .. Base(p)
               PROVE  \/ Accounted(log'[p][i])
                      \/ /\ log'[p][i].n # 1
                         /\ \E m \in DOMAIN log'[p] : Base(p) < m /\ log'[p][m] = log'[p][i]
    <3>1. \A pp \in Partition : Base(pp)' = Base(pp)
      BY DEF Base
    <3> QED
      BY <1>5, <3>1 DEF InvBase, Again
  <2>1. i \in DOMAIN log[p]
    BY <1>1, BatchTypes DEF TypeInv, InBounds, Base
  <2>2. log'[p][i] = log[p][i] /\ (Accounted(log[p][i]) \/ Again(log[p][i], p, Base(p)))
    BY <2>1 DEF IInv, InvBase
  <2> QED
    BY <1>6, <2>2
<1> QED
  BY <1>2, <1>7, <1>8, <1>9 DEF IInv

\* The next event of a QA carries the latest version of its column.
LEMMA NextIsNotOlder ==
  ASSUME TypeInv, NEW q \in QA, sent[q] < Len(Script[q]),
         NEW p \in Partition, NEW i \in DOMAIN log[p]
  PROVE  ~Older(NextEvent(q), log[p][i])
<1> DEFINE f == log[p][i]
<1> SUFFICES ASSUME f.qa = q, Content(NextEvent(q)).column = Content(f).column
             PROVE  Content(f).value <= Content(NextEvent(q)).value /\ Content(f).value \in Nat
                    /\ Content(NextEvent(q)).value \in Nat
  BY DEF Older, NextEvent
<1>1. f.n \in DOMAIN Script[q] /\ f.n \in Nat /\ Content(f) = Script[q][f.n]
  BY LogContent DEF Content
<1>2. f.n <= sent[q] /\ sent[q] \in Nat
  BY DEF TypeInv, TypeOK, InBounds
<1> HIDE DEF f
<1>3. Script[q] \in Seq(ScriptEvent)
  BY ScriptAssumption
<1>4. sent[q] + 1 \in DOMAIN Script[q] /\ f.n <= sent[q] + 1
  BY <1>1, <1>2, <1>3
<1>5. Content(NextEvent(q)) = Script[q][sent[q] + 1]
  BY DEF Content, NextEvent
<1>6. Script[q][f.n] \in ScriptEvent /\ Script[q][sent[q] + 1] \in ScriptEvent
  BY <1>1, <1>3, <1>4
<1> QED
  BY <1>1, <1>4, <1>5, <1>6, ScriptOrder DEF ScriptEvent

\* Appending the next event of a QA keeps the order.
LEMMA WriteIInv ==
  ASSUME SinglePartition, IInv, NEW q \in QA, NEW p \in Partition, WriteEvent(q, p)
  PROVE  IInv'
<1> DEFINE e == NextEvent(q)
<1>1. TypeInv /\ TypeInv'
  BY BackendTypeInv DEF IInv
<1>2. e.qa = q /\ e.n = sent[q] + 1
  BY DEF NextEvent
<1>3. /\ sent' = [sent EXCEPT ![q] = @ + 1] /\ sent \in [QA -> Nat] /\ sent[q] < Len(Script[q])
      /\ UNCHANGED <<position, committed, phase, batch, merged, updates, db, deleted, dropped>>
  BY <1>1 DEF WriteEvent, readerVars, workerVars, tableVars, TypeInv, TypeOK
<1>4. \A pp \in Partition : pp = p
  BY DEF SinglePartition
<1>5. /\ log[p] \in Seq(MessageSet) /\ log'[p] \in Seq(MessageSet) /\ e \in MessageSet
      /\ log'[p] = Append(log[p], e)
  <2>1. log \in [Partition -> Seq(MessageSet)] /\ log' \in [Partition -> Seq(MessageSet)]
    BY <1>1 DEF TypeInv, TypeOK
  <2>2. sent[q] + 1 \in Nat \ {0}
    BY <1>3
  <2> QED
    BY <2>1, <2>2 DEF WriteEvent, NextEvent, MessageSet
<1> HIDE DEF e
<1>6. /\ Len(log[p]) \in Nat /\ DOMAIN log[p] = 1 .. Len(log[p])
      /\ DOMAIN log'[p] = 1 .. Len(log[p]) + 1
      /\ \A i \in DOMAIN log[p] : log'[p][i] = log[p][i]
      /\ log'[p][Len(log[p]) + 1] = e
  BY <1>5
<1>7. \A i \in DOMAIN log[p] : i \in DOMAIN log'[p] /\ log'[p][i] = log[p][i]
  BY <1>6
<1>8. InvOrdered'
  <2> SUFFICES ASSUME NEW i \in DOMAIN log'[p], NEW j \in DOMAIN log'[p], i <= j,
                      Older(log'[p][j], log'[p][i])
               PROVE  \E m \in DOMAIN log'[p] : j < m /\ log'[p][m] = log'[p][i]
    <3>1. \A x, y : Older(x, y)' = Older(x, y)
      BY DEF Older, Content
    <3> QED
      BY <1>4, <3>1 DEF InvOrdered
  <2>1. CASE j \in DOMAIN log[p]
    <3>1. i \in DOMAIN log[p]
      BY <1>6, <2>1
    <3>2. PICK m \in DOMAIN log[p] : j < m /\ log[p][m] = log[p][i]
      BY <1>7, <2>1, <3>1 DEF IInv, InvOrdered
    <3> QED
      BY <1>7, <3>1, <3>2
  <2>2. CASE j \notin DOMAIN log[p]
    <3>1. log'[p][j] = e
      BY <1>6, <2>2
    <3>2. CASE i \in DOMAIN log[p]
      BY <1>1, <1>3, <1>7, <3>1, <3>2, NextIsNotOlder DEF e
    <3>3. CASE i \notin DOMAIN log[p]
      <4>1. log'[p][i] = e
        BY <1>6, <3>3
      <4>2. Content(e).value \in Nat
        <5>1. Script[q] \in Seq(ScriptEvent) /\ sent[q] \in Nat
          BY <1>3, ScriptAssumption
        <5>2. Content(e) \in ScriptEvent
          <6>1. sent[q] + 1 \in DOMAIN Script[q]
            BY <1>3, <5>1
          <6> QED
            BY <1>2, <5>1, <6>1 DEF Content
        <5> QED
          BY <5>2 DEF ScriptEvent
      <4> QED
        BY <3>1, <4>1, <4>2 DEF Older
    <3> QED
      BY <3>2, <3>3
  <2> QED
    BY <2>1, <2>2
<1>9. \A i \in DOMAIN log'[p] : \E j \in 1 .. i : log'[p][j].qa = log'[p][i].qa /\ log'[p][j].n = 1
  <2> SUFFICES ASSUME NEW i \in DOMAIN log'[p]
               PROVE  \E j \in 1 .. i : log'[p][j].qa = log'[p][i].qa /\ log'[p][j].n = 1
    OBVIOUS
  <2>1. CASE i \in DOMAIN log[p]
    <3>1. PICK j \in 1 .. i : log[p][j].qa = log[p][i].qa /\ log[p][j].n = 1
      BY <2>1 DEF IInv, InvQuestionFirst
    <3>2. j \in DOMAIN log[p]
      BY <1>6, <2>1
    <3> QED
      BY <1>7, <2>1, <3>1, <3>2
  <2>2. CASE i \notin DOMAIN log[p]
    <3>1. i = Len(log[p]) + 1 /\ log'[p][i] = e
      BY <1>6, <2>2
    <3>2. CASE sent[q] > 0
      <4>1. PICK j \in DOMAIN log[p] : log[p][j].qa = q /\ log[p][j].n = 1
        BY <3>2 DEF IInv, InvQuestionFirst
      <4>2. j \in 1 .. i
        BY <1>6, <3>1
      <4> QED
        BY <1>2, <1>7, <3>1, <4>1, <4>2
    <3>3. CASE ~ (sent[q] > 0)
      <4>1. e.n = 1 /\ i \in 1 .. i
        BY <1>2, <1>3, <1>6, <3>1, <3>3
      <4> QED
        BY <3>1, <4>1
    <3> QED
      BY <3>2, <3>3
  <2> QED
    BY <2>1, <2>2
<1>10. \A r \in QA : sent'[r] > 0 => \E j \in DOMAIN log'[p] : log'[p][j].qa = r /\ log'[p][j].n = 1
  <2> SUFFICES ASSUME NEW r \in QA, sent'[r] > 0
               PROVE  \E j \in DOMAIN log'[p] : log'[p][j].qa = r /\ log'[p][j].n = 1
    OBVIOUS
  <2>1. CASE sent[r] > 0
    BY <1>7, <2>1 DEF IInv, InvQuestionFirst
  <2>2. CASE ~ (sent[r] > 0)
    <3>1. sent[r] = 0 /\ r = q
      BY <1>3, <2>2
    <3>2. Len(log[p]) + 1 \in DOMAIN log'[p]
      BY <1>6
    <3> QED
      BY <1>2, <1>6, <3>1, <3>2
  <2> QED
    BY <2>1, <2>2
<1>11. InvQuestionFirst'
  BY <1>4, <1>9, <1>10 DEF InvQuestionFirst
<1>12. \A pp \in Partition : \A i \in DOMAIN log[pp] : i \in DOMAIN log'[pp] /\ log'[pp][i] = log[pp][i]
  BY <1>4, <1>7
<1> QED
  BY <1>1, <1>3, <1>8, <1>11, <1>12, GrownIInv

\* A batch stored twice: what it puts an old version behind, it also has itself.
LEMMA RetryIInv ==
  ASSUME SinglePartition, IInv, NEW p \in Partition, RetryBatch(p)
  PROVE  IInv'
<1>1. TypeInv /\ TypeInv' /\ log \in [Partition -> Seq(MessageSet)]
  BY RetryTypeInv DEF IInv, TypeInv, TypeOK
<1>2. UNCHANGED <<sent, position, committed, phase, batch, merged, updates, db, deleted, dropped>>
  BY DEF RetryBatch, readerVars, workerVars, tableVars
<1>3. \A pp \in Partition : pp = p
  BY DEF SinglePartition
<1>4. /\ \A i \in DOMAIN log[p] : i \in DOMAIN log'[p] /\ log'[p][i] = log[p][i]
      /\ \A i \in DOMAIN log'[p] : \E j \in DOMAIN log[p] : j <= i /\ log'[p][i] = log[p][j]
  BY <1>1, RetriedMessages
<1>5. PICK n \in 1 .. Len(log[p]) :
        /\ Len(log'[p]) = Len(log[p]) + n
        /\ \A i \in 1 .. n : log'[p][Len(log[p]) + i] = log[p][Len(log[p]) - n + i]
  BY <1>1, RetriedLog
<1>6. /\ Len(log[p]) \in Nat /\ DOMAIN log[p] = 1 .. Len(log[p])
      /\ Len(log'[p]) \in Nat /\ DOMAIN log'[p] = 1 .. Len(log'[p])
      /\ n \in Nat /\ 1 <= n /\ n <= Len(log[p])
  <2>1. log[p] \in Seq(MessageSet)
    BY <1>1
  <2>2. log'[p] \in Seq(MessageSet)
    BY <1>1 DEF TypeInv, TypeOK
  <2> QED
    BY <1>5, <2>1, <2>2
<1>7. ASSUME NEW k \in DOMAIN log[p], k > Len(log[p]) - n
      PROVE  k + n \in DOMAIN log'[p] /\ log'[p][k + n] = log[p][k]
  <2>1. PICK i \in 1 .. n : i = k - (Len(log[p]) - n)
    BY <1>6, <1>7
  <2>2. Len(log[p]) + i = k + n /\ Len(log[p]) - n + i = k /\ k + n \in 1 .. Len(log'[p])
    BY <1>5, <1>6, <1>7, <2>1
  <2> QED
    BY <1>5, <1>6, <2>2
<1>8. ASSUME NEW i \in DOMAIN log'[p], i \notin DOMAIN log[p]
      PROVE  /\ i - n \in DOMAIN log[p] /\ i - n > Len(log[p]) - n
             /\ log'[p][i] = log[p][i - n]
  <2>0. PICK len : len = Len(log[p])
    OBVIOUS
  <2>1. i \in Nat /\ len \in Nat /\ n \in Nat /\ n <= len /\ len < i /\ i <= len + n
    BY <1>5, <1>6, <1>8, <2>0
  <2>2. PICK k \in 1 .. n : k = i - len
    BY <2>1
  <2>3. len + k = i /\ len - n + k = i - n /\ i - n \in 1 .. len /\ i - n > len - n
    BY ONLY <2>1, <2>2
  <2> QED
    BY <1>5, <1>6, <2>0, <2>2, <2>3
<1>9. InvOrdered'
  <2> SUFFICES ASSUME NEW i \in DOMAIN log'[p], NEW j \in DOMAIN log'[p], i <= j,
                      Older(log'[p][j], log'[p][i])
               PROVE  \E m \in DOMAIN log'[p] : j < m /\ log'[p][m] = log'[p][i]
    <3>1. \A x, y : Older(x, y)' = Older(x, y)
      BY DEF Older, Content
    <3> QED
      BY <1>3, <3>1 DEF InvOrdered
  <2>0. \A x, y \in DOMAIN log[p] : x <= y /\ Older(log[p][y], log[p][x]) =>
          \E m \in DOMAIN log[p] : y < m /\ log[p][m] = log[p][x]
    BY DEF IInv, InvOrdered
  <2>1. CASE j \in DOMAIN log[p]
    <3>1. i \in DOMAIN log[p]
      BY <1>6, <2>1
    <3>2. PICK m \in DOMAIN log[p] : j < m /\ log[p][m] = log[p][i]
      BY <1>4, <2>0, <2>1, <3>1
    <3> QED
      BY <1>4, <3>1, <3>2
  <2>2. CASE j \notin DOMAIN log[p]
    <3>0. PICK y \in DOMAIN log[p] : y = j - n /\ y > Len(log[p]) - n /\ log'[p][j] = log[p][y]
      BY <1>8, <2>2
    <3>1. \A m \in DOMAIN log[p] : y < m =>
            m + n \in DOMAIN log'[p] /\ log'[p][m + n] = log[p][m] /\ j < m + n
      <4> SUFFICES ASSUME NEW m \in DOMAIN log[p], y < m
                   PROVE  m + n \in DOMAIN log'[p] /\ log'[p][m + n] = log[p][m] /\ j < m + n
        OBVIOUS
      <4>1. m > Len(log[p]) - n /\ j < m + n
        BY <1>6, <3>0
      <4> QED
        BY <1>7, <4>1
    <3>2. PICK x \in DOMAIN log[p] : log'[p][i] = log[p][x] /\ (x <= y \/ y < x)
      <4>1. PICK x \in DOMAIN log[p] : log'[p][i] = log[p][x]
        BY <1>4
      <4> QED
        BY <1>6, <4>1
    <3>3. CASE y < x
      BY <3>1, <3>2, <3>3
    <3>4. CASE x <= y
      <4>1. PICK m \in DOMAIN log[p] : y < m /\ log[p][m] = log[p][x]
        BY <2>0, <3>0, <3>2, <3>4
      <4> QED
        BY <3>1, <3>2, <4>1
    <3> QED
      BY <3>2, <3>3, <3>4
  <2> QED
    BY <2>1, <2>2
<1>10. InvQuestionFirst'
  <2>1. ASSUME NEW i \in DOMAIN log'[p]
        PROVE  \E j \in 1 .. i : log'[p][j].qa = log'[p][i].qa /\ log'[p][j].n = 1
    <3>1. PICK k \in DOMAIN log[p] : k <= i /\ log'[p][i] = log[p][k]
      BY <1>4
    <3>2. PICK j \in 1 .. k : log[p][j].qa = log[p][k].qa /\ log[p][j].n = 1
      BY DEF IInv, InvQuestionFirst
    <3>3. j \in DOMAIN log[p] /\ j \in 1 .. i
      BY <1>6, <3>1
    <3> QED
      BY <1>4, <3>1, <3>2, <3>3
  <2>2. \A r \in QA : sent[r] > 0 => \E j \in DOMAIN log'[p] : log'[p][j].qa = r /\ log'[p][j].n = 1
    BY <1>4 DEF IInv, InvQuestionFirst
  <2> QED
    BY <1>2, <1>3, <2>1, <2>2 DEF InvQuestionFirst
<1>11. \A pp \in Partition : \A i \in DOMAIN log[pp] : i \in DOMAIN log'[pp] /\ log'[pp][i] = log[pp][i]
  BY <1>3, <1>4
<1> QED
  BY <1>1, <1>2, <1>9, <1>10, <1>11, GrownIInv

\* Fetching extends the window by the next message of the log.
LEMMA FetchIInv ==
  ASSUME SinglePartition, IInv, NEW p \in Partition, Fetch(p)
  PROVE  IInv'
<1>1. TypeInv /\ TypeInv'
  BY ReadTypeInv DEF IInv
<1>2. /\ phase = "reading"
      /\ position' = [position EXCEPT ![p] = @ + 1]
      /\ batch' = Append(batch, <<p, position[p] + 1>>)
      /\ UNCHANGED <<log, sent, committed, merged, updates, db, deleted, dropped>>
  BY DEF Fetch, backendVars, tableVars
<1>3. \A pp \in Partition : pp = p
  BY DEF SinglePartition
<1>4. merged' = 0 /\ \A q \in QA : updates'[q] = None
  BY <1>1, <1>2 DEF TypeInv, InBounds
<1>5. position'[p] = position[p] + 1 /\ position[p] \in Nat /\ Len(batch) \in Nat
  BY <1>1, <1>2 DEF TypeInv, TypeOK
<1>6. Len(batch') = Len(batch) + 1
  BY <1>1, <1>2 DEF TypeInv, TypeOK
<1>7. Base(p)' = Base(p)
  BY <1>5, <1>6 DEF Base
<1>8. InvWindow'
  <2>1. ASSUME NEW i \in DOMAIN batch'
        PROVE  batch'[i] = <<p, Base(p) + i>>
    <3>1. CASE i \in DOMAIN batch
      BY <1>1, <1>2, <3>1 DEF IInv, InvWindow, TypeInv, TypeOK
    <3>2. CASE i \notin DOMAIN batch
      <4>1. i = Len(batch) + 1
        BY <1>1, <1>2, <3>2 DEF TypeInv, TypeOK
      <4>2. batch'[i] = <<p, position[p] + 1>>
        BY <1>1, <1>2, <4>1 DEF TypeInv, TypeOK
      <4>3. Base(p) + i = position[p] + 1
        BY <1>5, <4>1 DEF Base
      <4> QED
        BY <4>2, <4>3
    <3> QED
      BY <3>1, <3>2
  <2>2. committed'[p] <= Base(p)'
    BY <1>2, <1>7 DEF IInv, InvWindow
  <2> QED
    BY <1>3, <1>7, <2>1, <2>2 DEF InvWindow
<1>9. InvOrdered' /\ InvQuestionFirst'
  BY <1>2 DEF IInv, InvOrdered, InvQuestionFirst
<1>10. InvMerged' /\ InvUpdates'
  BY <1>4 DEF InvMerged, InvUpdates
<1>11. InvBase'
  <2>1. \A i \in 1 .. Base(p) : Accounted(log[p][i])' \/ Again(log[p][i], p, Base(p))
    BY <1>2 DEF IInv, InvBase, Accounted, Registered, InRow, Content
  <2> QED
    BY <1>2, <1>3, <1>7, <2>1 DEF InvBase, Again
<1> QED
  BY <1>1, <1>8, <1>9, <1>10, <1>11 DEF IInv

LEMMA BatchTimeoutIInv ==
  ASSUME IInv, BatchTimeout
  PROVE  IInv'
<1>1. TypeInv /\ TypeInv'
  BY ReadTypeInv DEF IInv
<1>2. /\ phase = "reading"
      /\ UNCHANGED <<log, sent, position, committed, batch, merged, updates, db, deleted, dropped>>
  BY DEF BatchTimeout, backendVars, readerVars, tableVars
<1>3. merged' = 0 /\ \A q \in QA : updates'[q] = None
  BY <1>1, <1>2 DEF TypeInv, InBounds
<1>4. InvWindow' /\ InvOrdered' /\ InvQuestionFirst'
  BY <1>2 DEF IInv, InvWindow, InvOrdered, InvQuestionFirst, Base
<1>5. InvMerged' /\ InvUpdates'
  BY <1>3 DEF InvMerged, InvUpdates
<1>6. InvBase'
  BY <1>2, BaseUnchanged DEF IInv
<1> QED
  BY <1>1, <1>4, <1>5, <1>6 DEF IInv

\* What merging the next message does to the pending query of its QA.
LEMMA MergedQuery ==
  ASSUME NoFileReferences, IInv, Merge, NEW p \in Partition,
         NEW e, e = Message(batch[merged + 1]), Content(e).valid
  PROVE  /\ e.qa \in QA
         /\ updates'[e.qa] # None
         /\ \A q \in QA : q # e.qa => updates'[q] = updates[q]
         /\ Content(e).column = "Question" => updates'[e.qa].create
         /\ updates[e.qa] # None /\ updates[e.qa].create => updates'[e.qa].create
         /\ updates'[e.qa].cols[Content(e).column] =
              IF Content(e).value # 0 THEN Content(e).value
              ELSE IF updates[e.qa] = None THEN 0
              ELSE updates[e.qa].cols[Content(e).column]
         /\ \A c \in Column : c # Content(e).column =>
              updates'[e.qa].cols[c] = IF updates[e.qa] = None THEN 0
                                       ELSE updates[e.qa].cols[c]
<1> DEFINE query == ConvertEvent(e)
           old == updates[e.qa]
<1>1. TypeInv /\ merged + 1 \in DOMAIN batch
  <2>1. TypeInv
    BY DEF IInv
  <2>2. Len(batch) \in Nat /\ DOMAIN batch = 1 .. Len(batch) /\ merged \in 0 .. Len(batch)
    BY <2>1 DEF TypeInv, TypeOK
  <2>3. merged < Len(batch)
    BY DEF Merge
  <2> QED
    BY <2>1, <2>2, <2>3
<1>2. /\ e.qa \in QA
      /\ Content(e) \in ScriptEvent
      /\ Content(e).column # "FileReferences"
  <2>1. /\ e = log[p][Base(p) + (merged + 1)]
        /\ Base(p) + (merged + 1) \in DOMAIN log[p]
    BY <1>1, WindowMessage DEF IInv
  <2>2. e.qa \in QA /\ e.n \in DOMAIN Script[e.qa] /\ Content(e) \in ScriptEvent
    BY <1>1, <2>1, LogContent, MessageContent
  <2> QED
    BY <2>2 DEF NoFileReferences, Content
<1>3. updates' = [updates EXCEPT ![e.qa] = MergeQuery(query, old)]
  BY DEF Merge
<1>4. updates \in [QA -> Query \union {None}]
  BY <1>1 DEF TypeInv, TypeOK
<1>5. updates'[e.qa] = MergeQuery(query, old)
  BY <1>2, <1>3, <1>4
<1>6. MergeQuery(query, old) \in Query /\ query \in Query /\ old \in Query \union {None}
  BY <1>2, <1>4, ConvertType, MergeType
<1>7. updates'[e.qa] # None
  BY <1>5, <1>6, NoneAssumption
<1>8. \A q \in QA : q # e.qa => updates'[q] = updates[q]
  BY <1>3, <1>4
<1>9. /\ query.create = (Content(e).column = "Question")
      /\ \A c \in Column : query.cols[c] = IF c = Content(e).column
                                           THEN Content(e).value ELSE 0
  BY <1>2 DEF ConvertEvent, Blank, ScriptEvent
<1>10. CASE old = None
  <2>1. updates'[e.qa] = query
    BY <1>5, <1>10 DEF MergeQuery
  <2>2. Content(e).column \in Column /\ Content(e).value \in Nat
    BY <1>2 DEF ScriptEvent
  <2> HIDE DEF query
  <2> QED
    BY <1>2, <1>7, <1>8, <1>9, <1>10, <2>1, <2>2
<1>11. CASE old # None
  <2>1. updates'[e.qa] = [create |-> old.create \/ query.create,
                          cols |-> MergeQA(query.cols, old.cols)]
    BY <1>5, <1>11 DEF MergeQuery
  <2>2. \A c \in Column : MergeQA(query.cols, old.cols)[c] =
          IF c # "FileReferences" /\ query.cols[c] # 0 THEN query.cols[c] ELSE old.cols[c]
    BY DEF MergeQA, MergedColumn
  <2>3. Content(e).column \in Column /\ Content(e).value \in Nat
    BY <1>2 DEF ScriptEvent
  <2>4. updates'[e.qa].cols = MergeQA(query.cols, old.cols)
    BY <2>1
  <2>5. updates'[e.qa].create = (old.create \/ query.create)
    BY <2>1
  <2>6. \A c \in Column : c # Content(e).column => updates'[e.qa].cols[c] = old.cols[c]
    BY <1>9, <2>2, <2>4
  <2>7. updates'[e.qa].cols[Content(e).column] =
          IF Content(e).value # 0 THEN Content(e).value ELSE old.cols[Content(e).column]
    BY <1>2, <1>9, <2>2, <2>3, <2>4
  <2>8. (Content(e).column = "Question" \/ old.create) => updates'[e.qa].create
    BY <1>9, <2>5
  <2> HIDE DEF query
  <2> QED
    BY <1>2, <1>7, <1>8, <1>11, <2>6, <2>7, <2>8
<1> QED
  BY <1>10, <1>11

\* Merging the next message keeps what was pending pending.
LEMMA MergeIInv ==
  ASSUME SinglePartition, NoFileReferences, IInv, Merge
  PROVE  IInv'
<1>0. PICK k, e : k = merged + 1 /\ e = Message(batch[k])
  OBVIOUS
<1>1. TypeInv /\ TypeInv'
  BY MergeTypeInv DEF IInv
<1>2. /\ phase = "merging" /\ merged' = k /\ merged < Len(batch)
      /\ UNCHANGED <<log, sent, position, committed, batch, db, deleted, dropped>>
  BY <1>0 DEF Merge, backendVars, readerVars, tableVars
<1>3. /\ merged \in Nat /\ k = merged + 1 /\ k \in DOMAIN batch
      /\ \A i \in 1 .. merged : i \in DOMAIN batch
      /\ updates \in [QA -> Query \union {None}]
  <2>1. /\ batch \in Seq(Partition \X (Nat \ {0})) /\ merged \in 0 .. Len(batch)
        /\ updates \in [QA -> Query \union {None}]
    BY <1>1 DEF TypeInv, TypeOK
  <2>2. Len(batch) \in Nat /\ DOMAIN batch = 1 .. Len(batch)
    BY <2>1
  <2> QED
    BY <1>0, <1>2, <2>1, <2>2
<1>4. PICK p \in Partition : TRUE
  BY ConstantsAssumption
<1>5. \A i \in DOMAIN batch : Message(batch[i])' = Message(batch[i])
  BY <1>2 DEF Message
<1>6. InvWindow' /\ InvOrdered' /\ InvQuestionFirst'
  BY <1>2 DEF IInv, InvWindow, InvOrdered, InvQuestionFirst, Base
<1>7. InvBase'
  BY <1>2, BaseUnchanged DEF IInv
<1>8. \A i \in 1 .. merged : Content(Message(batch[i])).valid =>
        Pending(Message(batch[i])) \/ Again(Message(batch[i]), p, Base(p) + merged)
  BY <1>2 DEF IInv, InvMerged, Applied
<1>11. \A pp \in Partition : pp = p
  BY DEF SinglePartition
<1>12. e = log[p][Base(p) + k] /\ Base(p) + k \in DOMAIN log[p] /\ Base(p) \in Nat
  BY <1>0, <1>1, <1>3, WindowMessage DEF IInv
<1>13. ASSUME NEW f, Again(f, p, Base(p) + merged) PROVE f = e \/ Again(f, p, Base(p) + k)
  <2>1. PICK m \in DOMAIN log[p] : Base(p) + merged < m /\ log[p][m] = f /\ f.n # 1
    BY <1>13 DEF Again
  <2>2. m = Base(p) + k \/ Base(p) + k < m
    BY <1>1, <1>3, <1>12, <2>1, BatchTypes
  <2> QED
    BY <1>12, <2>1, <2>2 DEF Again
<1>14. ASSUME \A i \in 1 .. k : Content(Message(batch[i])).valid =>
                Pending(Message(batch[i]))' \/ Again(Message(batch[i]), p, Base(p) + k)
       PROVE  InvMerged'
  <2> SUFFICES ASSUME NEW i \in 1 .. k, NEW f, f = Message(batch[i]), Content(f).valid
               PROVE  Pending(f)' \/ Again(f, p, Base(p) + k)
    <3>1. \A x, y : Again(x, p, y)' = Again(x, p, y)
      BY <1>2 DEF Again
    <3>2. \A i \in 1 .. k : Message(batch[i])' = Message(batch[i])
      BY <1>3, <1>5
    <3>3. Base(p)' = Base(p)
      BY <1>2 DEF Base
    <3> QED
      BY <1>2, <1>11, <3>1, <3>2, <3>3 DEF InvMerged, Content
  <2>1. Pending(Message(batch[i]))' \/ Again(Message(batch[i]), p, Base(p) + k)
    BY <1>14
  <2> QED
    BY <1>3, <1>5, <2>1 DEF Pending, Content
<1>9. CASE ~Content(e).valid
  <2>1. updates' = updates
    BY <1>0, <1>9 DEF Merge
  <2>2. InvMerged'
    <3>1. ASSUME NEW i \in 1 .. k, Content(Message(batch[i])).valid
          PROVE  Pending(Message(batch[i]))' \/ Again(Message(batch[i]), p, Base(p) + k)
      <4>1. i \in 1 .. merged
        BY <1>0, <1>3, <1>9, <3>1
      <4>2. Message(batch[i]) # e
        BY <1>9, <3>1
      <4>3. Pending(Message(batch[i])) \/ Again(Message(batch[i]), p, Base(p) + k)
        BY <1>8, <1>13, <3>1, <4>1, <4>2
      <4> QED
        BY <1>3, <1>5, <2>1, <4>1, <4>3 DEF Pending, Content
    <3> QED
      BY <1>14, <3>1
  <2>3. InvUpdates'
    <3>1. \A i \in 1 .. merged : i \in 1 .. merged'
      BY <1>2, <1>3
    <3> QED
      BY <1>3, <1>5, <2>1, <3>1 DEF IInv, InvUpdates, Content
  <2> QED
    BY <1>1, <1>6, <1>7, <2>2, <2>3 DEF IInv
<1>10. CASE Content(e).valid
  <2>1. /\ e.qa \in QA
        /\ updates'[e.qa] # None
        /\ \A q \in QA : q # e.qa => updates'[q] = updates[q]
        /\ Content(e).column = "Question" => updates'[e.qa].create
        /\ updates[e.qa] # None /\ updates[e.qa].create => updates'[e.qa].create
        /\ updates'[e.qa].cols[Content(e).column] =
             IF Content(e).value # 0 THEN Content(e).value
             ELSE IF updates[e.qa] = None THEN 0
             ELSE updates[e.qa].cols[Content(e).column]
        /\ \A c \in Column : c # Content(e).column =>
             updates'[e.qa].cols[c] = IF updates[e.qa] = None THEN 0
                                      ELSE updates[e.qa].cols[c]
    BY <1>0, <1>10, MergedQuery
  <2>2. Content(e).column \in Column /\ Content(e).value \in Nat
    BY <1>1, <1>12, LogContent
  <2>3. Pending(e)'
    <3>1. updates'[e.qa].cols[Content(e).column] >= Content(e).value
      <4>1. updates[e.qa] # None => updates[e.qa].cols[Content(e).column] \in Nat
        BY <1>3, <2>1, <2>2 DEF Query
      <4>2. CASE Content(e).value # 0
        <5>1. updates'[e.qa].cols[Content(e).column] = Content(e).value
          BY <2>1, <4>2
        <5> QED
          BY <2>2, <5>1
      <4>3. CASE Content(e).value = 0
        <5>1. updates'[e.qa].cols[Content(e).column] \in Nat
          BY <2>1, <4>1, <4>3
        <5> QED
          BY <4>3, <5>1
      <4> QED
        BY <4>2, <4>3
    <3> QED
      BY <2>1, <3>1 DEF Pending, Content
  <2>4. ASSUME NEW i \in 1 .. merged, Content(Message(batch[i])).valid
        PROVE  Pending(Message(batch[i]))' \/ Again(Message(batch[i]), p, Base(p) + k)
    <3> DEFINE f == Message(batch[i])
    <3>1. i \in DOMAIN batch /\ i < k /\ f' = f
      BY <1>3, <1>5, <2>4
    <3>2. PICK h \in DOMAIN log[p] : f = log[p][h] /\ h <= Base(p) + k
      <4>1. f = log[p][Base(p) + i] /\ Base(p) + i \in DOMAIN log[p] /\ Base(p) \in Nat
        BY <1>1, <3>1, WindowMessage DEF IInv
      <4>2. Base(p) + i <= Base(p) + k
        BY <1>3, <3>1, <4>1
      <4> QED
        BY <4>1, <4>2
    <3>3. f.qa \in QA /\ Content(f).column \in Column /\ Content(f).value \in Nat
      BY <1>1, <3>2, LogContent
    <3>4. CASE Again(f, p, Base(p) + merged)
      <4>1. f = e \/ Again(f, p, Base(p) + k)
        BY <1>13, <3>4
      <4>2. f = e => Pending(f)'
        BY <2>3, <3>1 DEF Pending, Content
      <4> QED
        BY <4>1, <4>2
    <3>5. CASE Pending(f) /\ f.qa # e.qa
      BY <2>1, <3>1, <3>3, <3>5 DEF Pending, Content
    <3>6. CASE Pending(f) /\ f.qa = e.qa /\ Content(f).column # Content(e).column
      <4>1. updates'[f.qa].cols[Content(f).column] = updates[f.qa].cols[Content(f).column]
        BY <2>1, <3>3, <3>6 DEF Pending
      <4> QED
        BY <2>1, <3>1, <3>6, <4>1 DEF Pending, Content
    <3>7. CASE Pending(f) /\ Older(e, f)
      <4>1. PICK m \in DOMAIN log[p] : Base(p) + k < m /\ log[p][m] = f
        BY <1>12, <3>2, <3>7 DEF IInv, InvOrdered
      <4>2. f.n # 1
        BY <1>1, <1>12, <3>2, <3>7, OlderIsNoQuestion
      <4> QED
        BY <4>1, <4>2 DEF Again
    <3>8. CASE Pending(f) /\ f.qa = e.qa /\ Content(f).column = Content(e).column /\ ~Older(e, f)
      <4>1. Content(f).value <= Content(e).value
        BY <2>2, <3>3, <3>8 DEF Older
      <4>2. updates'[f.qa].cols[Content(f).column] >= Content(f).value
        <5>1. CASE Content(e).value # 0
          <6>1. updates'[e.qa].cols[Content(e).column] = Content(e).value
            BY <2>1, <5>1
          <6> QED
            BY <3>8, <4>1, <6>1
        <5>2. CASE Content(e).value = 0
          <6>1. updates'[e.qa].cols[Content(e).column] = updates[e.qa].cols[Content(e).column]
            BY <2>1, <3>8, <5>2 DEF Pending
          <6> QED
            BY <3>8, <6>1 DEF Pending
        <5> QED
          BY <5>1, <5>2
      <4> QED
        BY <2>1, <3>1, <3>8, <4>2 DEF Pending, Content
    <3> QED
      BY <1>8, <2>4, <3>4, <3>5, <3>6, <3>7, <3>8
  <2>5. InvMerged'
    <3>1. ASSUME NEW i \in 1 .. k, Content(Message(batch[i])).valid
          PROVE  Pending(Message(batch[i]))' \/ Again(Message(batch[i]), p, Base(p) + k)
      <4>1. CASE i \in 1 .. merged
        BY <2>4, <3>1, <4>1
      <4>2. CASE i = k
        <5>1. Message(batch[i])' = e
          BY <1>0, <1>3, <1>5, <4>2
        <5> QED
          BY <1>0, <2>3, <4>2, <5>1 DEF Pending, Content
      <4> QED
        BY <1>3, <4>1, <4>2
    <3> QED
      BY <1>14, <3>1
  <2>6. InvUpdates'
    <3> SUFFICES ASSUME NEW q \in QA, updates'[q] # None
                 PROVE  /\ \E i \in 1 .. k : Message(batch[i]).qa = q
                        /\ \A c \in Column : updates'[q].cols[c] # 0 =>
                             \E i \in 1 .. k :
                               /\ Message(batch[i]).qa = q
                               /\ Content(Message(batch[i])).column = c
                               /\ Content(Message(batch[i])).value = updates'[q].cols[c]
      BY <1>2, <1>3, <1>5 DEF InvUpdates, Content
    <3>1. k \in 1 .. k /\ 1 .. merged \subseteq 1 .. k
      BY <1>3
    <3>2. CASE q # e.qa
      BY <2>1, <3>1, <3>2 DEF IInv, InvUpdates
    <3>3. CASE q = e.qa
      <4>1. \E i \in 1 .. k : Message(batch[i]).qa = q
        BY <1>0, <3>1, <3>3
      <4>2. ASSUME NEW c \in Column, updates'[q].cols[c] # 0
            PROVE  \E i \in 1 .. k :
                     /\ Message(batch[i]).qa = q
                     /\ Content(Message(batch[i])).column = c
                     /\ Content(Message(batch[i])).value = updates'[q].cols[c]
        <5>1. CASE c = Content(e).column /\ Content(e).value # 0
          BY <1>0, <2>1, <3>1, <3>3, <5>1
        <5>2. CASE ~ (c = Content(e).column /\ Content(e).value # 0)
          <6>1. updates[q] # None /\ updates'[q].cols[c] = updates[q].cols[c]
            BY <2>1, <3>3, <4>2, <5>2
          <6> QED
            BY <3>1, <4>2, <6>1 DEF IInv, InvUpdates
        <5> QED
          BY <5>1, <5>2
      <4> QED
        BY <4>1, <4>2
    <3> QED
      BY <3>2, <3>3
  <2> QED
    BY <1>1, <1>6, <1>7, <2>5, <2>6 DEF IInv
<1> QED
  BY <1>9, <1>10

\* Once the batch is merged, what the worker has read of a QA is in its row or in its
\* pending query, or is to be read once more.
LEMMA ReadMessages ==
  ASSUME IInv, phase = "applying", NEW p \in Partition,
         NEW i \in DOMAIN log[p], i <= position[p], NEW e, e = log[p][i], Content(e).valid
  PROVE  /\ Base(p) < i => Pending(e) \/ Applied(e) \/ Again(e, p, position[p])
         /\ Accounted(e) \/ Pending(e) \/ Again(e, p, position[p])
<1>1. /\ TypeInv /\ merged = Len(batch) /\ Base(p) \in Int
      /\ Len(batch) \in Nat /\ DOMAIN batch = 1 .. Len(batch)
      /\ position[p] \in Nat /\ position[p] = Base(p) + merged
      /\ Len(log[p]) \in Nat /\ DOMAIN log[p] = 1 .. Len(log[p])
  <2>1. TypeInv
    BY DEF IInv
  <2>2. merged = Len(batch)
    BY <2>1 DEF TypeInv, InBounds
  <2> QED
    BY <2>1, <2>2, BatchTypes DEF Base
<1>2. ASSUME NEW k \in DOMAIN log[p], Base(p) < k, k <= position[p], log[p][k] = e
      PROVE  Pending(e) \/ Applied(e) \/ Again(e, p, position[p])
  <2>1. PICK b \in 1 .. merged : b \in DOMAIN batch /\ Base(p) + b = k
    <3>1. k - Base(p) \in 1 .. merged /\ Base(p) + (k - Base(p)) = k
      BY <1>1, <1>2
    <3> QED
      BY <1>1, <3>1
  <2>2. Message(batch[b]) = e
    BY <1>1, <1>2, <2>1, WindowMessage DEF IInv
  <2> QED
    BY <1>1, <2>1, <2>2 DEF IInv, InvMerged
<1>3. Base(p) < i => Pending(e) \/ Applied(e) \/ Again(e, p, position[p])
  BY <1>2
<1>4. CASE Base(p) < i
  BY <1>3, <1>4 DEF Applied
<1>5. CASE ~ (Base(p) < i)
  <2>1. i \in 1 .. Base(p)
    BY <1>1, <1>5
  <2>2. Accounted(e) \/ Again(e, p, Base(p))
    BY <2>1 DEF IInv, InvBase
  <2>3. ASSUME Again(e, p, Base(p))
        PROVE  Accounted(e) \/ Pending(e) \/ Again(e, p, position[p])
    <3>1. PICK m \in DOMAIN log[p] : Base(p) < m /\ log[p][m] = e
      BY <2>3 DEF Again
    <3>2. CASE m <= position[p]
      BY <1>2, <3>1, <3>2 DEF Applied
    <3>3. CASE ~ (m <= position[p])
      <4>1. position[p] < m
        BY <1>1, <3>3
      <4> QED
        BY <2>3, <3>1, <4>1 DEF Again
    <3> QED
      BY <3>2, <3>3
  <2> QED
    BY <2>2, <2>3, <1>5, <1>1
<1> QED
  BY <1>3, <1>4, <1>5

\* What applying the query of q does to the messages in the batch and below it.
LEMMA AppliedMessages ==
  ASSUME SinglePartition, IInv, NEW q \in QA, NEW p \in Partition,
         CreateQA(q) \/ UpdateQA(q) \/ WriteError(q),
         NEW i \in DOMAIN log[p], i <= position[p], log[p][i].qa = q
  PROVE  Accounted(log[p][i])' \/ Again(log[p][i], p, position[p])
<1> DEFINE e == log[p][i]
           c == Content(e).column
           pending == updates[q]
<1>1. TypeInv /\ phase = "applying" /\ pending # None /\ log' = log
  BY DEF IInv, CreateQA, UpdateQA, WriteError, backendVars
<1>2. /\ merged = Len(batch)
      /\ Len(batch) \in Nat /\ DOMAIN batch = 1 .. Len(batch)
      /\ position[p] \in Nat /\ i \in Nat \ {0} /\ DOMAIN log[p] = 1 .. Len(log[p])
      /\ Len(log[p]) \in Nat
      /\ updates \in [QA -> Query \union {None}] /\ db \in [QA -> Row \union {None}]
  <2>1. TypeOK /\ InBounds
    BY <1>1 DEF TypeInv
  <2> QED
    BY <1>1, <2>1, BatchTypes DEF TypeOK, InBounds
<1>3. c \in Column /\ Content(e).value \in Nat
  BY <1>1, LogContent
<1>4. CASE Content(e).valid = FALSE \/ q \in dropped' \/ q \in deleted'
  BY <1>1, <1>4 DEF Accounted, Registered, Content
<1>5. CASE Content(e).valid /\ q \notin dropped' /\ q \notin deleted'
  <2>1. q \notin dropped /\ q \notin deleted /\ ~WriteError(q)
    BY <1>5 DEF CreateQA, UpdateQA, WriteError
  <2>2. db[q] # None => ~CreateQA(q)
    BY <1>5 DEF CreateQA
  <2>3. ASSUME NEW j \in DOMAIN log[p], j <= i, log[p][j].qa = q, Content(log[p][j]).valid
        PROVE  InRow(log[p][j]) \/ Pending(log[p][j]) \/ Again(log[p][j], p, position[p])
    <3>1. j <= position[p]
      BY <1>2, <2>3
    <3>2. Accounted(log[p][j]) => InRow(log[p][j])
      BY <2>1, <2>3 DEF Accounted, Registered
    <3> QED
      BY <1>1, <2>3, <3>1, <3>2, ReadMessages
  <2>4. InRow(e) \/ Pending(e) \/ Again(e, p, position[p])
    BY <1>2, <1>5, <2>3
  <2>5. CASE CreateQA(q)
    <3>1. db[q] = None /\ db' = [db EXCEPT ![q] = NewRow(pending)]
      BY <2>2, <2>5 DEF CreateQA
    <3>2. Pending(e) \/ Again(e, p, position[p])
      BY <2>4, <3>1 DEF InRow
    <3>3. db'[q] = [cols |-> pending.cols, vote |-> "none"] /\ pending \in Query
      BY <1>1, <1>2, <3>1 DEF NewRow
    <3>4. db'[q] # None
      BY <1>2, <3>1, <3>3, RowTypes, NoneAssumption
    <3>5. Pending(e) => pending.cols[c] >= Content(e).value
      BY DEF Pending
    <3>6. Pending(e) => db'[q].cols[c] >= Content(e).value
      <4>1. db'[q].cols = pending.cols
        BY <3>3
      <4> HIDE DEF pending, c, e
      <4> QED
        BY <3>5, <4>1
    <3> QED
      BY <1>1, <3>2, <3>4, <3>6 DEF Accounted, Registered, InRow, Content
  <2>6. CASE UpdateQA(q)
    <3>1. ~pending.create
      BY <2>6 DEF UpdateQA
    <3>2. db[q] # None
      <4>1. PICK j \in 1 .. i : log[p][j].qa = q /\ log[p][j].n = 1
        BY DEF IInv, InvQuestionFirst
      <4>2. j \in DOMAIN log[p] /\ j <= i
        BY <1>2, <4>1
      <4>3. Content(log[p][j]).valid /\ Content(log[p][j]).column = "Question"
        BY <1>1, <4>1, <4>2, LogContent
      <4>4. ~Pending(log[p][j]) /\ ~Again(log[p][j], p, position[p])
        BY <3>1, <4>1, <4>3 DEF Pending, Again
      <4> QED
        BY <2>3, <4>1, <4>2, <4>3, <4>4 DEF InRow
    <3>3. db' = [db EXCEPT ![q] = UpdateRow(@, pending)]
      BY <2>6, <3>2 DEF UpdateQA
    <3>4. db'[q] = UpdateRow(db[q], pending) /\ db[q] \in Row /\ pending \in Query
      BY <1>1, <1>2, <3>2, <3>3
    <3>5. db'[q] # None
      BY <3>4, RowTypes, NoneAssumption
    <3>6. db'[q].cols[c] = IF pending.cols[c] # 0 THEN pending.cols[c] ELSE db[q].cols[c]
      BY <1>3, <3>4 DEF UpdateRow, Row
    <3>7. db[q].cols[c] \in Nat /\ pending.cols[c] \in Nat
      BY <1>3, <3>4 DEF Row, Query
    <3>8. db'[q].cols[c] >= Content(e).value \/ Again(e, p, position[p])
      <4>1. CASE pending.cols[c] >= Content(e).value
        <5>1. CASE pending.cols[c] # 0
          BY <1>3, <3>6, <3>7, <4>1, <5>1
        <5>2. CASE pending.cols[c] = 0
          BY <1>3, <3>6, <3>7, <4>1, <5>2
        <5> QED
          BY <5>1, <5>2
      <4>2. CASE ~ (pending.cols[c] >= Content(e).value) /\ pending.cols[c] = 0
        <5>1. ~Pending(e)
          BY <4>2 DEF Pending
        <5>2. InRow(e) => db[q].cols[c] >= Content(e).value
          BY DEF InRow
        <5> QED
          BY <2>4, <3>6, <4>2, <5>1, <5>2
      <4>3. CASE ~ (pending.cols[c] >= Content(e).value) /\ pending.cols[c] # 0
        <5>1. \A x : x = e => ~Pending(x) /\ ~Applied(x)
          BY <1>1, <4>3 DEF Pending, Applied
        <5>2. PICK b \in 1 .. merged :
                /\ Message(batch[b]).qa = q
                /\ Content(Message(batch[b])).column = c
                /\ Content(Message(batch[b])).value = pending.cols[c]
          BY <1>1, <1>3, <4>3 DEF IInv, InvUpdates
        <5>3. PICK k \in DOMAIN log[p] : k = Base(p) + b /\ Message(batch[b]) = log[p][k] /\ Base(p) < k
          <6>1. b \in DOMAIN batch
            BY <1>2
          <6>2. /\ Message(batch[b]) = log[p][Base(p) + b]
                /\ Base(p) + b \in DOMAIN log[p] /\ Base(p) \in Nat
            BY <1>1, <6>1, WindowMessage DEF IInv
          <6>3. Base(p) < Base(p) + b
            BY <6>2
          <6> QED
            BY <6>2, <6>3
        <5>4. Older(log[p][k], e)
          <6>1. pending.cols[c] < Content(e).value
            BY <1>3, <3>7, <4>3
          <6> QED
            BY <5>2, <5>3, <6>1 DEF Older
        <5>5. \E m \in DOMAIN log[p] : k <= m /\ log[p][m] = e
          <6>1. CASE i <= k
            <7>1. PICK m \in DOMAIN log[p] : k < m /\ log[p][m] = log[p][i]
              BY <5>4, <6>1 DEF IInv, InvOrdered
            <7> QED
              BY <1>2, <7>1
          <6>2. CASE ~ (i <= k)
            BY <1>2, <6>2
          <6> QED
            BY <6>1, <6>2
        <5>6. PICK m \in DOMAIN log[p] : k <= m /\ log[p][m] = e
          BY <5>5
        <5>7. e.n # 1
          BY <1>1, <5>4, OlderIsNoQuestion
        <5>8. CASE m <= position[p]
          <6>1. Base(p) < m
            <7>1. Base(p) \in Int
              BY <1>2 DEF Base
            <7> QED
              BY <1>2, <5>3, <5>6, <7>1
          <6>2. Pending(e) \/ Applied(e) \/ Again(e, p, position[p])
            BY <1>1, <1>5, <5>6, <5>8, <6>1, ReadMessages
          <6> QED
            BY <5>1, <6>2
        <5>9. CASE ~ (m <= position[p])
          <6>1. position[p] < m
            BY <1>2, <5>9
          <6> QED
            BY <5>6, <5>7, <6>1 DEF Again
        <5> QED
          BY <5>8, <5>9
      <4> QED
        BY <4>1, <4>2, <4>3
    <3> QED
      BY <1>1, <3>5, <3>8 DEF Accounted, Registered, InRow, Content
  <2> QED
    BY <2>1, <2>5, <2>6
<1> QED
  BY <1>1, <1>3, <1>4, <1>5, LogContent

LEMMA ApplyIInv ==
  ASSUME SinglePartition, IInv, NEW q \in QA,
         CreateQA(q) \/ UpdateQA(q) \/ WriteError(q)
  PROVE  IInv'
<1>1. TypeInv /\ TypeInv'
  BY ApplyTypeInv DEF IInv
<1>2. /\ phase = "applying" /\ updates[q] # None
      /\ updates' = [updates EXCEPT ![q] = None]
      /\ UNCHANGED <<log, sent, position, committed, phase, batch, merged, deleted>>
  BY DEF CreateQA, UpdateQA, WriteError, backendVars, readerVars
<1>3. /\ \A x \in QA : x # q => db'[x] = db[x]
      /\ dropped \subseteq dropped' /\ dropped' \subseteq dropped \union {q}
  BY <1>1 DEF CreateQA, UpdateQA, WriteError, TypeInv, TypeOK
<1>4. updates'[q] = None /\ \A x \in QA : x # q => updates'[x] = updates[x]
  BY <1>1, <1>2 DEF TypeInv, TypeOK
<1>5. \A e : e.qa \in QA /\ e.qa # q => /\ Accounted(e)' <=> Accounted(e)
                                        /\ Pending(e)' <=> Pending(e)
  BY <1>2, <1>3, <1>4 DEF Accounted, Registered, InRow, Pending, Content
<1>6. InvWindow' /\ InvOrdered' /\ InvQuestionFirst'
  BY <1>2 DEF IInv, InvWindow, InvOrdered, InvQuestionFirst, Base
<1>7. ASSUME NEW p \in Partition
      PROVE  /\ Base(p)' = Base(p) /\ Base(p) \in Int
             /\ position[p] \in Nat /\ position[p] = Base(p) + Len(batch)
             /\ position[p] <= Len(log[p]) /\ DOMAIN log[p] = 1 .. Len(log[p])
             /\ Len(batch) \in Nat /\ DOMAIN batch = 1 .. Len(batch) /\ merged = Len(batch)
  <2>1. TypeOK /\ InBounds
    BY <1>1 DEF TypeInv
  <2>2. /\ log[p] \in Seq(MessageSet) /\ position[p] \in Nat
        /\ batch \in Seq(Partition \X (Nat \ {0})) /\ merged = Len(batch)
    BY <1>2, <2>1 DEF TypeOK, InBounds
  <2>3. position[p] <= Len(log[p])
    BY <2>1 DEF InBounds
  <2> QED
    BY <1>2, <2>2, <2>3 DEF Base
<1>8. InvBase'
  <2> SUFFICES ASSUME NEW p \in Partition, NEW i \in 1 .. Base(p)
               PROVE  Accounted(log[p][i])' \/ Again(log[p][i], p, Base(p))
    BY <1>2, <1>7 DEF InvBase, Again
  <2>1. i \in DOMAIN log[p] /\ i <= position[p] /\ Base(p) <= position[p]
    BY <1>7
  <2>2. CASE log[p][i].qa = q
    <3>1. Accounted(log[p][i])' \/ Again(log[p][i], p, position[p])
      BY <2>1, <2>2, AppliedMessages
    <3>2. \A m \in DOMAIN log[p] : position[p] < m => Base(p) < m
      BY <1>7
    <3> QED
      BY <3>1, <3>2 DEF Again
  <2>3. CASE log[p][i].qa # q
    <3>1. log[p][i].qa \in QA /\ (Accounted(log[p][i]) \/ Again(log[p][i], p, Base(p)))
      BY <1>1, <2>1, LogContent DEF IInv, InvBase
    <3> QED
      BY <1>2, <1>3, <2>3, <3>1 DEF Accounted, Registered, InRow, Content
  <2> QED
    BY <2>2, <2>3
<1>9. InvMerged'
  <2> SUFFICES ASSUME NEW p \in Partition, NEW i \in 1 .. merged, Content(Message(batch[i])).valid
               PROVE  \/ Pending(Message(batch[i]))' \/ Applied(Message(batch[i]))'
                      \/ Again(Message(batch[i]), p, Base(p) + merged)
    BY <1>2, <1>7 DEF InvMerged, Message, Content, Again
  <2>0. PICK k : k = Base(p) + i
    OBVIOUS
  <2> DEFINE e == Message(batch[i])
  <2>2. i \in DOMAIN batch /\ e = log[p][k] /\ k \in DOMAIN log[p] /\ k <= position[p]
    <3>1. i \in DOMAIN batch
      BY <1>7
    <3> QED
      BY <1>1, <1>7, <2>0, <3>1, WindowMessage DEF IInv
  <2>3. e.qa \in QA /\ e' = e
    BY <1>1, <1>2, <2>2, LogContent DEF Message
  <2>4. CASE e.qa = q
    <3>1. Accounted(log[p][k])' \/ Again(log[p][k], p, position[p])
      BY <2>2, <2>4, AppliedMessages
    <3>2. CASE Accounted(log[p][k])'
      <4>1. Accounted(e)'
        BY <1>2, <2>2, <2>3, <3>2 DEF Accounted, Registered, InRow, Content
      <4> QED
        BY <1>2, <1>4, <2>3, <2>4, <4>1 DEF Applied
    <3>3. CASE Again(log[p][k], p, position[p])
      BY <1>7, <2>2, <3>3
    <3> QED
      BY <3>1, <3>2, <3>3
  <2>5. CASE e.qa # q
    <3>1. Pending(e) \/ Applied(e) \/ Again(e, p, Base(p) + merged)
      BY DEF IInv, InvMerged
    <3>2. CASE Pending(e)
      BY <1>4, <2>3, <2>5, <3>2 DEF Pending, Content
    <3>3. CASE Applied(e)
      <4>1. Accounted(e)'
        BY <1>2, <1>3, <2>3, <2>5, <3>3 DEF Applied, Accounted, Registered, InRow, Content
      <4> QED
        BY <1>2, <1>4, <2>3, <2>5, <3>3, <4>1 DEF Applied
    <3> QED
      BY <3>1, <3>2, <3>3
  <2> QED
    BY <2>4, <2>5
<1>10. InvUpdates'
  <2>1. \A i : Message(batch[i])' = Message(batch[i])
    BY <1>2 DEF Message
  <2>2. \A x \in QA : updates'[x] # None => updates'[x] = updates[x]
    BY <1>4
  <2> QED
    BY <1>2, <2>1, <2>2 DEF IInv, InvUpdates, Content
<1> QED
  BY <1>1, <1>6, <1>8, <1>9, <1>10 DEF IInv

\* The end of a batch: every message of it was applied.
LEMMA CommitIInv ==
  ASSUME SinglePartition, IInv, Commit \/ CommitError
  PROVE  IInv'
<1>1. TypeInv /\ TypeInv'
  BY RestartTypeInv DEF IInv
<1>2. /\ phase = "applying" /\ \A q \in QA : updates[q] = None
      /\ batch' = <<>> /\ merged' = 0
      /\ UNCHANGED <<log, sent, position, updates, db, deleted, dropped>>
      /\ \A p \in Partition : committed'[p] \in {committed[p], CommitOffset(p)}
  BY DEF Commit, CommitError, AllApplied, EndBatch, backendVars, readerVars, tableVars
<1>3. ASSUME NEW p \in Partition
      PROVE  /\ Base(p)' = position[p] /\ position[p] \in Nat /\ Len(batch) \in Nat
             /\ position[p] = Base(p) + Len(batch)
             /\ position[p] <= Len(log[p]) /\ DOMAIN log[p] = 1 .. Len(log[p])
             /\ DOMAIN batch = 1 .. Len(batch) /\ merged = Len(batch)
             /\ committed[p] \in Nat
  <2>1. TypeOK /\ InBounds
    BY <1>1 DEF TypeInv
  <2>2. /\ log[p] \in Seq(MessageSet) /\ position[p] \in Nat /\ committed[p] \in Nat
        /\ batch \in Seq(Partition \X (Nat \ {0})) /\ merged = Len(batch)
    BY <1>2, <2>1 DEF TypeOK, InBounds
  <2>3. position[p] <= Len(log[p])
    BY <2>1 DEF InBounds
  <2> QED
    BY <1>2, <2>2, <2>3 DEF Base
<1>4. InvWindow'
  <2> SUFFICES ASSUME NEW p \in Partition PROVE committed'[p] <= position[p]
    BY <1>2, <1>3 DEF InvWindow
  <2>1. committed[p] <= position[p]
    <3>1. committed[p] <= Base(p)
      BY DEF IInv, InvWindow
    <3> QED
      BY <1>3, <3>1 DEF Base
  <2>2. CommitOffset(p) <= position[p]
    <3>1. CASE CommitOffset(p) = committed[p]
      BY <2>1, <3>1
    <3>2. ASSUME NEW b \in DOMAIN batch, CommitOffset(p) = batch[b][2]
          PROVE  CommitOffset(p) <= position[p]
      <4>1. batch[b][2] = Base(p) + b /\ b <= Len(batch)
        BY <1>3 DEF IInv, InvWindow
      <4> QED
        BY <1>3, <3>2, <4>1 DEF Base
    <3> QED
      BY <1>1, <3>1, <3>2, CommitOffsetIs
  <2> QED
    BY <1>2, <2>1, <2>2
<1>5. InvOrdered' /\ InvQuestionFirst'
  BY <1>2 DEF IInv, InvOrdered, InvQuestionFirst
<1>6. InvMerged' /\ InvUpdates'
  BY <1>2 DEF InvMerged, InvUpdates
<1>7. InvBase'
  <2> SUFFICES ASSUME NEW p \in Partition, NEW i \in 1 .. position[p]
               PROVE  Accounted(log[p][i]) \/ Again(log[p][i], p, position[p])
    <3>1. \A e : Accounted(e)' <=> Accounted(e)
      BY <1>2, AccountedUnchanged
    <3> QED
      BY <1>2, <1>3, <3>1 DEF InvBase, Again
  <2>1. i \in DOMAIN log[p] /\ i <= position[p]
    BY <1>3
  <2>2. updates[log[p][i].qa] = None
    BY <1>1, <1>2, <2>1, LogContent
  <2>3. ~Pending(log[p][i])
    BY <2>2 DEF Pending
  <2>4. CASE Content(log[p][i]).valid
    BY <1>2, <2>1, <2>3, <2>4, ReadMessages
  <2>5. CASE ~Content(log[p][i]).valid
    BY <2>5 DEF Accounted, Registered
  <2> QED
    BY <2>4, <2>5
<1> QED
  BY <1>1, <1>4, <1>5, <1>6, <1>7 DEF IInv

\* A restart goes back to the committed offsets, below the batch.
LEMMA RestartIInv ==
  ASSUME IInv, Shutdown \/ Crash
  PROVE  IInv'
<1>1. TypeInv /\ TypeInv'
  BY RestartTypeInv DEF IInv
<1>2. /\ batch' = <<>> /\ merged' = 0 /\ \A q \in QA : updates'[q] = None
      /\ position' = committed
      /\ UNCHANGED <<log, sent, committed, db, deleted, dropped>>
  <2>1. CASE Shutdown
    <3>1. phase = "reading" /\ batch = <<>>
      BY <2>1 DEF Shutdown
    <3>2. merged = 0 /\ \A q \in QA : updates[q] = None
      BY <1>1, <3>1 DEF TypeInv, InBounds
    <3> QED
      BY <2>1, <3>1, <3>2 DEF Shutdown, backendVars, workerVars, tableVars
  <2>2. CASE Crash
    BY <2>2 DEF Crash, EndBatch, backendVars, tableVars
  <2> QED
    BY <2>1, <2>2
<1>3. \A p \in Partition : committed[p] \in Nat /\ Base(p)' = committed[p]
  BY <1>1, <1>2 DEF TypeInv, TypeOK, Base
<1>4. InvWindow'
  BY <1>2, <1>3 DEF InvWindow
<1>5. InvOrdered' /\ InvQuestionFirst'
  BY <1>2 DEF IInv, InvOrdered, InvQuestionFirst
<1>6. InvMerged' /\ InvUpdates'
  BY <1>2 DEF InvMerged, InvUpdates
<1>7. InvBase'
  <2> SUFFICES ASSUME NEW p \in Partition, NEW i \in 1 .. committed[p]
               PROVE  Accounted(log[p][i]) \/ Again(log[p][i], p, committed[p])
    <3>1. \A e : Accounted(e)' <=> Accounted(e)
      BY <1>2, AccountedUnchanged
    <3> QED
      BY <1>2, <1>3, <3>1 DEF InvBase, Again
  <2>1. committed[p] <= Base(p) /\ committed[p] \in Nat /\ Base(p) \in Int
    BY <1>1 DEF IInv, InvWindow, TypeInv, TypeOK, Base
  <2>2. i \in 1 .. Base(p)
    BY <2>1
  <2>3. \A m \in DOMAIN log[p] : Base(p) < m => committed[p] < m
    BY <1>1, <2>1, BatchTypes
  <2> QED
    BY <2>2, <2>3 DEF IInv, InvBase, Again
<1> QED
  BY <1>1, <1>4, <1>5, <1>6, <1>7 DEF IInv

LEMMA ApiIInv ==
  ASSUME IInv, NEW q \in QA, DeleteQA(q) \/ \E v \in Vote : UpdateVote(q, v)
  PROVE  IInv'
<1>1. TypeInv /\ TypeInv'
  BY ApiTypeInv DEF IInv
<1>2. /\ UNCHANGED <<log, sent, position, committed, phase, batch, merged, updates, dropped>>
      /\ db \in [QA -> Row \union {None}]
  BY <1>1 DEF DeleteQA, UpdateVote, backendVars, readerVars, workerVars, TypeInv, TypeOK
<1>3. \A e : e.qa \in QA /\ Accounted(e) => Accounted(e)'
  <2> SUFFICES ASSUME NEW e, e.qa \in QA, Accounted(e) PROVE Accounted(e)'
    OBVIOUS
  <2>1. CASE DeleteQA(q)
    BY <1>2, <2>1 DEF DeleteQA, Accounted, Registered, InRow, Content
  <2>2. ASSUME NEW v \in Vote, UpdateVote(q, v) PROVE Accounted(e)'
    <3>1. deleted' = deleted /\ db' = IF db[q] = None THEN db ELSE [db EXCEPT ![q].vote = v]
      BY <2>2 DEF UpdateVote
    <3>2. CASE db[q] = None
      BY <1>2, <3>1, <3>2 DEF Accounted, Registered, InRow, Content
    <3>3. CASE db[q] # None
      <4>1. db'[q] = [db[q] EXCEPT !.vote = v] /\ db[q] \in Row
        BY <1>2, <3>1, <3>3
      <4>2. db'[q] \in Row /\ db'[q].cols = db[q].cols
        BY <2>2, <4>1 DEF Row
      <4>3. \A x \in QA : (db[x] # None => db'[x] # None) /\ (db[x] # None => db'[x].cols = db[x].cols)
        BY <1>2, <3>1, <3>3, <4>2, NoneAssumption
      <4> QED
        BY <1>2, <3>1, <4>3 DEF Accounted, Registered, InRow, Content
    <3> QED
      BY <3>2, <3>3
  <2> QED
    BY <2>1, <2>2
<1>4. InvWindow' /\ InvOrdered' /\ InvQuestionFirst' /\ InvUpdates'
  <2>1. InvWindow' /\ InvOrdered' /\ InvQuestionFirst'
    BY <1>2 DEF IInv, InvWindow, InvOrdered, InvQuestionFirst, Base
  <2>2. \A i : Message(batch[i])' = Message(batch[i])
    BY <1>2 DEF Message
  <2>3. InvUpdates'
    BY <1>2, <2>2 DEF IInv, InvUpdates, Content
  <2> QED
    BY <2>1, <2>3
<1>5. \A i \in 1 .. merged : i \in DOMAIN batch
  BY <1>1 DEF TypeInv, TypeOK
<1>6. InvMerged'
  <2> SUFFICES ASSUME NEW p \in Partition, NEW i \in 1 .. merged, Content(Message(batch[i])).valid
               PROVE  \/ Pending(Message(batch[i]))' \/ Applied(Message(batch[i]))'
                      \/ Again(Message(batch[i]), p, Base(p) + merged)
    BY <1>2 DEF InvMerged, Message, Content, Again, Base
  <2> DEFINE e == Message(batch[i])
  <2>1. e.qa \in QA /\ e' = e
    BY <1>1, <1>2, <1>5, BatchMessage DEF MessageSet, Message
  <2>2. Pending(e) \/ Applied(e) \/ Again(e, p, Base(p) + merged)
    BY DEF IInv, InvMerged
  <2>3. CASE Pending(e)
    BY <1>2, <2>1, <2>3 DEF Pending, Content, Message
  <2>4. CASE Applied(e)
    BY <1>2, <1>3, <2>1, <2>4 DEF Applied, Message
  <2> QED
    BY <2>2, <2>3, <2>4
<1>7. InvBase'
  <2> SUFFICES ASSUME NEW p \in Partition, NEW i \in 1 .. Base(p)
               PROVE  Accounted(log[p][i])' \/ Again(log[p][i], p, Base(p))
    BY <1>2 DEF InvBase, Base, Again
  <2>1. i \in DOMAIN log[p]
    BY SMTT(30), <1>1 DEF TypeInv, TypeOK, InBounds, Base
  <2>2. /\ log[p][i].qa \in QA /\ log' = log
        /\ Accounted(log[p][i]) \/ Again(log[p][i], p, Base(p))
    BY <1>1, <1>2, <2>1, LogContent DEF IInv, InvBase
  <2> QED
    BY <1>3, <2>2
<1> QED
  BY <1>1, <1>4, <1>6, <1>7 DEF IInv

LEMMA StutterIInv ==
  ASSUME IInv, UNCHANGED vars
  PROVE  IInv'
<1>1. TypeInv'
  BY StutterTypeInv DEF IInv
<1>2. UNCHANGED <<log, sent, position, committed, phase, batch, merged, updates, db, deleted, dropped>>
  BY DEF vars, backendVars, readerVars, workerVars, tableVars
<1>3. InvWindow' /\ InvOrdered' /\ InvQuestionFirst'
  BY <1>2 DEF IInv, InvWindow, InvOrdered, InvQuestionFirst, Base
<1>4. InvUpdates'
  <2>1. \A i : Message(batch[i])' = Message(batch[i])
    BY <1>2 DEF Message
  <2> QED
    BY <1>2, <2>1 DEF IInv, InvUpdates, Content
<1>5. InvMerged'
  <2> SUFFICES ASSUME NEW p \in Partition, NEW i \in 1 .. merged,
                      NEW e, e = Message(batch[i]), Content(e).valid
               PROVE  Pending(e)' \/ Applied(e)' \/ Again(e, p, Base(p) + merged)
    <3>1. \A i : Message(batch[i])' = Message(batch[i])
      BY <1>2 DEF Message
    <3>2. \A p \in Partition : Base(p)' = Base(p)
      BY <1>2 DEF Base
    <3> QED
      BY <1>2, <3>1, <3>2 DEF InvMerged, Again, Content
  <2>1. Pending(e) \/ Applied(e) \/ Again(e, p, Base(p) + merged)
    BY DEF IInv, InvMerged
  <2> QED
    BY <1>2, <2>1, AccountedUnchanged, PendingUnchanged DEF Applied
<1>6. InvBase'
  BY <1>2, BaseUnchanged DEF IInv
<1> QED
  BY <1>1, <1>3, <1>4, <1>5, <1>6 DEF IInv

\* The history of faults only grows, so what was not tolerated never is again.
LEMMA FaultsGrow ==
  ASSUME TypeInv, [Next]_vars
  PROVE  /\ Len(faults) <= Len(faults')
         /\ \A i \in DOMAIN faults : faults'[i] = faults[i]
<1> USE DEF TypeInv, TypeOK
<1>1. UNCHANGED faults \/ \E kind \in FaultKind : faults' = Append(faults, kind)
  <2>1. CASE Backend
    BY <2>1 DEF Backend, WriteEvent
  <2>2. CASE Worker
    BY <2>2 DEF Worker, Fetch, BatchTimeout, Merge, CreateQA, UpdateQA, Commit
  <2>3. CASE Faulty
    BY <2>3 DEF Faulty, HasFault, LoseEvent, WriteError, RetryBatch,
                FetchError, CommitError, Crash, Rebalance
  <2>4. CASE Shutdown \/ Api
    BY <2>4 DEF Shutdown, Api, DeleteQA, UpdateVote
  <2>5. CASE UNCHANGED vars
    BY <2>5 DEF vars
  <2> QED
    BY <2>1, <2>2, <2>3, <2>4, <2>5 DEF Next
<1>2. CASE UNCHANGED faults
  BY <1>2
<1>3. ASSUME NEW kind \in FaultKind, faults' = Append(faults, kind)
      PROVE  /\ Len(faults) <= Len(faults')
             /\ \A i \in DOMAIN faults : faults'[i] = faults[i]
  BY <1>3
<1> QED
  BY <1>1, <1>2, <1>3

LEMMA NextIInv ==
  ASSUME SinglePartition, NoFileReferences, Tolerated => IInv, TypeInv, [Next]_vars
  PROVE  Tolerated' => IInv'
<1> SUFFICES ASSUME Tolerated' PROVE IInv'
  OBVIOUS
<1>0. Tolerated
  <2>1. Len(faults) \in Nat /\ Len(faults') \in Nat
    <3>1. TypeInv'
      BY NextTypeInv
    <3> QED
      BY <3>1 DEF TypeInv, TypeOK
  <2>2. DOMAIN faults \subseteq DOMAIN faults'
    <3>1. DOMAIN faults = 1 .. Len(faults) /\ DOMAIN faults' = 1 .. Len(faults')
      <4>1. TypeInv'
        BY NextTypeInv
      <4> QED
        BY <4>1 DEF TypeInv, TypeOK
    <3> QED
      BY <2>1, <3>1, FaultsGrow
  <2> QED
    BY <2>2, FaultsGrow DEF Tolerated, Happened
<1>1. IInv
  BY <1>0
<1>2. CASE Backend
  BY <1>1, <1>2, WriteIInv DEF Backend
<1>3. CASE Worker
  BY <1>1, <1>3, FetchIInv, BatchTimeoutIInv, MergeIInv, ApplyIInv, CommitIInv DEF Worker
<1>4. CASE Faulty
  <2>1. \A kind \in {"fetch", "writeLost", "rebalance"} : faults' # Append(faults, kind)
    <3> SUFFICES ASSUME NEW kind \in {"fetch", "writeLost", "rebalance"},
                        faults' = Append(faults, kind)
                 PROVE  FALSE
      OBVIOUS
    <3>1. Len(faults) + 1 \in DOMAIN faults' /\ faults'[Len(faults) + 1] = kind
      BY DEF TypeInv, TypeOK
    <3> QED
      BY <3>1 DEF Tolerated, Happened
  <2>2. ~FetchError /\ ~Rebalance /\ \A q \in QA : ~LoseEvent(q)
    BY <2>1 DEF HasFault, FetchError, Rebalance, LoseEvent
  <2> QED
    BY <1>1, <1>4, <2>2, RetryIInv, ApplyIInv, CommitIInv, RestartIInv DEF Faulty
<1>5. CASE Shutdown
  BY <1>1, <1>5, RestartIInv
<1>6. CASE Api
  BY <1>1, <1>6, ApiIInv DEF Api
<1>7. CASE UNCHANGED vars
  BY <1>1, <1>7, StutterIInv
<1> QED
  BY <1>2, <1>3, <1>4, <1>5, <1>6, <1>7 DEF Next

---------------------------------------------------------------------------
\* With one partition and answers without file references, as long as no
\* message was lost and the group did not rebalance, whatever restarts, failed
\* commits, failed statements and retried batches happened: an event every copy
\* of which is behind the committed offset is in its QA's row, unless the QA was
\* deleted or one of its queries was logged and skipped.
THEOREM CommittedAccounted ==
  ASSUME SinglePartition, NoFileReferences
  PROVE  Spec => []CommittedEventsAccounted
<1> DEFINE Inv == TypeInv /\ (Tolerated => IInv)
<1>1. Init => Inv
  BY InitIInv DEF IInv
<1>2. Inv /\ [Next]_vars => Inv'
  BY NextTypeInv, NextIInv
<1>3. Inv => CommittedEventsAccounted
  <2> SUFFICES ASSUME Inv, Tolerated, NEW p \in Partition, NEW i \in 1 .. committed[p],
                      log[p][i] \notin Undelivered
               PROVE  Accounted(log[p][i])
    BY DEF CommittedEventsAccounted, CommittedEvents, Delivered, Tolerated
  <2>1. committed[p] <= Base(p) /\ committed[p] \in Nat /\ Base(p) \in Int
    BY DEF IInv, InvWindow, TypeInv, TypeOK, Base
  <2>2. i \in 1 .. Base(p)
    BY <2>1
  <2>3. ASSUME Again(log[p][i], p, Base(p)) PROVE FALSE
    <3>1. PICK m \in DOMAIN log[p] : Base(p) < m /\ log[p][m] = log[p][i]
      BY <2>3 DEF Again
    <3>2. m \in committed[p] + 1 .. Len(log[p])
      BY <2>1, <3>1, BatchTypes
    <3>3. log[p][m] \in Undelivered
      BY <3>2 DEF Undelivered
    <3> QED
      BY <3>1, <3>3
  <2> QED
    BY <2>2, <2>3 DEF IInv, InvBase
<1> QED
  BY <1>1, <1>2, <1>3, PTL DEF Spec
---------------------------------------------------------------------------
(* What a client reads never goes back. The columns of a row come from     *)
(* messages the worker has done with, those of a pending query from later  *)
(* ones, and the topic holds the events of a QA in order.                  *)

Sets(e, q, c, v) == e.qa = q /\ Content(e).column = c /\ Content(e).value = v

\* A column of a row was set by a committed message, or by one of the batch once the
\* query of its QA was applied.
RowsAreDone ==
  \A p \in Partition, q \in QA, c \in Column : db[q] # None /\ db[q].cols[c] # 0 =>
    \E i \in DOMAIN log[p] :
      /\ Sets(log[p][i], q, c, db[q].cols[c])
      /\ \/ i <= committed[p]
         \/ /\ phase = "applying" /\ updates[q] = None
            /\ \E b \in DOMAIN batch : batch[b] = <<p, i>>

\* A column of a pending query was set by a merged message of the batch.
PendingIsRead ==
  \A q \in QA, c \in Column : updates[q] # None /\ updates[q].cols[c] # 0 =>
    \E b \in 1 .. merged : Sets(Message(batch[b]), q, c, updates[q].cols[c])

\* The events of one QA are in the log in the order of its script.
InOrder ==
  \A p \in Partition : \A i, j \in DOMAIN log[p] :
    i <= j /\ log[p][i].qa = log[p][j].qa => log[p][i].n <= log[p][j].n

ColumnInv ==
  /\ TypeInv /\ OnceInv
  /\ ~Redelivered => InOrder /\ RowsAreDone /\ PendingIsRead

\* A later message of the same QA and column carries no older version.
LEMMA LogOrder ==
  ASSUME TypeInv, InOrder, NEW p \in Partition,
         NEW i \in DOMAIN log[p], NEW j \in DOMAIN log[p], i <= j,
         log[p][i].qa = log[p][j].qa,
         Content(log[p][i]).column = Content(log[p][j]).column
  PROVE  Content(log[p][i]).value <= Content(log[p][j]).value
<1>1. log[p][i].n <= log[p][j].n
  BY DEF InOrder
<1> QED
  BY <1>1, LogContent, ScriptOrder DEF Content

\* Unless a batch is stored twice, a log keeps the order of the events.
LEMMA OrderedSteps ==
  ASSUME TypeInv, InOrder, [Next]_vars, \A p \in Partition : ~RetryBatch(p)
  PROVE  InOrder'
<1>1. CASE UNCHANGED log
  BY <1>1 DEF InOrder
<1>2. ASSUME NEW q \in QA, NEW p \in Partition,
             WriteEvent(q, p) \/ LoseEvent(q)
      PROVE  InOrder'
  <2> DEFINE e == NextEvent(q)
  <2>1. TypeInv'
    BY <1>2, BackendTypeInv
  <2>2. /\ \A pp \in Partition : \A i \in DOMAIN log[pp] :
             i \in DOMAIN log'[pp] /\ log'[pp][i] = log[pp][i]
        /\ \A pp \in Partition : \A i \in DOMAIN log'[pp] :
             \/ i \in DOMAIN log[pp]
             \/ log'[pp][i] = e /\ pp = p
    BY <1>2, LogGrows
  <2>3. e.qa = q /\ e.n = sent[q] + 1 /\ sent[q] \in Nat
    BY DEF NextEvent, TypeInv, TypeOK
  <2> HIDE DEF e
  <2> SUFFICES ASSUME NEW pp \in Partition, NEW i \in DOMAIN log'[pp], NEW j \in DOMAIN log'[pp],
                      i <= j, log'[pp][i].qa = log'[pp][j].qa
               PROVE  log'[pp][i].n <= log'[pp][j].n
    BY DEF InOrder
  <2>4. /\ DOMAIN log[pp] = 1 .. Len(log[pp]) /\ Len(log[pp]) \in Nat
        /\ DOMAIN log'[pp] = 1 .. Len(log'[pp]) /\ Len(log'[pp]) \in Nat
    <3>1. log[pp] \in Seq(MessageSet)
      BY DEF TypeInv, TypeOK
    <3>2. log'[pp] \in Seq(MessageSet)
      BY <2>1 DEF TypeInv, TypeOK
    <3> QED
      BY <3>1, <3>2
  <2>5. CASE j \in DOMAIN log[pp]
    <3>1. i \in DOMAIN log[pp]
      BY <2>4, <2>5
    <3> QED
      BY <2>2, <2>5, <3>1 DEF InOrder
  <2>6. CASE j \notin DOMAIN log[pp] /\ i \in DOMAIN log[pp]
    <3>1. log'[pp][j] = e /\ log'[pp][i] = log[pp][i]
      BY <2>2, <2>6
    <3>2. log[pp][i].n <= sent[log[pp][i].qa] /\ log[pp][i].n \in Nat
      BY <2>6, LogContent DEF TypeInv, InBounds
    <3> QED
      BY <2>3, <3>1, <3>2
  <2>7. CASE j \notin DOMAIN log[pp] /\ i \notin DOMAIN log[pp]
    <3>1. log'[pp][j] = e /\ log'[pp][i] = e
      BY <2>2, <2>7
    <3> QED
      BY <2>3, <3>1
  <2> QED
    BY <2>5, <2>6, <2>7
<1>3. PICK p \in Partition : TRUE
  BY ConstantsAssumption
<1>4. \/ UNCHANGED log
      \/ \E q \in QA : LoseEvent(q) \/ \E pp \in Partition : WriteEvent(q, pp)
  BY DEF Next, Backend, Worker, Faulty, Api, Fetch, BatchTimeout, FetchError, Merge, CreateQA,
         UpdateQA, WriteError, Commit, CommitError, Shutdown, Crash, Rebalance, DeleteQA,
         UpdateVote, vars, backendVars
<1> QED
  BY <1>1, <1>2, <1>3, <1>4

\* Steps that leave rows and queries alone, or only drop queries while reading.
LEMMA WriteColumns ==
  ASSUME TypeInv, RowsAreDone, PendingIsRead, NEW q \in QA, NEW p \in Partition,
         WriteEvent(q, p) \/ LoseEvent(q)
  PROVE  RowsAreDone' /\ PendingIsRead'
<1>1. UNCHANGED <<position, committed, phase, batch, merged, updates, db>>
  BY DEF WriteEvent, LoseEvent, readerVars, workerVars, tableVars
<1>2. \A pp \in Partition : \A i \in DOMAIN log[pp] :
        i \in DOMAIN log'[pp] /\ log'[pp][i] = log[pp][i]
  BY LogGrows
<1>3. RowsAreDone'
  <2> SUFFICES ASSUME NEW pp \in Partition, NEW r \in QA, NEW c \in Column,
                      db[r] # None, db[r].cols[c] # 0
               PROVE  \E i \in DOMAIN log'[pp] :
                        /\ Sets(log'[pp][i], r, c, db[r].cols[c])
                        /\ \/ i <= committed[pp]
                           \/ /\ phase = "applying" /\ updates[r] = None
                              /\ \E b \in DOMAIN batch : batch[b] = <<pp, i>>
    BY <1>1 DEF RowsAreDone, Sets, Content
  <2> QED
    BY <1>2 DEF RowsAreDone
<1>4. \A b \in 1 .. merged : Message(batch[b])' = Message(batch[b])
  BY <1>1, <1>2, BatchTypes DEF Message
<1>5. PendingIsRead'
  <2> SUFFICES ASSUME NEW r \in QA, NEW c \in Column, updates[r] # None, updates[r].cols[c] # 0
               PROVE  \E b \in 1 .. merged : Sets(Message(batch[b])', r, c, updates[r].cols[c])
    BY <1>1 DEF PendingIsRead, Sets, Content
  <2> QED
    BY <1>4 DEF PendingIsRead
<1> QED
  BY <1>3, <1>5

LEMMA ReadColumns ==
  ASSUME TypeInv, RowsAreDone,
         (\E p \in Partition : Fetch(p)) \/ BatchTimeout \/ FetchError \/ Shutdown
  PROVE  RowsAreDone' /\ PendingIsRead'
<1>1. /\ phase = "reading"
      /\ UNCHANGED <<log, committed, updates, db>>
  BY DEF Fetch, BatchTimeout, FetchError, Shutdown, backendVars, readerVars, workerVars, tableVars
<1>2. \A q \in QA : updates'[q] = None
  BY <1>1 DEF TypeInv, InBounds
<1>3. PendingIsRead'
  BY <1>2 DEF PendingIsRead
<1>4. \A p \in Partition, q \in QA, c \in Column : db[q] # None /\ db[q].cols[c] # 0 =>
        \E i \in DOMAIN log[p] : Sets(log[p][i], q, c, db[q].cols[c]) /\ i <= committed[p]
  BY <1>1 DEF RowsAreDone
<1>5. RowsAreDone'
  BY <1>1, <1>4 DEF RowsAreDone, Sets, Content
<1> QED
  BY <1>3, <1>5

LEMMA MergeColumns ==
  ASSUME TypeInv, RowsAreDone, PendingIsRead, Merge
  PROVE  RowsAreDone' /\ PendingIsRead'
<1> DEFINE e == Message(batch[merged + 1])
<1>1. /\ phase = "merging" /\ merged' = merged + 1 /\ merged \in Nat /\ merged + 1 \in DOMAIN batch
      /\ updates \in [QA -> Query \union {None}]
      /\ UNCHANGED <<log, committed, batch, db>>
      /\ updates' = IF Content(e).valid
                    THEN [updates EXCEPT ![e.qa] = MergeQuery(ConvertEvent(e), updates[e.qa])]
                    ELSE updates
  <2>1. merged < Len(batch) /\ merged + 1 \in DOMAIN batch /\ merged \in Nat
    BY BatchTypes DEF Merge
  <2>2. updates \in [QA -> Query \union {None}]
    BY DEF TypeInv, TypeOK
  <2> QED
    BY <2>1, <2>2 DEF Merge, backendVars, readerVars, tableVars
<1>2. RowsAreDone'
  <2>1. \A p \in Partition, q \in QA, c \in Column : db[q] # None /\ db[q].cols[c] # 0 =>
          \E i \in DOMAIN log[p] : Sets(log[p][i], q, c, db[q].cols[c]) /\ i <= committed[p]
    BY <1>1 DEF RowsAreDone
  <2> QED
    BY <1>1, <2>1 DEF RowsAreDone, Sets, Content
<1>3. e.qa \in QA /\ \A c \in Column : ConvertEvent(e).cols[c] # 0 => Sets(e, e.qa, c, ConvertEvent(e).cols[c])
  <2>1. e \in MessageSet /\ Content(e) \in ScriptEvent
    BY <1>1, BatchMessage
  <2> QED
    BY <2>1 DEF MessageSet, ScriptEvent, ConvertEvent, Blank, Sets
<1>4. \A q \in QA, c \in Column : updates'[q] # None /\ updates'[q].cols[c] # 0 =>
        \/ updates[q] # None /\ updates[q].cols[c] # 0 /\ updates'[q].cols[c] = updates[q].cols[c]
        \/ Sets(e, q, c, updates'[q].cols[c])
  <2> SUFFICES ASSUME NEW q \in QA, NEW c \in Column, updates'[q] # None, updates'[q].cols[c] # 0
               PROVE  \/ /\ updates[q] # None /\ updates[q].cols[c] # 0
                         /\ updates'[q].cols[c] = updates[q].cols[c]
                      \/ Sets(e, q, c, updates'[q].cols[c])
    OBVIOUS
  <2> HIDE DEF e
  <2>1. CASE updates'[q] = updates[q]
    BY <2>1
  <2>2. CASE updates'[q] # updates[q]
    <3>1. q = e.qa /\ updates'[q] = MergeQuery(ConvertEvent(e), updates[q])
      BY <1>1, <1>3, <2>2
    <3>2. CASE updates[q] = None
      BY <1>3, <3>1, <3>2 DEF MergeQuery
    <3>3. CASE updates[q] # None
      <4>1. updates'[q].cols = MergeQA(ConvertEvent(e).cols, updates[q].cols)
        BY <3>1, <3>3 DEF MergeQuery
      <4>2. updates'[q].cols[c] = ConvertEvent(e).cols[c] \/ updates'[q].cols[c] = updates[q].cols[c]
        BY <4>1 DEF MergeQA
      <4> QED
        BY <1>3, <3>1, <3>3, <4>2
    <3> QED
      BY <3>2, <3>3
  <2> QED
    BY <2>1, <2>2
<1>5. PendingIsRead'
  <2> SUFFICES ASSUME NEW q \in QA, NEW c \in Column, updates'[q] # None, updates'[q].cols[c] # 0
               PROVE  \E b \in 1 .. merged' : Sets(Message(batch[b]), q, c, updates'[q].cols[c])
    <3>1. \A b : Message(batch[b])' = Message(batch[b])
      BY <1>1 DEF Message
    <3> QED
      BY <3>1 DEF PendingIsRead, Sets, Content
  <2>1. CASE Sets(e, q, c, updates'[q].cols[c])
    <3>1. merged + 1 \in 1 .. merged'
      BY <1>1
    <3> QED
      BY <2>1, <3>1
  <2>2. CASE updates[q] # None /\ updates[q].cols[c] # 0 /\ updates'[q].cols[c] = updates[q].cols[c]
    <3>1. PICK b \in 1 .. merged : Sets(Message(batch[b]), q, c, updates[q].cols[c])
      BY <2>2 DEF PendingIsRead
    <3>2. b \in 1 .. merged'
      BY <1>1
    <3> QED
      BY <2>2, <3>1, <3>2
  <2> QED
    BY <1>4, <2>1, <2>2
<1> QED
  BY <1>2, <1>5

\* What UPDATE and INSERT leave in a row.
LEMMA AppliedColumns ==
  ASSUME TypeInv, NEW q \in QA, CreateQA(q) \/ UpdateQA(q) \/ WriteError(q)
  PROVE  /\ \A r \in QA : r # q => db'[r] = db[r]
         /\ \A c \in Column : db'[q] # None =>
              \/ /\ updates[q].cols[c] # 0 /\ db'[q].cols[c] = updates[q].cols[c]
                 /\ db[q] = None \/ UpdateQA(q)
              \/ db[q] = None /\ db'[q].cols[c] = 0
              \/ db[q] # None /\ db'[q].cols[c] = db[q].cols[c]
<1>1. db \in [QA -> Row \union {None}] /\ updates \in [QA -> Query \union {None}]
  BY DEF TypeInv, TypeOK
<1>2. \A r \in QA : r # q => db'[r] = db[r]
  BY <1>1 DEF CreateQA, UpdateQA, WriteError
<1>3. CASE UNCHANGED db
  BY <1>2, <1>3
<1>4. CASE CreateQA(q) /\ db[q] = None
  <2>1. db'[q] = NewRow(updates[q]) /\ updates[q] \in Query
    BY <1>1, <1>4 DEF CreateQA
  <2>2. db'[q].cols = updates[q].cols
    BY <2>1 DEF NewRow
  <2> QED
    BY <1>2, <1>4, <2>2
<1>5. CASE UpdateQA(q) /\ db[q] # None
  <2>1. db'[q] = UpdateRow(db[q], updates[q]) /\ db[q] \in Row
    BY <1>1, <1>5 DEF UpdateQA
  <2>2. \A c \in Column : db'[q].cols[c] = IF updates[q].cols[c] # 0 THEN updates[q].cols[c]
                                           ELSE db[q].cols[c]
    BY <2>1 DEF UpdateRow, Row
  <2> QED
    BY <1>2, <1>5, <2>2
<1> QED
  BY <1>3, <1>4, <1>5 DEF CreateQA, UpdateQA, WriteError

LEMMA ApplyColumns ==
  ASSUME SinglePartition, TypeInv, RowsAreDone, PendingIsRead, NEW q \in QA,
         CreateQA(q) \/ UpdateQA(q) \/ WriteError(q)
  PROVE  RowsAreDone' /\ PendingIsRead'
<1>1. /\ phase = "applying" /\ updates[q] # None
      /\ updates' = [updates EXCEPT ![q] = None] /\ updates \in [QA -> Query \union {None}]
      /\ UNCHANGED <<log, committed, phase, batch, merged>>
  BY DEF CreateQA, UpdateQA, WriteError, backendVars, readerVars, TypeInv, TypeOK
<1>2. updates'[q] = None /\ \A r \in QA : r # q => updates'[r] = updates[r]
  BY <1>1
<1>3. PendingIsRead'
  <2> SUFFICES ASSUME NEW r \in QA, NEW c \in Column, updates'[r] # None, updates'[r].cols[c] # 0
               PROVE  \E b \in 1 .. merged : Sets(Message(batch[b]), r, c, updates'[r].cols[c])
    <3>1. merged' = merged /\ \A b : Message(batch[b])' = Message(batch[b])
      BY <1>1 DEF Message
    <3> QED
      BY <3>1 DEF PendingIsRead, Sets, Content
  <2>1. updates'[r] = updates[r]
    BY <1>2
  <2> QED
    BY <2>1 DEF PendingIsRead
<1>4. RowsAreDone'
  <2> SUFFICES ASSUME NEW p \in Partition, NEW r \in QA, NEW c \in Column,
                      db'[r] # None, db'[r].cols[c] # 0
               PROVE  \E i \in DOMAIN log[p] :
                        /\ Sets(log[p][i], r, c, db'[r].cols[c])
                        /\ \/ i <= committed[p]
                           \/ updates'[r] = None /\ \E b \in DOMAIN batch : batch[b] = <<p, i>>
    BY <1>1 DEF RowsAreDone, Sets, Content
  <2>1. CASE r # q
    <3>1. db'[r] = db[r] /\ updates'[r] = updates[r]
      BY <1>2, <2>1, AppliedColumns
    <3> QED
      BY <3>1 DEF RowsAreDone
  <2>2. CASE r = q /\ updates[q].cols[c] # 0 /\ db'[q].cols[c] = updates[q].cols[c]
    <3>1. PICK b \in 1 .. merged : Sets(Message(batch[b]), q, c, updates[q].cols[c])
      BY <1>1, <2>2 DEF PendingIsRead
    <3>2. b \in DOMAIN batch
      BY BatchTypes
    <3>3. /\ batch[b] = <<batch[b][1], batch[b][2]>> /\ batch[b][1] = p
          /\ batch[b][2] \in DOMAIN log[p]
      BY <3>2, BatchTypes DEF SinglePartition
    <3>4. Message(batch[b]) = log[p][batch[b][2]]
      BY <3>3 DEF Message
    <3> QED
      BY <1>2, <2>2, <3>1, <3>2, <3>3, <3>4
  <2>3. CASE r = q /\ db[q] # None /\ db'[q].cols[c] = db[q].cols[c]
    BY <1>2, <2>3 DEF RowsAreDone
  <2> QED
    BY <2>1, <2>2, <2>3, AppliedColumns
<1> QED
  BY <1>3, <1>4

LEMMA CommitColumns ==
  ASSUME TypeInv, BatchIsNew, RowsAreDone, Commit
  PROVE  RowsAreDone' /\ PendingIsRead'
<1>1. /\ \A q \in QA : updates[q] = None
      /\ committed' = [p \in Partition |-> CommitOffset(p)]
      /\ UNCHANGED <<log, updates, db>>
  BY DEF Commit, AllApplied, backendVars, tableVars
<1>2. PendingIsRead'
  BY <1>1 DEF PendingIsRead
<1>3. RowsAreDone'
  <2> SUFFICES ASSUME NEW p \in Partition, NEW q \in QA, NEW c \in Column,
                      db[q] # None, db[q].cols[c] # 0
               PROVE  \E i \in DOMAIN log[p] : Sets(log[p][i], q, c, db[q].cols[c]) /\ i <= CommitOffset(p)
    BY <1>1 DEF RowsAreDone, Sets, Content
  <2>1. PICK i \in DOMAIN log[p] :
          /\ Sets(log[p][i], q, c, db[q].cols[c])
          /\ i <= committed[p] \/ \E b \in DOMAIN batch : batch[b] = <<p, i>>
    BY DEF RowsAreDone
  <2>2. i \in Nat /\ committed[p] \in Nat
    BY BatchTypes
  <2>3. i <= CommitOffset(p)
    BY <2>1, <2>2, CommitOffsetCovers
  <2> QED
    BY <2>1, <2>3
<1> QED
  BY <1>2, <1>3

\* The REST handlers change no column.
LEMMA ApiKeepsColumns ==
  ASSUME TypeInv, NEW q \in QA, DeleteQA(q) \/ \E v \in Vote : UpdateVote(q, v)
  PROVE  \A r \in QA : db'[r] # None => db[r] # None /\ db'[r].cols = db[r].cols
<1>0. db \in [QA -> Row \union {None}]
  BY DEF TypeInv, TypeOK
<1>1. CASE DeleteQA(q)
  BY <1>0, <1>1 DEF DeleteQA
<1>2. ASSUME NEW v \in Vote, UpdateVote(q, v), db[q] # None
      PROVE  \A r \in QA : db'[r] # None => db[r] # None /\ db'[r].cols = db[r].cols
  <2>1. db' = [db EXCEPT ![q] = [db[q] EXCEPT !.vote = v]] /\ db[q] \in Row
    BY <1>0, <1>2 DEF UpdateVote
  <2>2. [db[q] EXCEPT !.vote = v].cols = db[q].cols
    BY <2>1 DEF Row
  <2> QED
    BY <1>0, <1>2, <2>1, <2>2
<1>3. CASE db' = db
  BY <1>3
<1> QED
  BY <1>1, <1>2, <1>3 DEF UpdateVote

LEMMA ApiColumns ==
  ASSUME TypeInv, RowsAreDone, PendingIsRead, NEW q \in QA,
         DeleteQA(q) \/ \E v \in Vote : UpdateVote(q, v)
  PROVE  RowsAreDone' /\ PendingIsRead'
<1>1. UNCHANGED <<log, committed, phase, batch, merged, updates>>
  BY DEF DeleteQA, UpdateVote, backendVars, readerVars, workerVars
<1>2. PendingIsRead'
  <2>1. \A b : Message(batch[b])' = Message(batch[b])
    BY <1>1 DEF Message
  <2> QED
    BY <1>1, <2>1 DEF PendingIsRead, Sets, Content
<1>3. RowsAreDone'
  <2> SUFFICES ASSUME NEW p \in Partition, NEW r \in QA, NEW c \in Column,
                      db'[r] # None, db'[r].cols[c] # 0
               PROVE  \E i \in DOMAIN log[p] :
                        /\ Sets(log[p][i], r, c, db'[r].cols[c])
                        /\ \/ i <= committed[p]
                           \/ /\ phase = "applying" /\ updates[r] = None
                              /\ \E b \in DOMAIN batch : batch[b] = <<p, i>>
    BY <1>1 DEF RowsAreDone, Sets, Content
  <2>1. db[r] # None /\ db'[r].cols = db[r].cols
    BY ApiKeepsColumns
  <2> QED
    BY <2>1 DEF RowsAreDone
<1> QED
  BY <1>2, <1>3

LEMMA ColumnSteps ==
  ASSUME SinglePartition, ColumnInv, [Next]_vars
  PROVE  ColumnInv'
<1>1. TypeInv' /\ OnceInv'
  BY NextTypeInv, OnceSteps DEF ColumnInv
<1>2. ASSUME ~Redelivered' PROVE InOrder' /\ RowsAreDone' /\ PendingIsRead'
  <2>0. /\ ~Redelivered
        /\ ~CommitError /\ ~Crash /\ ~Rebalance
        /\ \A p \in Partition : ~RetryBatch(p)
    BY <1>2, FaultsOfSteps DEF ColumnInv, TypeInv
  <2>1. TypeInv /\ InOrder /\ RowsAreDone /\ PendingIsRead /\ BatchIsNew
    BY <2>0 DEF ColumnInv, OnceInv
  <2>4. InOrder'
    BY <2>0, <2>1, OrderedSteps
  <2>2. PICK p \in Partition : TRUE
    BY ConstantsAssumption
  <2>3. CASE UNCHANGED vars
    <3>1. UNCHANGED <<log, committed, phase, batch, merged, updates, db>>
      BY <2>3 DEF vars, backendVars, readerVars, workerVars, tableVars
    <3>2. RowsAreDone'
      BY <2>1, <3>1 DEF RowsAreDone, Sets, Content
    <3>3. PendingIsRead'
      <4>1. \A b : Message(batch[b])' = Message(batch[b])
        BY <3>1 DEF Message
      <4> QED
        BY <2>1, <3>1, <4>1 DEF PendingIsRead, Sets, Content
    <3> QED
      BY <2>4, <3>2, <3>3
  <2> QED
    BY <2>0, <2>1, <2>2, <2>3, <2>4, WriteColumns, ReadColumns, MergeColumns, ApplyColumns,
       CommitColumns, ApiColumns
       DEF Next, Backend, Worker, Faulty, Api
<1> QED
  BY <1>1, <1>2 DEF ColumnInv

\* An UPDATE puts later versions over earlier ones.
LEMMA UpdateGrows ==
  ASSUME SinglePartition, ColumnInv, ~Redelivered, NEW q \in QA, UpdateQA(q), db[q] # None,
         NEW c \in Column, updates[q].cols[c] # 0
  PROVE  db[q].cols[c] <= updates[q].cols[c]
<1>1. TypeInv /\ InOrder /\ BatchIsNew /\ RowsAreDone /\ PendingIsRead
  BY DEF ColumnInv, OnceInv
<1>2. updates[q] # None
  BY DEF UpdateQA
<1>3. db[q].cols[c] \in Nat /\ updates[q].cols[c] \in Nat
  <2>1. db[q] \in Row /\ updates[q] \in Query
    BY <1>1, <1>2 DEF TypeInv, TypeOK
  <2> QED
    BY <2>1 DEF Row, Query
<1>4. PICK p \in Partition : TRUE
  BY ConstantsAssumption
<1>5. CASE db[q].cols[c] # 0
  <2>1. PICK i \in DOMAIN log[p] : Sets(log[p][i], q, c, db[q].cols[c]) /\ i <= committed[p]
    BY <1>1, <1>2, <1>5 DEF RowsAreDone
  <2>2. PICK b \in 1 .. merged : Sets(Message(batch[b]), q, c, updates[q].cols[c])
    BY <1>1, <1>2 DEF PendingIsRead
  <2>3. b \in DOMAIN batch
    BY <1>1, BatchTypes
  <2> DEFINE j == batch[b][2]
  <2>4. batch[b][1] = p /\ j \in DOMAIN log[p] /\ Message(batch[b]) = log[p][j]
    BY <1>1, <2>3, BatchTypes DEF SinglePartition, Message
  <2>5. committed[p] < j /\ committed[p] \in Nat /\ i \in Nat /\ j \in Nat
    BY <1>1, <2>3, <2>4, BatchTypes DEF BatchIsNew
  <2> HIDE DEF j
  <2>6. i <= j
    BY <2>1, <2>5
  <2> QED
    BY <1>1, <2>1, <2>2, <2>4, <2>6, LogOrder DEF Sets
<1> QED
  BY <1>3, <1>5

\* With one partition, and as long as nothing is redelivered, no step puts an older
\* version into a column of a row: what a client has read of an answer only grows,
\* through lost writes, discarded batches, failed statements and orderly restarts.
THEOREM ColumnsGrow ==
  ASSUME SinglePartition
  PROVE  Spec => ColumnsNeverGoBack
<1>1. Init => ColumnInv
  <2> SUFFICES ASSUME Init PROVE ColumnInv
    OBVIOUS
  <2>1. TypeInv /\ OnceInv
    BY InitRowInv DEF RowInv
  <2>2. InOrder
    BY DEF Init, InOrder
  <2>3. RowsAreDone /\ PendingIsRead
    BY DEF Init, RowsAreDone, PendingIsRead
  <2> QED
    BY <2>1, <2>2, <2>3 DEF ColumnInv
<1>2. ColumnInv /\ [Next]_vars => ColumnInv'
  BY ColumnSteps
<1>3. ASSUME ColumnInv, [Next]_vars, NEW q \in QA, ~Redelivered, db[q] # None, db'[q] # None,
             NEW c \in Column
      PROVE  db'[q].cols[c] >= db[q].cols[c]
  <2>1. TypeInv
    BY <1>3 DEF ColumnInv
  <2>2. db[q].cols[c] \in Nat
    <3>1. db[q] \in Row
      BY <1>3, <2>1 DEF TypeInv, TypeOK
    <3> QED
      BY <3>1 DEF Row
  <2>3. ASSUME NEW r \in QA, CreateQA(r) \/ UpdateQA(r)
        PROVE  db'[q].cols[c] >= db[q].cols[c]
    <3>1. CASE r # q
      BY <2>1, <2>2, <2>3, <3>1, AppliedColumns
    <3>2. CASE r = q /\ db'[q].cols[c] = db[q].cols[c]
      BY <2>2, <3>2
    <3>3. CASE /\ r = q /\ UpdateQA(q) /\ updates[q].cols[c] # 0
               /\ db'[q].cols[c] = updates[q].cols[c]
      <4>1. db[q].cols[c] <= updates[q].cols[c]
        BY <1>3, <3>3, UpdateGrows
      <4>2. updates[q].cols[c] \in Nat
        <5>1. updates[q] \in Query
          BY <2>1, <3>3 DEF UpdateQA, TypeInv, TypeOK
        <5> QED
          BY <5>1 DEF Query
      <4> QED
        BY <2>2, <3>3, <4>1, <4>2
    <3> QED
      BY <1>3, <2>1, <2>3, <3>1, <3>2, <3>3, AppliedColumns
  <2>4. ASSUME NEW r \in QA, DeleteQA(r) \/ \E v \in Vote : UpdateVote(r, v)
        PROVE  db'[q].cols[c] >= db[q].cols[c]
    BY <1>3, <2>1, <2>2, <2>4, ApiKeepsColumns
  <2>5. CASE UNCHANGED db
    BY <2>2, <2>5
  <2>6. \/ UNCHANGED db
        \/ \E r \in QA : \/ CreateQA(r) \/ UpdateQA(r) \/ DeleteQA(r)
                         \/ \E v \in Vote : UpdateVote(r, v)
    BY <1>3 DEF Next, Backend, Worker, Faulty, Api, WriteEvent, LoseEvent, RetryBatch, Fetch,
         BatchTimeout, FetchError, Merge, WriteError, Commit, CommitError,
         Shutdown, Crash, Rebalance, vars, tableVars
  <2> QED
    BY <2>3, <2>4, <2>5, <2>6
<1>4. ColumnInv /\ [Next]_vars =>
        [\A q \in QA : ~Redelivered /\ db[q] # None /\ db'[q] # None =>
           \A c \in Column : db'[q].cols[c] >= db[q].cols[c]]_vars
  BY <1>3
<1> QED
  BY <1>1, <1>2, <1>4, PTL DEF Spec, ColumnsNeverGoBack
=============================================================================
