--------------------------- MODULE EventConsumer ---------------------------
(***************************************************************************)
(* The event consumer (backend/consumer/event) and the two ends it talks   *)
(* to: the topic kinds-ai-events that the backend's EventLogService writes *)
(* asynchronously, and the table of QA rows that it shares with the        *)
(* backend's REST handlers (votes and deletions).                          *)
(*                                                                         *)
(* The worker reads a batch of messages, converts each into a query,       *)
(* merges the queries of one QA, applies one INSERT or UPDATE per QA in    *)
(* the order of a Go map (any order) and commits the offsets of the batch. *)
(*                                                                         *)
(* An event is a pair [qa, n]: the n-th event the backend writes for qa.   *)
(* What it carries is Script[qa][n]; content is abstracted to a version    *)
(* number, 0 being the zero value that neither mergeQA nor gorm writes.    *)
(***************************************************************************)
EXTENDS Integers, Sequences, FiniteSets

CONSTANTS
  QA,          \* the QA ids
  Partition,   \* the partitions of the topic
  Script,      \* Script[qa]: the events the backend writes for qa, in order
  BatchSize,   \* UPSTAGE_KAFKA_BATCH_SIZE (QueueCapacity of the reader)
  WriterBatchSize, \* BatchSize of the writer (100 in the code)
  FaultKind,   \* the kinds of fault that may happen
  MaxFaults,   \* bound: how many faults happen in a behaviour
  MaxVotes,    \* bound: how many votes are cast in a behaviour
  None         \* no row, no pending query

Column == {"Question", "Answer", "TokenCount", "References", "Keywords",
           "RelatedQueries", "FileReferences"}

Vote == {"none", "up", "down"}

Fault == {"crash", "rebalance", "fetch", "db", "commit", "writeLost", "writeDup"}

\* One event of a script: the column it sets, the version it sets it to, and
\* whether convertEventToQuery accepts it (a reference without an id is not).
ScriptEvent == [column : Column, value : Nat, valid : BOOLEAN]

\* The versions of one column never go back along a script: answers,
\* references, keywords and token counts are accumulated by the backend.
Cumulative(s) ==
  \A i, j \in DOMAIN s :
    i < j /\ s[i].column = s[j].column => s[i].value <= s[j].value

ASSUME ConstantsAssumption ==
  /\ QA # {} /\ Partition # {}
  /\ BatchSize \in Nat \ {0} /\ WriterBatchSize \in Nat \ {0}
  /\ MaxFaults \in Nat /\ MaxVotes \in Nat
  /\ FaultKind \subseteq Fault

\* The first event of every script is the QuestionCreated event, the only one
\* that creates the row; completion.go writes it before anything else.
ASSUME ScriptAssumption ==
  /\ Script \in [QA -> Seq(ScriptEvent)]
  /\ \A q \in QA :
       /\ Script[q] # <<>>
       /\ Cumulative(Script[q])
       /\ \A i \in DOMAIN Script[q] :
            Script[q][i].column = "Question" <=> i = 1
       /\ Script[q][1].valid /\ Script[q][1].value # 0

Query == [create : BOOLEAN, cols : [Column -> Nat]]
Row   == [cols : [Column -> Nat], vote : Vote]

ASSUME NoneAssumption == None \notin Query /\ None \notin Row

VARIABLES
  log,         \* log[p]: the messages of partition p
  sent,        \* sent[q]: how many events of q the backend has written
  position,    \* position[p]: how many messages of p the reader has fetched
  committed,   \* committed[p]: the offset the group has committed
  phase,       \* where the worker is in the body of its loop
  batch,       \* the messages of the current batch, as <<partition, index>>
  merged,      \* how many messages of the batch are merged into updates
  updates,     \* updates[q]: the merged query of q still to be applied
  db,          \* db[q]: the row of q in table qas
  deleted,     \* history: the QAs whose row was deleted through the API
  dropped,     \* history: the QAs of which a query was logged and skipped
  votes,       \* how many votes were cast (bounded by MaxVotes)
  faults       \* history: the faults that happened (bounded by MaxFaults)

backendVars == <<log, sent>>
readerVars  == <<position, committed>>
workerVars  == <<phase, batch, merged, updates>>
tableVars   == <<db, deleted, dropped>>
vars == <<backendVars, readerVars, workerVars, tableVars, votes, faults>>

---------------------------------------------------------------------------
(* Events and queries.                                                     *)

Blank == [c \in Column |-> 0]

Content(e) == Script[e.qa][e.n]

\* convertEventToQuery: one column is set; only QuestionCreated creates.
ConvertEvent(e) ==
  [create |-> Content(e).column = "Question",
   cols   |-> [Blank EXCEPT ![Content(e).column] = Content(e).value]]

\* The columns mergeQA copies. FileReferences is not one of them.
MergedColumn == Column \ {"FileReferences"}

\* Faulty variant: the first value of the batch wins.
MergeQAFirstWins(src, dst) ==
  [c \in Column |-> IF dst[c] # 0 THEN dst[c] ELSE src[c]]

\* mergeQA: a non-zero column of the later query replaces the earlier one's.
MergeQA(src, dst) ==
  [c \in Column |-> IF c \in MergedColumn /\ src[c] # 0 THEN src[c] ELSE dst[c]]

\* mergeQueries, one message: the first query of a QA is kept, a later one is
\* merged into it, and ShouldCreate is the disjunction.
MergeQuery(query, pending) ==
  IF pending = None THEN query
  ELSE [create |-> pending.create \/ query.create,
        cols   |-> MergeQA(query.cols, pending.cols)]

\* Faulty variant: every column is written (gorm's Save).
UpdateRowAll(row, query) == [row EXCEPT !.cols = query.cols]

\* gorm's Updates with a struct: zero columns are left alone, so is the vote.
UpdateRow(row, query) ==
  [row EXCEPT !.cols = [c \in Column |-> IF query.cols[c] # 0
                                         THEN query.cols[c] ELSE row.cols[c]]]

NewRow(query) == [cols |-> query.cols, vote |-> "none"]

Message(m) == log[m[1]][m[2]]

---------------------------------------------------------------------------
Init ==
  /\ log = [p \in Partition |-> <<>>]
  /\ sent = [q \in QA |-> 0]
  /\ position = [p \in Partition |-> 0]
  /\ committed = [p \in Partition |-> 0]
  /\ phase = "reading"
  /\ batch = <<>>
  /\ merged = 0
  /\ updates = [q \in QA |-> None]
  /\ db = [q \in QA |-> None]
  /\ deleted = {}
  /\ dropped = {}
  /\ votes = 0
  /\ faults = <<>>

HasFault(kind) ==
  /\ kind \in FaultKind
  /\ Len(faults) < MaxFaults
  /\ faults' = Append(faults, kind)

Happened(kinds) == \E i \in DOMAIN faults : faults[i] \in kinds

---------------------------------------------------------------------------
(* The backend writes the events of a QA in order. The writer balances by  *)
(* bytes and ignores the message key, so any partition may be chosen. It   *)
(* is asynchronous: what it gathers in BatchTimeout is sent as one batch,  *)
(* up to three times, and one that fails in the end is only logged. Each   *)
(* partition has its batches written one after the other.                  *)

NextEvent(q) == [qa |-> q, n |-> sent[q] + 1]

WriteEvent(q, p) ==
  /\ sent[q] < Len(Script[q])
  /\ sent' = [sent EXCEPT ![q] = @ + 1]
  /\ log' = [log EXCEPT ![p] = Append(@, NextEvent(q))]
  /\ UNCHANGED <<readerVars, workerVars, tableVars, votes, faults>>

LoseEvent(q) ==
  /\ HasFault("writeLost")
  /\ sent[q] < Len(Script[q])
  /\ sent' = [sent EXCEPT ![q] = @ + 1]
  /\ UNCHANGED <<log, readerVars, workerVars, tableVars, votes>>

\* The acknowledgement of a batch, the last messages of the partition, is lost:
\* all of it is written, and stored, once more.
RetryBatch(p) ==
  /\ HasFault("writeDup")
  /\ \E n \in 1 .. Len(log[p]) :
       /\ n <= WriterBatchSize
       /\ log' = [log EXCEPT ![p] = @ \o SubSeq(@, Len(@) - n + 1, Len(@))]
  /\ UNCHANGED <<sent, readerVars, workerVars, tableVars, votes>>

---------------------------------------------------------------------------
(* readBatchMessages.                                                      *)

\* FetchMessage returns the next message of some partition.
Fetch(p) ==
  /\ phase = "reading"
  /\ position[p] < Len(log[p])
  /\ position' = [position EXCEPT ![p] = @ + 1]
  /\ batch' = Append(batch, <<p, position[p] + 1>>)
  /\ phase' = IF Len(batch') = BatchSize THEN "merging" ELSE phase
  /\ UNCHANGED <<backendVars, committed, merged, updates, tableVars, votes, faults>>

\* The timer fires. With an empty batch the worker's loop just starts again.
BatchTimeout ==
  /\ phase = "reading"
  /\ batch # <<>>
  /\ phase' = "merging"
  /\ UNCHANGED <<backendVars, readerVars, batch, merged, updates, tableVars, votes, faults>>

\* FetchMessage fails with anything but DeadlineExceeded: the messages of the
\* batch read so far are discarded and the worker's loop continues, with the
\* reader already past them.
FetchError ==
  /\ HasFault("fetch")
  /\ phase = "reading"
  /\ batch' = <<>>
  /\ UNCHANGED <<backendVars, readerVars, phase, merged, updates, tableVars, votes>>

---------------------------------------------------------------------------
(* Conversion, merge, database writes and commit.                          *)

\* One message of the batch; one that cannot be converted is only counted.
Merge ==
  /\ phase = "merging"
  /\ merged < Len(batch)
  /\ merged' = merged + 1
  /\ LET e == Message(batch[merged + 1])
     IN  updates' = IF Content(e).valid
                    THEN [updates EXCEPT ![e.qa] = MergeQuery(ConvertEvent(e), @)]
                    ELSE updates
  /\ phase' = IF merged' = Len(batch) THEN "applying" ELSE phase
  /\ UNCHANGED <<backendVars, readerVars, batch, tableVars, votes, faults>>

\* Faulty variant: the row is replaced if there is one (UpsertQA).
CreateOrReplaceQA(q) ==
  /\ phase = "applying"
  /\ updates[q] # None
  /\ updates[q].create
  /\ updates' = [updates EXCEPT ![q] = None]
  /\ db' = [db EXCEPT ![q] = NewRow(updates[q])]
  /\ UNCHANGED <<backendVars, readerVars, phase, batch, merged, deleted, dropped, votes, faults>>

\* CreateQA is a plain INSERT: on an existing row it fails, the query is
\* logged and skipped.
CreateQA(q) ==
  /\ phase = "applying"
  /\ updates[q] # None
  /\ updates[q].create
  /\ updates' = [updates EXCEPT ![q] = None]
  /\ IF db[q] = None
     THEN db' = [db EXCEPT ![q] = NewRow(updates[q])] /\ UNCHANGED dropped
     ELSE dropped' = dropped \union {q} /\ UNCHANGED db
  /\ UNCHANGED <<backendVars, readerVars, phase, batch, merged, deleted, votes, faults>>

\* Faulty variant: a missing row is created (UpsertQA).
UpdateOrInsertQA(q) ==
  /\ phase = "applying"
  /\ updates[q] # None
  /\ ~updates[q].create
  /\ updates' = [updates EXCEPT ![q] = None]
  /\ db' = [db EXCEPT ![q] = IF @ = None THEN NewRow(updates[q])
                             ELSE UpdateRow(@, updates[q])]
  /\ UNCHANGED <<backendVars, readerVars, phase, batch, merged, deleted, dropped, votes, faults>>

\* UpdateQA on a missing row changes no row and reports no error.
UpdateQA(q) ==
  /\ phase = "applying"
  /\ updates[q] # None
  /\ ~updates[q].create
  /\ updates' = [updates EXCEPT ![q] = None]
  /\ db' = IF db[q] = None THEN db
           ELSE [db EXCEPT ![q] = UpdateRow(@, updates[q])]
  /\ UNCHANGED <<backendVars, readerVars, phase, batch, merged, deleted, dropped, votes, faults>>

\* Either statement fails in the database: logged and skipped.
WriteError(q) ==
  /\ HasFault("db")
  /\ phase = "applying"
  /\ updates[q] # None
  /\ updates' = [updates EXCEPT ![q] = None]
  /\ dropped' = dropped \union {q}
  /\ UNCHANGED <<backendVars, readerVars, phase, batch, merged, db, deleted, votes>>

\* CommitMessages: per partition, the highest offset of the batch's messages.
CommitOffset(p) ==
  LET read == {batch[i][2] : i \in {j \in DOMAIN batch : batch[j][1] = p}}
  IN  IF read = {} THEN committed[p]
      ELSE CHOOSE k \in read : \A j \in read : j <= k

\* Faulty variant: the merge does not start again at the first message.
EndBatchKeepsMerged ==
  /\ phase' = "reading"
  /\ batch' = <<>>
  /\ UNCHANGED merged

EndBatch ==
  /\ phase' = "reading"
  /\ batch' = <<>>
  /\ merged' = 0

AllApplied == phase = "applying" /\ \A q \in QA : updates[q] = None

Commit ==
  /\ AllApplied
  /\ committed' = [p \in Partition |-> CommitOffset(p)]
  /\ EndBatch
  /\ UNCHANGED <<backendVars, position, updates, tableVars, votes, faults>>

\* The commit fails: logged, the loop goes on with the next messages.
CommitError ==
  /\ HasFault("commit")
  /\ AllApplied
  /\ EndBatch
  /\ UNCHANGED <<backendVars, readerVars, updates, tableVars, votes>>

---------------------------------------------------------------------------
(* Restarts. The reader of a group starts from the committed offsets.      *)

\* Faulty variant: the reader starts from the beginning of the topic.
ShutdownFromStart ==
  /\ phase = "reading"
  /\ batch = <<>>
  /\ position' = [p \in Partition |-> 0]
  /\ UNCHANGED <<backendVars, committed, workerVars, tableVars, votes, faults>>

\* SIGINT or SIGTERM, looked at only between two batches: the reader is
\* closed and the process ends; it is started again.
Shutdown ==
  /\ phase = "reading"
  /\ batch = <<>>
  /\ position' = committed
  /\ UNCHANGED <<backendVars, committed, workerVars, tableVars, votes, faults>>

\* Faulty variant: the reader goes on behind the batch that was lost.
CrashKeepsPosition ==
  /\ HasFault("crash")
  /\ EndBatch
  /\ updates' = [q \in QA |-> None]
  /\ UNCHANGED <<backendVars, readerVars, tableVars, votes>>

\* The process dies anywhere and is started again.
Crash ==
  /\ HasFault("crash")
  /\ position' = committed
  /\ EndBatch
  /\ updates' = [q \in QA |-> None]
  /\ UNCHANGED <<backendVars, committed, tableVars, votes>>

\* The group rebalances: the reader goes back to the committed offsets while
\* the worker still holds the batch it is working on.
Rebalance ==
  /\ HasFault("rebalance")
  /\ position' = committed
  /\ UNCHANGED <<backendVars, committed, workerVars, tableVars, votes>>

---------------------------------------------------------------------------
(* The backend's REST handlers on the same table.                          *)

DeleteQA(q) ==
  /\ db[q] # None
  /\ db' = [db EXCEPT ![q] = None]
  /\ deleted' = deleted \union {q}
  /\ UNCHANGED <<backendVars, readerVars, workerVars, dropped, votes, faults>>

\* UpvoteQA, DownvoteQA, DeleteVote: an UPDATE, without effect on no row.
UpdateVote(q, v) ==
  /\ votes < MaxVotes
  /\ votes' = votes + 1
  /\ db' = IF db[q] = None THEN db ELSE [db EXCEPT ![q].vote = v]
  /\ UNCHANGED <<backendVars, readerVars, workerVars, deleted, dropped, faults>>

---------------------------------------------------------------------------
Backend == \E q \in QA, p \in Partition : WriteEvent(q, p)

Worker ==
  \/ \E p \in Partition : Fetch(p)
  \/ BatchTimeout
  \/ Merge
  \/ \E q \in QA : CreateQA(q) \/ UpdateQA(q)
  \/ Commit

Faulty ==
  \/ \E q \in QA : LoseEvent(q) \/ WriteError(q)
  \/ \E p \in Partition : RetryBatch(p)
  \/ FetchError \/ CommitError \/ Crash \/ Rebalance

Api == \E q \in QA : DeleteQA(q) \/ \E v \in Vote : UpdateVote(q, v)

Next == Backend \/ Worker \/ Faulty \/ Shutdown \/ Api

Spec == Init /\ [][Next]_vars

\* The worker loops for ever and the backend finishes its answers.
FairSpec == Spec /\ WF_vars(Backend) /\ WF_vars(Worker)
---------------------------------------------------------------------------
(* Properties.                                                             *)

MessageSet == [qa : QA, n : Nat \ {0}]

\* The types of the variables.
TypeOK ==
  /\ log \in [Partition -> Seq(MessageSet)]
  /\ sent \in [QA -> Nat]
  /\ position \in [Partition -> Nat]
  /\ committed \in [Partition -> Nat]
  /\ phase \in {"reading", "merging", "applying"}
  /\ batch \in Seq(Partition \X (Nat \ {0}))
  /\ merged \in 0 .. Len(batch)
  /\ updates \in [QA -> Query \union {None}]
  /\ db \in [QA -> Row \union {None}]
  /\ deleted \subseteq QA
  /\ dropped \subseteq QA
  /\ votes \in 0 .. MaxVotes
  /\ faults \in Seq(FaultKind)
  /\ Len(faults) <= MaxFaults

\* Offsets, messages and batches stay within what was written, every message
\* carries an event of its QA's script, and no query survives its batch.
InBounds ==
  /\ \A q \in QA : sent[q] <= Len(Script[q])
  /\ \A p \in Partition :
       /\ position[p] <= Len(log[p])
       /\ committed[p] <= Len(log[p])
       /\ \A i \in DOMAIN log[p] : log[p][i].n <= sent[log[p][i].qa]
  /\ \A i \in DOMAIN batch : batch[i][2] <= Len(log[batch[i][1]])
  /\ phase = "reading" => merged = 0 /\ \A q \in QA : updates[q] = None
  /\ phase = "merging" => merged < Len(batch)
  /\ phase = "applying" => merged = Len(batch)

\* The row holds what the event says, or a later version of it.
InRow(e) ==
  /\ db[e.qa] # None
  /\ db[e.qa].cols[Content(e).column] >= Content(e).value

Registered(e) == Content(e).valid /\ e.qa \notin deleted => InRow(e)

Accounted(e) == e.qa \notin dropped => Registered(e)

\* The messages with which the group is done, and those it is still to be given.
Delivered   == UNION {{log[p][i] : i \in 1 .. committed[p]} : p \in Partition}
Undelivered == UNION {{log[p][i] : i \in committed[p] + 1 .. Len(log[p])} : p \in Partition}

\* The events of which every copy is behind the committed offset.
CommittedEvents == Delivered \ Undelivered

\* "The consumer collects the events and registers them properly in the
\* database" (backend/consumer/event/README.md:3): once the group's offset is
\* past an event, nothing will deliver it again, so it is in the QA's row.
CommittedEventsRegistered == \A e \in CommittedEvents : Registered(e)

\* While no message was lost and the group did not rebalance, the only committed
\* events missing from a row are those of a QA for which a statement failed and
\* its query was skipped (the two continues of Run). Restarts, failed commits and
\* failed statements lose nothing else, and a batch that the writer stored twice
\* puts an old version back into a row only as long as a copy of the newer one is
\* still to be read, wherever the worker's own batches end.
CommittedEventsAccounted ==
  ~Happened({"fetch", "writeLost", "rebalance"}) =>
    \A e \in CommittedEvents : Accounted(e)

\* While nothing fails no query is skipped: however batches cut the scripts and
\* the worker is stopped and started, no QA is created twice. So without faults
\* CommittedEventsAccounted says that what is committed is registered.
SkippedOnlyAfterFault == dropped # {} => faults # <<>>

\* The faults after which a message may be read or stored a second time.
Redelivered == Happened({"crash", "rebalance", "commit", "writeDup"})

\* A row belongs to its QA: it was created by that QA's QuestionCreated, and
\* every column holds a version some event of that QA and column carries; one that
\* was deleted through the API is back only after something was redelivered, though
\* later events of the QA are still applied. It holds under every fault and every
\* order of the partitions.
RowsComeFromTheirEvents ==
  \A q \in QA : db[q] # None =>
    /\ q \in deleted => Redelivered
    /\ db[q].cols["Question"] # 0
    /\ \A c \in Column : db[q].cols[c] # 0 =>
         \E p \in Partition : \E i \in DOMAIN log[p] :
           /\ log[p][i].qa = q
           /\ Content(log[p][i]).valid
           /\ Content(log[p][i]).column = c
           /\ Content(log[p][i]).value = db[q].cols[c]

\* The worker never undoes a vote given through the API, whatever is
\* redelivered: the events it applies carry no vote.
VotesSurviveEvents ==
  [][\A q \in QA : db[q] # None /\ db'[q] # None /\ votes' = votes
       => db'[q].vote = db[q].vote]_vars

\* What a client reads of an answer never gets shorter, and references,
\* keywords and token counts never go back, while nothing is redelivered and
\* the topic keeps the order of the events (one partition).
ColumnsNeverGoBack ==
  [][\A q \in QA : ~Redelivered /\ db[q] # None /\ db'[q] # None =>
       \A c \in Column : db'[q].cols[c] >= db[q].cols[c]]_vars

EventsOf(q) == {[qa |-> q, n |-> i] : i \in DOMAIN Script[q]}

\* A lost message is lost. A rebalance lets the worker commit an offset and be
\* given earlier messages again; another fault before it has worked through
\* them can leave an old version in the row behind the committed offset.
Repairable ==
  /\ ~Happened({"fetch", "writeLost"})
  /\ Happened({"rebalance"}) => Len(faults) = 1

\* Every event of every answer of which no query was skipped ends up in its
\* row, across restarts, failed commits or a rebalance: redelivery repairs what
\* it undoes.
AnswersEventuallyAccounted ==
  \A q \in QA : <>[](Repairable => \A e \in EventsOf(q) : Accounted(e))
=============================================================================
