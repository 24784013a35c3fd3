# Verification of BigKinds AI

TLA+ models of the parts of BigKinds AI in which goroutines, streams, Kafka and
a database meet, TLC runs over small instances of them, and TLAPS proofs of what
matters most for every instance. Paths below are relative to the root of the
repository.

- [The system](#the-system)
- [Modules](#modules): what models what
- [Runs](#runs): what is checked, with which bounds
- [Fairness](#fairness)
- [Proofs](#proofs)
- [What the code does otherwise](#what-the-code-does-otherwise)
- [Not modelled](#not-modelled)
- [Plan](#plan)

## The system

A browser asks a question of the **backend**, which relays it to the
**conversation engine**, which lets an LLM call the **search service**; the
answer streams back as server-sent events. What the backend sees of the answer
it also writes as events to the Kafka topic `kinds-ai-events`; the **event
consumer** makes one row of table `qas` out of them. The other REST handlers of
the backend list, change and count the rows of its tables, or ask the engine for
summaries.

    browser --> backend --SSE--> conversation engine --> LLM
                 | |  |                 |
                 | |  | events          +--> search service --> OpenSearch, embeddings
                 | |  v
                 | | Kafka --> event consumer --> qas
                 | +--> chats, qas, uploads, files (MySQL) <--+
                 +----> conversation engine (topics, summaries)

| Component | State | Operations | Interacts by | What makes it correct |
|---|---|---|---|---|
| Event consumer `backend/consumer/event` | reader position, batch, merged queries | read a batch, convert, merge, INSERT/UPDATE, commit | topic, `qas` | every committed event is in its row; redelivery does no harm; rows are made of their own events |
| Event log `backend/service/eventlog.go`, `backend/main.go` | none | WriteEvent (asynchronous) | topic | the events of a QA are a script: question first, no column goes back |
| QA table and API `backend/{handler,service,repository}/qa.go` | `qas` | votes, deletion, lists, pages, counts | shares `qas` with the consumer | votes survive events; deleted QAs stay deleted; pages miss nothing and agree with their total |
| Chats `backend/{handler,service,repository}/chat.go` | `chats` | create, list, rename, delete, login | MySQL; `qas` of a chat | a list is that of one moment; a success is true |
| Files `backend/{handler,service,repository}/file.go` | `uploads`, `files`, rows of `qas` | upload, convert, ask | parser and embeddings over HTTP, MySQL | an upload is seen whole; a success is true |
| Statistics `backend/{handler,service}/statistics.go` | none | counts per day or month | reads `qas` | counts are of their labels and add up |
| Completion relay `backend/service/completion.go`, `backend/handler/completion.go` | channel, stream, accumulated answer, history | read the history, create, receive, record, relay, close | channel and context between handler and goroutine; SSE to the engine | the history is in order; the handler returns; the goroutine ends; what was received is stored; the stream ends as it should |
| Conversation engine `conversation/service/completion.go` | model index, attempts, channel, wait group | choose a model, stream, call a function, keywords, close | channel, wait group, context; LLM and search | attempts follow the list; no send after close; keywords before Done; an answer comes |
| File and multi-turn engine `conversation/{service,handler}/completion_{file,multi}.go` | channel, stream, response | choose a function, stream, call search, keywords, relay | channel and context; HTTP with the backend; solar-pro and search | a complete answer is whole; the backend's request ends; nothing stays behind it |
| Keywords `conversation/service/keywords_related_queries.go` | attempts | ask the LLM up to three times | a goroutine of the engine, one message | one message whatever happens, of one reply |
| Search function `conversation/service/function/search.go` | merged articles | date windows, MSearch, merge of chunks | HTTP to search | the windows miss nothing; the references are what was asked for |
| Topics, summaries `conversation/service/{topic,summary}.go`, news and issues of the backend | none | ask the LLM, search, summarise | HTTP from the backend, LLM, search | a summary is of the news it lists; a request ends |
| Search service `search/service/search.go` | goroutines, error channel, context, result list | search concurrently, rerank, collect, aggregate | error channel, mutex, context; OpenSearch | complete or an error; the error is the right one; an answer comes; a hit is what was asked for |
| Configuration of search `search/main.go`, `search/repository`, `proto/*.validate.go` | two files | decode, validate | read by the search service | what passes the validation serves |
| Searcher `search/service/searcher` | none | a request into a query | OpenSearch | every filter is kept |
| Rerankers, aggregators `search/service/{reranker,aggregator}` | scores | embed, score, sort, cut; rank fusion | HTTP | scores are those of the items; reciprocal rank fusion of the lists |
| API keys, guides, tutorials, recommendations, token counter, servers, logging | little or none | single statements, static answers | HTTP, MySQL | sequential code |

The hard behaviours are these: a batch that is applied and not committed, or
read and lost; events that are delivered again in other batches; two writers of
one row; goroutines that send to a channel nobody reads any more; results that
are appended in completion order; a cancelled context that races with an error;
streams that end without `[DONE]`; retries that keep, or forget, state of the
attempt before; pages, lists and counts that are read by several statements of no transaction; handlers that
write an error and go on; configurations that lack what no rule requires; two
windows of time whose boundary moves between two searches. `PROJECT.json` lists
them as `hazards`, each at its line, with the properties that cover it.

## Modules

    Completions                     Search and summaries              Tables
      AnswerStream (abstract)         Gathering (abstract)              EventConsumer
        ^ CompletionRelay               ^ MSearch                       Statistics
        ^ ConversationEngine          RankFusion                          < BackendTables
        ^ SolarCompletion             SearchConfig < OpenSearchQuery        < BackendApi
                                        < SearchService
                                      SearchService, Keywords
                                        < ArticleSearch < Summaries

    ^ implements (INSTANCE ... WITH and a PROPERTY)      < is extended by

### EventConsumer

The consumer's loop, the topic it reads, the backend that writes to it, and the
REST handlers that write to the same table.

| Model | Code |
|---|---|
| `log`, `sent`, `WriteEvent`, `LoseEvent`, `RetryBatch` | `EventLogService.WriteEvent` and the asynchronous writer of `backend/main.go`: any partition (the balancer is LeastBytes), failed writes only logged, a batch whose acknowledgement is late written again, so that the last messages of a partition are there twice, in their order |
| `position`, `committed`, `Fetch`, `BatchTimeout`, `FetchError` | `readBatchMessages`; a full batch or the timer ends it, an error discards it |
| `Merge` | conversion and `mergeQueries`, message by message |
| `CreateQA`, `UpdateQA`, `WriteError` | the loop over the map of queries, in any order; a failure is skipped (`dropped` remembers it) |
| `Commit`, `CommitError` | `CommitMessages` |
| `Shutdown`, `Crash`, `Rebalance` | the reader starts again at the committed offsets; on a rebalance the worker still holds its batch |
| `DeleteQA`, `UpdateVote` | the REST handlers |

An event is a pair of a QA and a number; `Script` says which column it sets to
which version. A version is a natural number that stands for the content; 0 is
the zero value that neither `mergeQA` nor gorm writes. `deleted` and `dropped` are
history variables. A batch that is stored twice makes a log such as 1, 2, 1, 2, in which the
second 1 takes the row back until the second 2 is read. So an event counts as committed when
every copy of it is behind the committed offset (`CommittedEvents`): a copy of it that is
still to be read will set the column again. That scripts start with the question and never go back is an
assumption here (`ScriptAssumption`), and property `StoredAsReceived` of
CompletionRelay.

### CompletionRelay

One completion request of the backend: handler and goroutine, the channel between
them, the context, the stream from the engine, and the events. It covers the v1,
multi-turn and file requests, which differ in the file references sent first and in
the events recorded. A chunk is the set of parts it carries; accumulated content is
the number of chunks that carried the part, so that an event has the shape that
EventConsumer expects. `Take` and `Write` are two steps because the `Delta` of the first
message is the object into which the stream merges later chunks: the handler may
marshal more text than was there when the message was sent, and, as nothing locks
it, a torn one (`Torn`).

`WriteEvent` may return an error for any event, with a live context (no metadata of the topic, too
large a message) or a cancelled one, and the goroutine ignores it: `WriteEvents` accepts any of the
columns that are due (`Due`), and the history variable `refused` has those whose last event
was refused. What the asynchronous writer loses or repeats after it took an event is EventConsumer's.
`Waiting` is where the goroutine waits for the engine without a timeout: the response header has
one, the body, that of an error status included, has not.

### ConversationEngine

One request of the engine. `Choose` is the outer loop over attempts (`modelIndex`,
`fallbackCount`, `keyIndex`, `loopError` as in the code), `Stream` the two inner loops,
`CallSucceeds` and `CallFails` a function call, `GenerateKeywords` and `SendKeywords` the
keywords goroutine, `SendDone` and `Close` the explicit and the deferred wait. A
send is a step of its own: whoever has something in `pending` waits for room in the
channel. `sendKeywords` is the flag of the same purpose in the code, which, like the
wait group, belongs to one attempt; `searched` says whether the LLM chose `search`, the only
function whose `Call` does not always return an error. LLMs, search service and client are
nondeterministic: `FaultKind` says which faults an LLM may show. `panicked` stands for the end
of the process. What a search returns is ArticleSearch, what keywords are is Keywords.

### SolarCompletion

One request of the engine's other two endpoints, `/chat/completions/file` and
`/chat/completions/multi`, from the backend's POST to the end of both programs. They ask
solar-pro only, with no fallback; what differs is who ends what, so the model has both ends of the connection.

| Model | Code |
|---|---|
| `StartGoroutine`, `ChoiceFails`, `ChoiceIsEmpty` | `CreateChatCompletionMultiPrompt` up to its goroutine: the choice of a function is one call before there is a channel, and its failure leaves the handler with a nil one; a file needs no choice |
| `Take`, `Written`, `WriteLines`, `HandlerStops` | the handlers' select; the completion of an error or of Done is nil and becomes a line `null` |
| `CallSearch` ... `Close` | the goroutines; the one for a file does not close its channel |
| `ReceiveStatus`, `Drain`, `ReceiveLine`, ... | `request.CreateChatStream` and `SSEStream.Recv` of the backend; `PostFails` is its `ResponseHeaderTimeout` of 20 seconds |
| `Terminate` | `server.ListenAndServeGracefully`: a request that outlasts the grace period ends with the process |
| `NoticeGone` | net/http cancels the context when the connection is closed |

The backend's own goroutine, channel and events are CompletionRelay, where the engine is
the environment; here `Leave` stands for whatever ends it from outside. `status` and `sent` are apart because an error
written by `WriteJsonErrorResponse` stays in the handler's buffer until the handler returns.

### MSearch

One MSearch request: a goroutine per sub-request, the error channel of capacity 1,
the cancelled context, the select after `wg.Wait` with its random choice, and the
aggregation. A list of articles is the set of sub-requests whose lists it was made
of; what is in a list, and the reranker inside a search, are SearchService; the fusion is RankFusion.

### RankFusion

`RRF.Aggregate`, one step per candidate. Scores are integers in units of
1/((60+1)...(60+MaxLen)), so that they compare exactly (float32 does not distinguish
sums in another order by more than rounding, which is left out). The walk of the
map is every order.

### SearchConfig, OpenSearchQuery, SearchService

What a search request returns, sequentially, where MSearch has the concurrency.

| Model | Code |
|---|---|
| `SearchConfig`: `ValidSearchConfig`, `ValidSearcherConfig` and the rules they are made of | the `validate` methods of the two configuration messages, and what decoding makes of a file; a rule looks into a part only if it is set |
| `OpenSearchQuery`: `Translate` and the clauses | `opensearch.go` and `query_strategy/*`: a request and a strategy into a query, an error or a panic; range filters join one must clause |
| `OpenSearchQuery`: `Eligible`, `InRange`, `Satisfies` | OpenSearch (external): which articles a query may return at a time, `now-3M` being of that time |
| `SearchService`: `Start`, `Receive`, `SearchOne`, `Rerank`, `Aggregate`, ... | `search/main.go`, `Search`, `MSearch`, the embeddings and scores of `reranker/upstage.go`, `e5.go`, and the two aggregators |

Sub-requests are searched in any order, and time may pass between two of them. An article is a record of the fields that a
query can tell apart. The scores of OpenSearch are not modelled: a list is any choice of eligible articles.
The outcome of every external call, the shape of the embeddings included, is nondeterministic.

### ArticleSearch, Keywords

`ArticleSearch` is the search function of the engine, against SearchService: the arguments that an LLM
chose (`question`), the two date windows or the one range of them, the request for MSearch, and `MergeChunk`, which makes
references of the items. `Keywords` is the goroutine for keywords and related queries: `Attempt` has one disjunct for each way
a reply can be bad, in the order in which the code looks. Other clients of the search service send what they like (`ClientRequests`).

### Summaries

The topics and summaries of news: the backend's handler and its client with a timeout of the headers, the engine's handlers,
the LLM before and after, and the search function in between. `written` is the list of statuses a handler writes, as
`middleware.go` sees them: the first is the one that is sent.

### Statistics, BackendTables, BackendApi

`BackendTables` has the tables and one operator per statement of the repositories, with the order that MySQL may give to rows of
one second and with the clock of the process that wrote a row: the consumer opens the database with `loc=Asia/Seoul`
(`consumer/event/db.go:27`) and the backend with no `loc`, which is UTC (`internal/db/mysql.go:9`), so what they write is nine hours apart (`Zone`). `Statistics` has the operators of `service/statistics.go`
over labels, days and months, of years that have 365 days. `BackendApi` has the handlers: a request of 17 operations (`Requests`) takes one step per statement or external
call, any statement may fail (`MaxFaults`), and requests are served concurrently in `Slot`s. `calls[s]` is the state of a request,
`start` in it a history variable: the rows there were when it began.

| Model | Code |
|---|---|
| `CreateChat`, `ListOfChats`, `ListUserChats`, `UpdateChatTitle`, `Delete`, `Move` (a login) | `handler/chat.go`, `service/chat.go`, `repository/chat.go` |
| `ListOfQAs`, `Count` and `ListPage`, `DeleteRows` | `handler/qa.go`, `service/qa.go`, `repository/qa.go` |
| `ParseFile`, `WriteUploadFiles`, `WriteUploadQA`, `Convert` and `Poll` | the uploads of `handler/file.go`, `service/file.go`, `repository/file.go` |
| `FindUpload`, `FindFiles`, `Embed` | a question to the files of a chat, up to its event |
| `History`, `ChatHistory`, `Record` | `handler/completion.go`, `service/completion.go` up to the event of the question |
| `Statistic` | `handler/statistics.go` |
| `Consume`, `Tick` | the consumer and time, as the handlers see them |

### Abstract specifications

`AnswerStream`: text is delivered in the order in which it was received, and an answer ends once, well only if its source ended
well and all text was delivered. CompletionRelay, ConversationEngine and SolarCompletion each map their state to it (`Promised`), with
two switches: a hop may start again (`Restarts`, the engine's fallback), and an error may overtake text (`Orderly` is FALSE).
`Gathering`: MSearch gathers each list once and answers once, with all of them or with an error; the mapping is in MSearch (`Promised`).

### MC modules

`MCEventConsumer`, `MCCompletionRelay`, `MCConversationEngine`, `MCMSearch`, `MCRankFusion`, `MCArticleSearch` and `MCBackendApi`
define the instances: scripts, chunks, lists of models, an index, configuration files, requests, tables, symmetry.
SolarCompletion needs none.

Operators that a comment calls a faulty variant are bugs the code might have
had. No specification uses them; each shows that a property notices.

## Runs

Every passing run lists its properties in its `.cfg`. States are distinct states.

| Run | Question | Bounds |
|---|---|---|
| `ec_redelivery` | Under crashes, rebalances, failed commits, failed statements and retried batches: is a committed event missing only if a query was skipped, is a query skipped only after a fault, do columns go back only after a redelivery, and does redelivery repair the rest? | two QAs of three events each, one of them not convertible; batches of two, so that scripts are cut and mixed, and retries of up to two messages (`WriterBatchSize`), so that a new version is followed by an old one; one partition; two faults of any of the five kinds (also none: then this is the claim that everything is registered) |
| `ec_anyfault` | What holds under every fault and several partitions: whose are the columns of a row, who brings back a deleted row, do votes stay? | two partitions, two faults of all seven kinds, one vote (about 2 million states) |
| `ms_answers` | Is an answer whole, does a cancellation have a cause, is there an answer, and is all that an implementation of Gathering? | three sub-requests, one may fail, caller may leave, every aggregation |
| `rf_two` | Is the result reciprocal rank fusion, and does it respect what the lists agree on? | every pair of lists of up to three of four articles, sizes 0 to 3 |
| `cr_answer` | Are the events a script, is what was received stored, can the client tell how the answer ended, does the request end? | four chunks of two kinds, channel of one, so that it fills; with a live context the last event of one column at a time may be refused (`MaxRefused`), with a cancelled one those of any (about 1,400,000 states) |
| `ce_answers` | Do attempts, channel and keywords behave, and is there an answer unless a stream breaks or the search service never answers? | openai (two attempts) then upstage, or openai then azure; all faults, two chunks of text per stream, channel of one |
| `sc_answers` | Is what the backend takes for complete whole, does its request end, and does anything stay behind? | three chunks, every fault, channel of two, so that an abandoned goroutine fills it |
| `as_references` | Does a service that validated its files serve, is every hit what was asked for, are the references of the search function all there is and nothing else, do keywords and summaries come and belong to what they are given for? | each of the two files in all its forms beside the deployed form of the other (28 pairs), an index of five articles at both sides of both boundaries, two sub-requests, one tick of the clock, 11 calls of the function, 9 requests of other clients, 3 calls of a topic (about 900,000 states) |
| `ba_requests` | Are lists, histories and pages those of one moment, is an upload seen whole, is a success true, do statistics add up, does every request end? | two concurrent requests of 32 kinds, two initial tables (with deleted rows, rows of one second and a row the consumer has yet to insert), one failure, one end of a month (about 700,000 states) |

The bounds are the smallest at which the interesting cases happen: a batch that
cuts a script, a fault while another one is being repaired, a second failing search,
a full channel, a retry after text was sent, an attempt after a search, a row between a count and its page, an article that
crosses the boundary of the windows between two searches, a third request being no different from a second one. A channel of
capacity 1 or 2 in place of 10 or 20 fills sooner; nothing else depends on the capacity.
CHECK_DEADLOCK FALSE stands where a request ends, or blocks for ever, as the
code does.

A property with a conjunction of two parts, such as `AnswerIsWhole`, is one question with two sides; the parts are named and
stated on their own in the modules.

The runs named in [What the code does otherwise](#what-the-code-does-otherwise) each
end in a counterexample.

## Fairness

- EventConsumer: weak fairness of the worker's loop and of the backend's finishing
  its answers. The worker polls for ever (`Worker.Run`). Faults, deletions, votes and
  shutdowns are never forced; their number, not their absence, is bounded.
- MSearch: weak fairness of each goroutine, of the select and of the aggregation: OpenSearch
  answers every search or the context ends it. The caller need not leave.
- CompletionRelay: weak fairness of the handler and of the goroutine's own steps (`Work`), and of the end of its waits
  for the engine once the context is cancelled, as the request carries it (`Cancel`). Of the engine nothing
  is assumed: it may never send a header, a line or the end of an error's body. While the client stays, the goroutine and the handler then wait
  for ever, which `RelayExitsUnlessAbandoned` excepts (`Waiting`). That the header is timed out after 20 seconds is not
  needed. The handler's step includes its write to the client, who reads or leaves.
- SolarCompletion: weak fairness of handler, goroutine and relay. The relay's includes the timeout of a status that does
  not come; the goroutine's, that an LLM answers (its header is timed out after 30 seconds) and, if its stream is not broken, sends [DONE] at last.
  The call of search is not forced to return (`Work`), as it has no timeout and MSearch may never answer; a cancelled context ends it.
  `RequestIsReleased` excepts a call that is never answered (`Unanswered`). `BreakStream`, `Terminate` and `Leave` are never forced.
- ConversationEngine: weak fairness of the three goroutines, and strong fairness of
  the end of a stream that is not broken: an LLM does not send lines for ever. Without it a
  stream of endless malformed lines would be a counterexample to any liveness. The call of a function is not
  forced to return while the context is live; `AnswersUnlessBroken` excepts one that never does.
- Summaries: weak fairness of the engine's handler and of the backend, whose timeout ends a request that is not answered; that an LLM replies or is timed out.
  Of the search service nothing is assumed: it may crash, or wait for ever on the errors of two searches, so what
  ends a request is the context that the backend's timeout cancels. Keywords: weak fairness of the goroutine, whose calls of the LLM return.
- BackendApi: weak fairness of each request that is served: MySQL, the parser and the embeddings answer. That a conversion
  succeeds is not assumed.

## Proofs

Eight modules, whose names end in `_proofs`, hold the
theorems; TLAPS checks all of them, for every value of the constants allowed by the
named assumptions.

**EventConsumer** (`EventConsumer_proofs`). `TypeCorrect` and `OffsetsInBounds` rest on one inductive invariant,
`TypeInv`, types together with bounds: a type alone is not inductive, as
`Content(Message(batch[i]))` exists only while batches stay within logs and logs within scripts.
`CommittedAccounted` states, for any number of QAs, any scripts, any batch sizes of worker and writer and any number
of faults, batches stored twice among them, that as long as no message was lost and no rebalance happened an event every copy of which is committed is in its row
unless a query of its QA was skipped or the QA deleted. Its other assumptions are those
under which the code keeps this promise: one partition, and no file references (which
`mergeQA` loses). The argument: the batch is a window of the log right above
what is accounted for (`InvWindow`); an event of the log below the window is accounted
for; a message of the window that is merged is either in the pending query of its QA, with at least
its version, or already applied (`InvMerged`). Scripts are cumulative, but the log is not quite in their
order, as a retried batch repeats old versions behind new ones. What holds of it is that an event which an older
one follows is there once more behind that (`InvOrdered`): what is stored again is an end of the log. So
each part of the invariant speaks of an event or of a later copy of it (`Again`), and an older version that is
merged or written over a newer one does no harm to what is committed: a copy of the newer one
is still ahead, in the same batch or not yet read, and while it is, the event is not among
those every copy of which is committed.

Three more theorems need no such assumption: any number of partitions, and all seven kinds of fault. `RowsComeFromTheirEventsHolds` says whose the columns of a row
are, and who may bring back a row that was deleted. The first is not inductive, as a row is made of queries and queries of messages (`TracedInv` follows each column back to the
log, which only grows, with `From`). The second, and `SkippedOnlyAfterFaultHolds`, rest on `OnceInv`, which says why no row is created twice while nothing is redelivered: the question of a QA
is in the topic once (`OneQuestion`), the batch has only what is not committed, each message once (`BatchIsNew`), a pending INSERT has its question in the batch (`CreatingIsRead`), and the
question of a row that was ever created is committed, or in the batch with its INSERT behind it (`CreatedIsDone`). `VotesSurvive` is an action property, proved one action at a time. `ColumnsGrow` proves the other action
property, `ColumnsNeverGoBack`, for one partition: with more, the events of a QA have no order. `ColumnInv` says that a column of a row was set by a message the worker has done with, and
a column of a pending query by a later one of the batch, so an UPDATE carries no older version.

**MSearch** (`MSearch_proofs`), for any number of sub-requests and any of them failing.
`ResponseComplete`, of which `AnswerWhole` is made with `NothingMissing`, is about a property that
is not inductive: why the select may trust an empty channel is a fact
about the goroutines. `FailureIsSent` says that while the request waits, a goroutine that
failed and got past its send left an error in the channel, and nobody has received it. `WInv` adds what an
answer is made of, and that no goroutine is left when there is one, so that nothing is appended behind its back. `CancellationCaused` follows
a cancellation back, through the context, the channel and the failures, to its first cause (`CInv`).
`ImplementsGathering` is the refinement: with these invariants each step of a goroutine maps to a `Gather` or a stutter, and each answer to `GiveLists` or `GiveError`.

**ConversationEngine** (`ConversationEngine_proofs`), for any list of models, any capacity and any faults.
`TypeCorrect` with the types of three goroutines; `TriesInOrder` needs that the count of attempts of a model
is the number of its entries at the end of the history (`CountIsTries`); `ClosedIsSafe` that whoever closed the channel has nothing left to do
and that the keywords goroutine was waited for (`ClosedIsExited`). `SearchAnswerIsWholeHolds` is about what the client has read, which three goroutines have sent and nobody
looks back at. `FlowInv` is about all that was sent, in the client's hands or in the channel: a search, its keywords and their result happen once (`KeywordsOnce`); only keywords come behind a terminal
(`TerminalIsLast`); and the references and the keywords of an attempt that waits for them are in front of its Done (`SentBeforeDone`). With it each step maps to one of `AnswerStream` or to a stutter (`ImplementsAnswerStream`):
a `text` that is produced is a `Receive`, one that the handler reads a `Deliver`, and the attempt that takes the place of another a `Restart`. That a read text is the next one of those that count is a fact about the
number of texts in a sequence that gets an element or loses its first (`TextsAppend`, `TextsTail`), proved with bijections, as no induction is available.

**SolarCompletion** (`SolarCompletion_proofs`), for any capacity, any number of chunks and any faults.
`ReceivedAnswer` says that an answer the backend takes for complete is whole. That is not inductive, as the backend
sees only the end of the way. The invariant is about everything produced, in the order of its production (`Produced`: what was received, the lines
on their way, the channel, what is pending). Sending, taking and receiving leave this sequence alone, but for the null written after a terminal. So it is
the body of the answer while the stream may go on (`GoingProducesBody`); a terminal is its last element, or is followed by that null alone
(`EndIsLast`); and only an LLM that has finished makes it done (`DoneIsWhole`). As the relay stops at the first terminal
(`RelayStops`), it never reads the null, and what it has at `done` is the whole answer. `ImplementsAnswerStream` needs in addition that the texts produced are at most those the LLM gave (`TextInv`): only then
is there one left to `Deliver` when the relay reads a text.

**CompletionRelay** (`CompletionRelay_proofs`), for any set of chunks with the parts they carry, any capacity, any number of chunks, and every kind of request.
The results are numbered in the order of their production: those at the client, the one in the handler's hands, those in the channel, what the goroutine has to send. Each is what its number says - the references to files, then chunk after chunk,
then the error or the canned answer and `Done` (`InOrder`) - and there are as many as were received (`AllCounted`), wherever goroutine and handler are. So the texts at the client are the first ones received, which is the refinement
(`ImplementsAnswerStream`), and the difference between what a message may have merged and what it was sent with is at most what was produced behind it: the channel, one in the goroutine's
hands and itself (`RelayInvariantHolds`). `StoredAsReceivedHolds` is about the events: `EInv` says that the versions of a column never pass what was received of it, and that every column whose
last event was not refused has all but the chunk just received (`Kept`): each event of a column repeats all that came before, so it makes up for those that were refused. That the events are a script, which EventConsumer assumes of them (`ScriptAssumption`), follows for every stream.

**BackendApi** (`BackendApi_proofs`), for any number of concurrent requests of any kinds, any tables that are sound at the start (`Sound`), and any failures. `TablesStaySound` is about what is
read by two statements of no transaction: the upload of a chat, then its files, while another request writes the rows of those files one by one. Neither it nor `SuccessIsTrue` is inductive, as a table does not say
what a request is about to write. `IInv` says it of each call: the files it has written are of no upload before it has made one (`ParseOK`); an upload that is being made has no QA, and rows for all files but those that are left to write
(`UploadOK`); an upload that a question found has a QA, so that all rows of its files were there before they were read (`FilesOK`); and what failed is not a success any more (`CallOK`). Two calls never have
the same file or upload in hand (`Apart`). Each handler's step is shown to keep the facts of its own call, and to change the tables only in ways that the facts of the other calls survive (`Evolves`, `OthersStay`).
What ORDER BY gives is a recursive function in BackendTables, over sets of any size: that it is the set of all orders (`OrdersAre`) is proved with a minimal counterexample, by the theorems of well-founded relations, which
need no operator as a parameter.

`PagesRegular` is about a list of QAs that is read page by page, with two statements each, while the consumer inserts rows and other requests delete some. It is shown by places: the place of a row in an order of a set is the number of rows
that are not behind it (`PlaceInOrder`), so that a new row leaves it or moves it back by one, and only a deleted row can move it ahead, which is the case the property excepts. The invariant `WalksOK` says of a walk that a row of its start
that was not met yet has its place beyond the offset of the next page (`MetOK`), that a total counts at least the rows of the start that are still there (`TotalOK`), and that, if no row came in since, no page reaches past the total it states
(`WithinOK`); when the walk ends its offset is at or past the total, and no place is left. Two rows of one time have no place in this sense, as MySQL may give them in another order for every page: the property excepts them too.

`ReadsRegular` is about what is read by several statements: the chats of a user and the QAs of each, the chats of a session, those of a login, the QAs of a chat, and the history of a question. `ReadsOK` says of each call what it has read so far: what was there when
it came still is there or was deleted, and what was gone still is (`BeginOK`); each list of QAs that it has holds the rows that are there all the time, in order, and none that was gone (`ListsOK`); the chats whose QAs it has, or is going to read, are
those that were its own from the start and still are, but for those that another login moves (`ShownOK`); and in a history the messages of a QA stand together, whole, and in the order of the times (`TaleOK`). Other calls leave all this true (`ReadStays`), since a row
keeps its chat, session and time, an answer is not taken back, and a row or chat that is gone stays so. A history is a flattened sequence of blocks, for v2 in reverse; `FlattenSeq` is a recursion too, and what is needed of it, where each
message comes from, is taken from the running sums of the lengths of the blocks. The row of an upload, whose time another process writes with its clock nine hours off, never gets into a history, as it has no answer: that is part of what is sound (`Sound`).

`StatisticsRegular` is about statistics of any period. What a call has read is of the period it asked for (`StatsOK`), as a period that ends before it begins is turned away; the rest is arithmetic. The labels of the period and those of the rows are
each met once in the buckets, in order (`RankedHas`), so the rows of the buckets are disjoint and have all rows between them (`PartsOfRows`): a sum over the buckets is one over the rows (`TotalOfParts`, `CountOfParts`), and so for the job groups of a
bucket, whose sessions are at most its rows (`UsersAsked`). That the counts belong to their labels needs the labels to be a run of numbers, and the recursion that counts them up to go through every month: by the calendar, a day that all months have
stays what it is from month to month (`AddMonthIs`, `LabelsOfChain`). The shares of the votes, each rounded down, lack at most one percent (`SharesRoundedDown`).

**RankFusion** (`RankFusion_proofs`), for any number of lists of any length, any set of articles and any size. `FusionIsRankFusion` and `FusionKeepsToTheLists` rest on `FusionInv`: the score of an article is the sum
of the shares of those of its places that were looked at (`ScoreInv`), the result is the front of some order of the scores (`DoneInv`), and an article that is ahead of another in every list that was gone through has
no lower score (`PrefInv`). The scores are sums and products over sets, which the community modules define with a fold, a recursion: that a fold has a value (`FoldExists`), one only (`FoldUnique`), the same in whatever order
the elements are picked (`FoldAny`), is shown by a least set for which it would not.

**The search service, the search function, keywords and summaries** (`Summaries_proofs`), for any index, any two configuration files, any requests of other clients, any calls of the function and any number of ticks of the clock. One behaviour
has them all, so each step of `Summaries` is shown to be a step of the search or to leave it alone, and a step of the search one of the service (`NextIsSearchStep`, `SearchStep`, `ServiceStep`). The invariant `SystemInv` has a part for each.
`ServesInv` is about the files: what a valid file makes of a query (`TextQueryIs` and its like) is a panic or an error of the configuration only with a part that no rule requires, with a reranker, or with a filter that has no
clause to go to (`AcceptedConfigServes`). `ListsInv` is about the lists: each list kept is one that OpenSearch may give for a sub-request at the time it was searched, and the reply is made of those lists and of nothing else, as sorting, cutting,
fusing and collapsing add no item (`RepliesHonour`). `PluginInv` is about the function: the request in service is the one its call makes, and the references are chunks of what that request found (`FunctionFinds`). That an article is looked for in the
one or the other window follows from the times at which the two were searched (`ArticlesHadTheirChance`). `KeywordsInv` bounds the attempts. `SummaryInv` says of the handlers that the list of statuses begins with an
error once there was one, and that what the LLM is told is what the references have (`SuccessIsDeserved`); `SummariesTypeCorrect` follows from all parts. The sort of the items and the merging of the chunks
are folds over a sequence, treated like those of RankFusion.

The named assumptions of these two: time begins after 0, which stands for "not searched"; the `None` of the model is no request, message or set of filters; no text in the index is empty; sizes in requests and calls are not negative, and those of chunks
are positive (`IsRequest`, `IsCall`; the `int32` of the proto admits others, but the engine sends constants); the deployed files are those of `search/config` (`DeployedAssumption`); an article has a date, a length and a provider, and its
chunk is not empty (`ArticlesAssumption`). TLC evaluates each of them on the instances.

So all three hops of an answer - the engine, both of its endpoints with the backend's read of them, and the backend's relay - are proved to implement `AnswerStream`, and, under the assumptions above, every property but the one of liveness that a run checks of
EventConsumer is a theorem; so is every safety property of RankFusion, of the search service and of what stands on it, and of the handlers of the backend.

Only model-checked: everything temporal beyond safety (liveness under fairness is
out of the prover's reach, and so is ENABLED). The induction theorems of the library take an operator, which the
provers cannot instantiate; where a recursion had to be reasoned about, a least counterexample took their place.

## What the code does otherwise

Each of these runs checks one property that a comment, a message or a README of the
repository states, and TLC shows a behaviour of the code that violates it.

| Run | What happens |
|---|---|
| `ec_restart_lost` | after a crash between INSERT and commit, the redelivered batch is a longer INSERT, which fails, and its later events are committed unapplied (`backend/consumer/event/main.go:75`) |
| `ms_mislabel` | lists get the ids of other sub-requests (`search/service/search.go:281`) |
| `ce_spins` | a stream that ended early is read for ever (`conversation/service/completion.go:450`) |

Some more behaviours are in the models without a run of their own. They show in what
the properties except and in what the theorems assume.

Completions:

- When the stream for a file begins with an error, the engine's handler has flushed a status of 500 and
  waits for the client to leave or for a channel that nobody closes, while the backend reads the
  error's body to its end (`conversation/service/completion_file.go:125`, `backend/internal/http/request/stream.go:39`;
  `Deadlock` in `RequestIsReleased`). It lasts until the user leaves.
- When the choice of a function fails, the multi-turn handler reads on from a nil channel, and
  the backend learns of it from its own timeout (`conversation/handler/completion_multi.go:51`; `PostFails`).
- The engine's goroutines send without looking at the context: when the handler has gone and the channel is full they
  stay for ever (`Abandoned` in `RequestIsReleased`), as the backend's do (`RelayExitsUnlessAbandoned`).
- The engine's call of search has no timeout, and the usage that was flushed before it has stopped the backend's clock: when the
  search service does not answer, as MSearch does not after two errors, the request hangs until its client leaves
  (`conversation/service/function/search.go:350`; `Unanswered` in `RequestIsReleased`, `AnswersUnlessBroken`). The backend waits
  as long for an engine that keeps a stream open, as this one does with one that broke (`Waiting` in `RelayExitsUnlessAbandoned`).
- The references to a file are written once, with the first chunk: if the writer refuses that event they are lost
  (`backend/service/completion.go:281`; `refused` in `PartialAnswerIsStored`).
- An answer completed by the engine ends at the client without `[DONE]` (`EndOf` in CompletionRelay).
- A request to azure ends the process (`AnswersUnlessBroken` excepts it), or panics in a call without a stream (`Chat` in Summaries).
- A retry after a search does not wait for the keywords of the attempt before
  (`SearchAnswerIsWhole` excepts it).
- The history of a v2 chat is put before the question latest first, with each answer before its question: the line that would reverse it is commented
  out (`backend/service/completion.go:338`; `HistoryIsOrdered` has both orders). A history that cannot be read is left out, and the question is asked without it.

Events:

- A batch that the writer stores twice takes columns back until its second copy is read to the end
  (`backend/main.go:38`; `ColumnsNeverGoBack` excepts it).
- Under a rebalance `CommittedEventsAccounted` does not hold: a batch given back while it is applied may put an
  older answer back after a newer one was committed. The redelivery repairs it (`AnswersEventuallyAccounted`).
- `mergeQA` copies every column but FileReferences, so file references are lost when their
  event meets an earlier one of the QA in a batch (assumption `NoFileReferences`).
- A FetchMessage error discards messages that the reader has passed, and a failed statement is skipped and the batch committed (`dropped`).

Search and summaries:

- A second search of MSearch that ends in an error finds the channel of capacity 1 full; nobody receives before
  `wg.Wait` returns, so it never does, and neither does MSearch (`search/service/search.go:328`;
  `AnswersUnlessTwoFail`). One failure is enough where the context it cancels makes another search fail.
- The select of MSearch may return `context canceled` in place of the error that caused it
  (`CancellationHasCause` claims a cause, not which error).
- A configuration that passes the validation may lack parts that every request needs (`Unchecked` in `ValidatedConfigServes`): a reranker without
  a source, a searcher without a strategy, a vector strategy without an encoder. The nil is followed by the first request. A range filter beside a query
  that is no plain bool one panics too (`Misplaced`).
- An article on the boundary of the two windows may be in both or in none if the clock passes it between the two searches (`EveryArticleHasItsChance` excepts it).
- The topics' search function takes 2023-05-11 for the current time: a topic of later dates is searched without dates (`conversation/service/topic.go`; `SummaryIsOfItsNews` excepts it).
- The error of an empty topic is nil, and its text is asked for: the handler panics (`Begin`). After any other error a handler writes a success as well; as it is the first status
  that is sent, the backend sees the error (`SummaryIsOfItsNews`).

Tables:

- `CreateUserChat`, `Login`, `GetQAs` and `GetUserChats` write an error and go on: a malformed body still creates a chat (`GoesOn`), and a request without a user lists the chats of
  the hash of nothing.
- An UPDATE that changes nothing affects no row, which is taken for a chat that is not there: 404 or 500 (`Affects`).
- A failed look-up of the upload of a chat returns `"error"` as its id, no file is found for it, and the best of no chunks panics
  (`backend/handler/file.go:551`; `FindUpload`).
- The status of a conversion is asked for once a second until it is a success: a failed one is asked for for ever (`RequestsEnd` excepts it).
- A count without a last day is of the rows up to the year 1, which is none (`PageWithinTotal` excepts it).
- Labels of months are counted from the first date by `AddDate`, which skips a month that lacks the day (`StatisticsAddUp` excepts it).

## Not modelled

- Text: prompts, message formats, the wording of queries, tokens (`pkg/chat/v2/gpt/gpt.go`, `option.go`, `conversation/service/prompt.go`,
  `conversation/internal/token_counter`). No state depends on it.
- Static answers and single statements: guides, tutorials, recommendations, API keys; the reads of one QA and one chat, the full-text search, the ranking of keywords in the statistics.
- Logging, routing, gRPC and HTTP start-up, and the clients of the encoder, the reranker and OpenSearch beyond the outcomes of one call.
- Code that nothing calls: `UpsertQA`, `CompletionMultiService.CreateChatCompletionMulti` (`completion_multi.go:643`), `pkg/chat/chatgpt.go`, `pkg/chat/v2/palm`,
  `gpt.Chat`, `CreateRequestSolarPro`, `handleTopicOpenSearcyQuery`.
- Generated code: 13,100 of the 28,600 lines of Go are under `src/proto`, marshalling, gRPC stubs and validation. Only the validation of the two
  configuration files is called by this code, and it is modelled (SearchConfig); the validators of the messages are not called, and there is no state in the rest. The modules
  stand for about a third of the code that people wrote.
- Requests the backend never sends to the engine's streaming endpoints: malformed bodies, a last message that is not the user's.
- float32 rounding in rank fusion.
- Kafka's own protocol: the group's generations appear only as `Rebalance`.
- The reading of the first line of a data race beyond "any bytes" (`Torn`).

## Plan

Done, in this order: EventConsumer (the only component that keeps what users see),
its theorems, MSearch and its theorems, RankFusion, CompletionRelay, ConversationEngine,
SolarCompletion; the abstract specifications `AnswerStream` and `Gathering` and the mappings to them; the search service with
its configuration and queries, the search function, keywords, summaries; the tables of the backend and their handlers; the theorems about
the answers of MSearch, its refinement, the attempts of the engine, and the answers of SolarCompletion; the theorems about rows, votes and skipped statements of EventConsumer, about the relay and its events,
about the answers to a search, and the three implementations of `AnswerStream`; the theorems about the tables, the pages, the lists, the histories and the statistics of the backend;
the theorems about rank fusion and about the search service, the search function and the summaries.

Next:

1. A row as the latest version of each column, as an abstract specification that EventConsumer implements while nothing is redelivered.
2. The composition of ConversationEngine with ArticleSearch, where the keywords goroutine of one meets the attempts of the other.
