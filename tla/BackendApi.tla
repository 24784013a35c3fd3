------------------------------- MODULE BackendApi ------------------------------
(***************************************************************************)
(* The REST handlers of the backend over its tables (backend/handler and   *)
(* backend/service: chat.go, qa.go, file.go, statistics.go, and what       *)
(* completion.go does up to the QuestionCreated event). Requests are       *)
(* served concurrently, one statement a step. A statement may fail; most   *)
(* handlers then write an error and return, some write it and go on.       *)
(*                                                                         *)
(* The consumer, the relay of an answer and the services that parse and    *)
(* embed files are external; API keys and text search are left out.        *)
(***************************************************************************)
EXTENDS BackendTables

CONSTANTS
  Slot,          \* bound: the requests that are ever served, 1 .. n
  Requests,      \* the requests of clients
  InitialTables, \* the tables that earlier requests may have left
  Instants,      \* bound: the hours at which something happens
  HistoryLimit,  \* the QAs of a multi-turn history: 5 in the code
  MaxFaults      \* bound: the statements and calls that fail

\* What a client may send, by operation; every field is text that was parsed.
Request ==
  [op : {"CreateChat", "ListChats"}, malformed : BOOLEAN, session : Text]
    \union [op : {"CreateUserChat", "GetUserChats"}, malformed : BOOLEAN, user : Text]
    \union [op : {"Login"}, malformed : BOOLEAN, chat : Nat \union {None}, user : Text]
    \union [op : {"DeleteChat"}, malformed : BOOLEAN, chat : Nat \union {None}]
    \union [op : {"UpdateChatTitle"}, malformed : BOOLEAN, chat : Nat \union {None}, title : Text]
    \union [op : {"ListChatQAs"}, malformed : BOOLEAN, chat : Nat, session : Text]
    \union [op : {"GetQAs"}, malformed : BOOLEAN, chat : Nat]
    \union [op : {"DeleteQAs"}, malformed : BOOLEAN, ids : SUBSET Nat]
    \union [op : {"ListQAs"}, malformed : BOOLEAN, from : Nat \union {None}, to : Nat \union {None},
            limit : Nat \ {0}]
    \union [op : {"Statistics"}, malformed : BOOLEAN, from : Nat \union {None}, to : Nat \union {None},
            unit : {"DAY", "MONTH"}]
    \union [op : {"Ask"}, malformed : BOOLEAN, mode : {"single", "history", "multi"}, chat : Nat,
            session : Text, jobGroup : Text]
    \union [op : {"AskFile"}, malformed : BOOLEAN, chat : Nat, session : Text, jobGroup : Text]
    \union [op : {"Upload"}, malformed : BOOLEAN, chat : Nat, files : Seq(BOOLEAN)]
    \union [op : {"FileUpload"}, malformed : BOOLEAN, files : Seq(BOOLEAN)]
    \union [op : {"Convert"}, malformed : BOOLEAN]

ASSUME ApiAssumption ==
  /\ Slot \subseteq Nat /\ Instants \subseteq Nat
  /\ Requests \subseteq Request
  /\ \A t \in InitialTables : Sound(t)
  /\ HistoryLimit \in Nat \ {0} /\ MaxFaults \in Nat

VARIABLES
  calls,   \* the requests in service and those that were
  faults   \* how many statements and calls have failed

vars == <<tables, calls, faults>>

\* A call: its request, the next step, the statuses that were written, whether a
\* statement failed, what it has read, what is left to do, and which rows were
\* there and which were gone when it came.
Idle == [req |-> [op |-> "none"], step |-> "idle", reply |-> <<>>, failed |-> FALSE,
         got |-> <<>>, todo |-> <<>>, start |-> None]

Init ==
  /\ \E t \in InitialTables :
       /\ clock = t.clock /\ chats = t.chats /\ qas = t.qas
       /\ files = t.files /\ uploads = t.uploads
  /\ calls = [s \in Slot |-> Idle]
  /\ faults = 0

---------------------------------------------------------------------------
(* Steps of a call.                                                        *)

Req(s) == calls[s].req

At(s, op, step) == Req(s).op = op /\ calls[s].step = step

Status(op) == IF op \in {"CreateChat", "CreateUserChat"} THEN 201
              ELSE IF op \in {"DeleteChat", "DeleteQAs"} THEN 204 ELSE 200

Ended(call, statuses) == [call EXCEPT !.step = "done", !.reply = @ \o statuses]

Return(s, statuses) == calls' = [calls EXCEPT ![s] = Ended(@, statuses)]

Succeed(s) == Return(s, <<Status(Req(s).op)>>)

SucceedWith(s, got) ==
  calls' = [calls EXCEPT ![s] = Ended([@ EXCEPT !.got = got], <<Status(Req(s).op)>>)]

Continue(s, step, got, todo) ==
  calls' = [calls EXCEPT ![s].step = step, ![s].got = got, ![s].todo = todo]

\* Handlers without a return after their error responses.
GoesOn == {"Login", "CreateUserChat", "GetQAs", "GetUserChats"}

WithError(op, status) == IF op \in GoesOn THEN <<status, Status(op)>> ELSE <<status>>

\* The statement or the call at hand fails, and the request with it.
Fails(s) ==
  /\ faults < MaxFaults
  /\ faults' = faults + 1
  /\ calls' = [calls EXCEPT ![s] = Ended([@ EXCEPT !.failed = TRUE], WithError(Req(s).op, 500))]
  /\ UNCHANGED tables

Read(s) == UNCHANGED <<tables, faults>>

\* Whether a request is to come or in service.
Busy == \E s \in Slot : calls[s].step # "done"

---------------------------------------------------------------------------
(* A request arrives.                                                      *)

\* A body that is no JSON leaves the zero request to a handler that goes on.
Decoded(r) ==
  IF ~r.malformed THEN r
  ELSE IF r.op = "CreateUserChat" THEN [r EXCEPT !.user = ""]
  ELSE IF r.op = "Login" THEN [r EXCEPT !.user = "", !.chat = None] ELSE r

\* A request that does not parse, or lacks what is required.
Rejected(r) ==
  \/ r.malformed /\ r.op \notin GoesOn
  \/ r.op \in {"ListChats", "ListChatQAs"} /\ r.session = ""
  \/ r.op \in {"DeleteChat", "UpdateChatTitle"} /\ r.chat = None
  \/ r.op = "UpdateChatTitle" /\ r.title = ""
  \/ r.op = "Statistics" /\ None \in {r.from, r.to}
  \/ r.op \in {"ListQAs", "Statistics"} /\ None \notin {r.from, r.to} /\ r.from > r.to

Rejection(r) == IF r.op = "UpdateChatTitle" /\ ~r.malformed /\ r.title = "" THEN 422 ELSE 400

\* An error that is written, and forgotten.
Noticed(r) == (r.malformed \/ (r.op = "GetUserChats" /\ r.user = "")) /\ ~Rejected(r)

FirstStep(r) ==
  CASE r.op \in {"GetUserChats"} -> "list"
    [] r.op = "Login" -> "move"
    [] r.op = "ListQAs" -> "count"
    [] r.op = "Ask" -> IF r.mode = "single" THEN "record" ELSE "history"
    [] r.op \in {"Upload", "FileUpload"} -> "parse"
    [] r.op = "AskFile" -> "upload"
    [] r.op = "Convert" -> "poll"
    [] OTHER -> "statement"

\* Which chats and QAs there are for a call to find, and which are gone.
Start ==
  [chats |-> {c \in DOMAIN chats : Live(c)}, rows |-> Rows, answered |-> {q \in Rows : Answered(q)},
   gone |-> [chats |-> {c \in DOMAIN chats : ~Live(c)},
             qas |-> {q \in DOMAIN qas : qas[q].row = "deleted"}]]

Listings == {"GetUserChats", "Login", "GetQAs", "ListChats", "ListChatQAs", "ListQAs", "Ask"}

Begin(s, r) ==
  LET call == [Idle EXCEPT !.req = Decoded(r), !.step = FirstStep(r),
                           !.start = IF r.op \in Listings THEN Start ELSE None,
                           !.reply = IF Noticed(r) THEN <<400>> ELSE <<>>,
                           !.todo = IF r.op \in {"Upload", "FileUpload"} THEN r.files ELSE <<>>]
  IN  /\ calls[s].step = "idle" /\ \A t \in Slot : t < s => calls[t].step # "idle"
      /\ calls' = [calls EXCEPT ![s] = IF Rejected(r) THEN Ended(call, <<Rejection(r)>>) ELSE call]
      /\ UNCHANGED <<tables, faults>>

---------------------------------------------------------------------------
(* Chats.                                                                  *)

CreateChat(s) ==
  /\ \/ At(s, "CreateChat", "statement") /\ NewChat(Req(s).session, None)
     \/ At(s, "CreateUserChat", "statement") /\ NewChat("", Req(s).user)
  /\ Succeed(s)
  /\ UNCHANGED <<clock, qas, files, uploads, faults>>

ListOfChats(s) ==
  /\ At(s, "ListChats", "statement")
  /\ \E list \in ListChats(Req(s).session) :
       SucceedWith(s, [i \in DOMAIN list |-> [chat |-> list[i], qas |-> <<>>]])
  /\ Read(s)

ListOfQAs(s) ==
  /\ \/ At(s, "ListChatQAs", "statement")
          /\ \E list \in ListChatQAs(Req(s).session, Req(s).chat) :
               SucceedWith(s, <<[chat |-> Req(s).chat, qas |-> list]>>)
     \/ At(s, "GetQAs", "statement")
          /\ \E list \in ListChatIdQAs(Req(s).chat) :
               SucceedWith(s, <<[chat |-> Req(s).chat, qas |-> list]>>)
  /\ Read(s)

Delete(s) ==
  /\ At(s, "DeleteChat", "statement")
  /\ IF Live(Req(s).chat) THEN DeleteChat(Req(s).chat) /\ Succeed(s)
     ELSE Return(s, <<404>>) /\ UNCHANGED chats
  /\ UNCHANGED <<clock, qas, files, uploads, faults>>

UpdateChatTitle(s) ==
  /\ At(s, "UpdateChatTitle", "statement")
  /\ IF Affects(Req(s).chat, "title", Req(s).title)
     THEN UpdateChat(Req(s).chat, "title", Req(s).title) /\ Succeed(s)
     ELSE Return(s, <<404>>) /\ UNCHANGED chats
  /\ UNCHANGED <<clock, qas, files, uploads, faults>>

\* ChatLogin gives a chat to the user, whosever it was.
Move(s) ==
  /\ At(s, "Login", "move")
  /\ IF Req(s).chat # None /\ Affects(Req(s).chat, "user", Req(s).user)
     THEN UpdateChat(Req(s).chat, "user", Req(s).user) /\ Continue(s, "list", <<>>, <<>>)
     ELSE Return(s, <<500, 200>>) /\ UNCHANGED chats
  /\ UNCHANGED <<clock, qas, files, uploads, faults>>

\* The chats of a user, then the QAs of each by a statement of its own.
ListUserChats(s) ==
  /\ calls[s].step = "list"
  /\ \E list \in ListChatsUser(Req(s).user) :
       IF list = <<>> THEN Succeed(s) ELSE Continue(s, "qas", <<>>, list)
  /\ Read(s)

ListQAsOfNext(s) ==
  LET c == Head(calls[s].todo)
  IN  /\ calls[s].step = "qas"
      /\ \E list \in ListChatIdQAs(c) :
           LET got == Append(calls[s].got, [chat |-> c, qas |-> list])
           IN  IF Len(calls[s].todo) = 1 THEN SucceedWith(s, got)
               ELSE Continue(s, "qas", got, Tail(calls[s].todo))
      /\ Read(s)

---------------------------------------------------------------------------
(* QAs.                                                                    *)

\* A client walks through the pages, a request each, up to one that is not full.
\* (Faulty variant: the first page is the one after it.)
OffsetOfNext(s) == Req(s).limit * (Len(calls[s].got) + 1)

Offset(s) == Req(s).limit * Len(calls[s].got)

Count(s) ==
  /\ At(s, "ListQAs", "count")
  /\ Continue(s, "page", calls[s].got, <<CountQAs(Req(s).from, Req(s).to)>>)
  /\ Read(s)

ListPage(s) ==
  /\ At(s, "ListQAs", "page")
  /\ \E page \in Page(Req(s).from, Req(s).to, Offset(s), Req(s).limit) :
       LET got == Append(calls[s].got, [total |-> Head(calls[s].todo), offset |-> Offset(s), qas |-> page])
       IN  IF Len(page) < Req(s).limit THEN SucceedWith(s, got) ELSE Continue(s, "count", got, <<>>)
  /\ Read(s)

DeleteRows(s) ==
  /\ At(s, "DeleteQAs", "statement")
  /\ DeleteQAs(Req(s).ids)
  /\ IF Req(s).ids \intersect Rows = {} THEN Return(s, <<404>>) ELSE Succeed(s)
  /\ UNCHANGED <<clock, chats, files, uploads, faults>>

\* The rows of the period are read once; the reply is computed from them.
Statistic(s) ==
  /\ At(s, "Statistics", "statement")
  /\ SucceedWith(s, SetToSeq(ListQAs(Req(s).from, Req(s).to)))
  /\ Read(s)

StatisticsOf(s) == GetStatistics(Req(s).unit, Req(s).from, Req(s).to, ToSet(calls[s].got))

---------------------------------------------------------------------------
(* Completions, up to the event.                                           *)

Message(q, part) == [qa |-> q, part |-> part]

\* The messages of a QA from its answer back to its question.
Backwards(q) ==
  <<Message(q, "answer")>> \o (IF qas[q].refs THEN <<Message(q, "references")>> ELSE <<>>)
    \o <<Message(q, "question")>>

\* The rows of the list of the chat that the loop does not pass over.
AnsweredQAs(session, c) ==
  Ascending({q \in Rows : qas[q].session = session /\ qas[q].chat = c /\ Answered(q)})

\* Faulty variant: the rows are read from the first on.
ChatHistoryForwards(s) ==
  {Reverse(FlattenSeq([i \in DOMAIN list |-> Backwards(list[i])]))
   : list \in AnsweredQAs(Req(s).session, Req(s).chat)}

\* CreateChatCompletionWithChatHistory: from the latest row, and reversed.
ChatHistory(s) ==
  {Reverse(FlattenSeq([i \in DOMAIN list |-> Backwards(list[Len(list) + 1 - i])]))
   : list \in AnsweredQAs(Req(s).session, Req(s).chat)}

\* CreateChatCompletionMulti: from the latest row, each answer before its question.
MultiHistory(s) ==
  {FlattenSeq([i \in DOMAIN list |-> <<Message(list[i], "answer"), Message(list[i], "question")>>])
   : list \in ListChatIdQAsLimit(Req(s).chat, HistoryLimit)}

\* An error, or a second without an answer of the database, is no history.
History(s) ==
  /\ At(s, "Ask", "history")
  /\ \/ /\ \E h \in IF Req(s).mode = "multi" THEN MultiHistory(s) ELSE ChatHistory(s) :
             Continue(s, "record", h, <<>>)
        /\ UNCHANGED faults
     \/ /\ faults < MaxFaults /\ faults' = faults + 1
        /\ calls' = [calls EXCEPT ![s].step = "record", ![s].failed = TRUE]
  /\ UNCHANGED tables

Record(s) ==
  /\ Req(s).op \in {"Ask", "AskFile"} /\ calls[s].step = "record"
  /\ IF Req(s).session = "" THEN Return(s, <<500>>) /\ UNCHANGED qas
     ELSE QuestionCreated(Req(s).chat, Req(s).session, Req(s).jobGroup) /\ Succeed(s)
  /\ UNCHANGED <<clock, chats, files, uploads, faults>>

\* The consumer inserts the row of a question, and writes text of its answer.
\* Bound: while something is left to do.
Consume(q) ==
  /\ Busy
  /\ \/ qas[q].row = "asked" /\ qas' = [qas EXCEPT ![q].row = "there"]
     \/ There(q) /\ qas[q].upload = None /\ ~Answered(q)
          /\ qas' = [qas EXCEPT ![q].answered = TRUE]
  /\ UNCHANGED <<clock, chats, files, uploads, calls, faults>>

---------------------------------------------------------------------------
(* Files.                                                                  *)

\* Once all files are parsed the upload is given its id.
Parsed(s, got) ==
  LET rest == Tail(calls[s].todo)
      upload == [upload |-> Len(uploads) + 1, files |-> ToSet(got)]
  IN  IF rest # <<>> THEN Continue(s, "parse", got, rest) /\ UNCHANGED uploads
      ELSE IF got = <<>> THEN Return(s, <<500>>) /\ UNCHANGED uploads
      ELSE IF Req(s).op = "FileUpload" THEN SucceedWith(s, got) /\ UNCHANGED uploads
      ELSE /\ Continue(s, "rows", upload, got)
           /\ uploads' = Append(uploads, [files |-> ToSet(got), broken |-> FALSE])

\* The next file is parsed and written to disk; one that cannot be opened is
\* passed over. The upload of a single file writes no row.
ParseFile(s) ==
  /\ calls[s].step = "parse"
  /\ \/ /\ calls[s].todo = <<>> /\ Return(s, <<400>>)
        /\ UNCHANGED <<files, uploads, faults>>
     \/ /\ calls[s].todo # <<>>
        /\ WriteFile(Head(calls[s].todo))
        /\ Parsed(s, Append(calls[s].got, Len(files) + 1))
        /\ UNCHANGED faults
     \/ /\ calls[s].todo # <<>> /\ Req(s).op = "Upload"
        /\ faults < MaxFaults /\ faults' = faults + 1
        /\ Parsed(s, calls[s].got)
        /\ UNCHANGED files
  /\ UNCHANGED <<clock, chats, qas>>

\* FileUpload goes on after an error of the disk.
DiskFails(s) ==
  /\ At(s, "FileUpload", "parse") /\ calls[s].todo # <<>>
  /\ faults < MaxFaults /\ faults' = faults + 1
  /\ \E errors \in {<<500>>, <<500, 500>>} :
       calls' = [calls EXCEPT ![s] = Ended([@ EXCEPT !.failed = TRUE], errors \o <<200>>)]
  /\ UNCHANGED tables

\* Faulty variant: the row of the QA is written before those of the files.
RowsAfterQA(s) ==
  LET call == calls[s]
  IN  /\ call.step = "rows"
      /\ IF Len(call.todo) = Cardinality(call.got.files)
         THEN UploadQA(Req(s).chat, call.got.upload) ELSE UNCHANGED qas
      /\ CreateFile(Head(call.todo), call.got.upload)
      /\ calls' = [calls EXCEPT ![s].todo = Tail(@),
                                ![s].step = IF Len(call.todo) = 1 THEN "qa" ELSE "rows"]
      /\ UNCHANGED <<clock, chats, uploads, faults>>

\* Faulty variant: the rest of the rows is given up without a word.
WriteUploadFilesQuietly(s) ==
  LET call == calls[s]
  IN  /\ call.step = "rows"
      /\ \/ CreateFile(Head(call.todo), call.got.upload) /\ UNCHANGED faults
         \/ faults < MaxFaults /\ faults' = faults + 1 /\ UNCHANGED files
      /\ calls' = [calls EXCEPT ![s].todo = Tail(@),
                                ![s].step = IF Len(call.todo) = 1 THEN "qa" ELSE "rows"]
      /\ UNCHANGED <<clock, chats, qas, uploads>>

\* WriteUploadFiles stops at the first row that fails, and the handler goes on.
WriteUploadFiles(s) ==
  LET call == calls[s]
  IN  /\ call.step = "rows"
      /\ \/ /\ CreateFile(Head(call.todo), call.got.upload)
            /\ calls' = [calls EXCEPT ![s].todo = Tail(@),
                                      ![s].step = IF Len(call.todo) = 1 THEN "qa" ELSE "rows"]
            /\ UNCHANGED <<uploads, faults>>
         \/ /\ faults < MaxFaults /\ faults' = faults + 1
            /\ calls' = [calls EXCEPT ![s].step = "qa", ![s].failed = TRUE,
                                      ![s].reply = Append(@, 500)]
            /\ uploads' = [uploads EXCEPT ![call.got.upload].broken = TRUE]
            /\ UNCHANGED files
      /\ UNCHANGED <<clock, chats, qas>>

WriteUploadQA(s) ==
  /\ calls[s].step = "qa"
  /\ \/ UploadQA(Req(s).chat, calls[s].got.upload) /\ Succeed(s) /\ UNCHANGED faults
     \/ /\ faults < MaxFaults /\ faults' = faults + 1
        /\ calls' = [calls EXCEPT ![s] = Ended([@ EXCEPT !.failed = TRUE], <<500, 200>>)]
        /\ UNCHANGED qas
  /\ UNCHANGED <<clock, chats, files, uploads>>

\* An error of the statement is the name of an upload that nobody made.
FindUpload(s) ==
  /\ calls[s].step = "upload"
  /\ \/ /\ \E u \in GetUploadId(Req(s).chat) :
             IF u = None THEN Return(s, <<500>>)
             ELSE Continue(s, "files", [upload |-> u, files |-> {}], <<>>)
        /\ UNCHANGED faults
     \/ /\ faults < MaxFaults /\ faults' = faults + 1
        /\ Continue(s, "files", [upload |-> 0, files |-> {}], <<>>)
  /\ UNCHANGED tables

FindFiles(s) ==
  /\ calls[s].step = "files"
  /\ Continue(s, "embed", [calls[s].got EXCEPT !.files = GetFiles(calls[s].got.upload)], <<>>)
  /\ Read(s)

\* The chunks of the files, then the message are embedded; an error of the
\* message is written and forgotten. The best of no chunks, or an embedding that
\* is not there, is a panic that closes the connection; a status that was written
\* before it is still in the buffer of the response and is never sent.
Embed(s) ==
  LET chunks == \E f \in calls[s].got.files : files[f].text
      Next(reply) == IF chunks THEN calls' = [calls EXCEPT ![s].step = "record", ![s].reply = reply]
                     ELSE Return(s, <<0>>)
  IN  /\ calls[s].step = "embed"
      /\ \/ Next(<<>>) /\ UNCHANGED faults
         \/ faults < MaxFaults /\ faults' = faults + 1 /\ (Next(<<500>>) \/ Return(s, <<0>>))
      /\ UNCHANGED tables

\* Faulty variant: the loop is not left.
PollOn(s) == calls[s].step = "poll" /\ calls[s].todo = <<"S">>
               /\ Continue(s, "poll", <<>>, <<"S">>) /\ Read(s)

\* FileConvert asks once a second until the conversion has succeeded; the
\* converter is external, and may fail.
Poll(s) == calls[s].step = "poll" /\ calls[s].todo = <<"S">> /\ Succeed(s) /\ Read(s)

Convert(s) ==
  /\ calls[s].step = "poll" /\ calls[s].todo = <<>>
  /\ \E status \in {"S", "F"} : Continue(s, "poll", <<>>, <<status>>)
  /\ Read(s)

---------------------------------------------------------------------------
\* The steps that have an error path of their own.
OwnErrors == {"idle", "done", "history", "rows", "qa", "upload"}

Serve(s) ==
  \/ CreateChat(s) \/ ListOfChats(s) \/ ListOfQAs(s) \/ Delete(s) \/ UpdateChatTitle(s)
  \/ Move(s) \/ ListUserChats(s) \/ ListQAsOfNext(s)
  \/ Count(s) \/ ListPage(s) \/ DeleteRows(s) \/ Statistic(s)
  \/ History(s) \/ Record(s)
  \/ ParseFile(s) \/ DiskFails(s) \/ WriteUploadFiles(s) \/ WriteUploadQA(s)
  \/ FindUpload(s) \/ FindFiles(s) \/ Embed(s) \/ Poll(s)
  \/ calls[s].step \notin OwnErrors /\ Fails(s)

\* Bound: time passes while something is left to do.
Tick ==
  /\ Busy
  /\ clock' \in {n \in Instants : n > clock}
  /\ UNCHANGED <<chats, qas, files, uploads, calls, faults>>

Next ==
  \/ \E s \in Slot, r \in Requests : Begin(s, r)
  \/ \E s \in Slot : Serve(s) \/ Convert(s)
  \/ \E q \in DOMAIN qas : Consume(q)
  \/ Tick

\* Every statement and every call of another service returns.
Spec == Init /\ [][Next]_vars /\ \A s \in Slot : WF_vars(Serve(s))

---------------------------------------------------------------------------
(* Properties.                                                             *)

Accepted(s) == calls[s].step = "done" /\ Head(calls[s].reply) \in 200 .. 299

Done(s, op) == Accepted(s) /\ Req(s).op = op

TypeOK ==
  /\ Sound([clock |-> clock, chats |-> chats, qas |-> qas, files |-> files, uploads |-> uploads])
  /\ \A s \in Slot :
       /\ calls[s].req \in Request \union {Idle.req} /\ calls[s].reply \in Seq(Nat)
       /\ calls[s].reply # <<>> => calls[s].step # "idle"
  /\ faults \in 0 .. MaxFaults

\* A reply that lists QAs shows those that were there from the start of the
\* request to its end, and none that was gone before it; the later first, or the
\* earlier for the v1 list, of QAs whose times were written by the same process.
RowsAreRegular(s, c, list) ==
  /\ {q \in calls[s].start.rows : There(q) /\ qas[q].chat = c /\ (Req(s).op = "ListChatQAs" =>
        qas[q].session = Req(s).session)} \subseteq ToSet(list)
  /\ ToSet(list) \intersect calls[s].start.gone.qas = {}
  /\ \A i, j \in DOMAIN list :
       i < j /\ (qas[list[i]].upload = None <=> qas[list[j]].upload = None) =>
         IF Req(s).op = "ListChatQAs" THEN qas[list[i]].happened <= qas[list[j]].happened
         ELSE qas[list[i]].happened >= qas[list[j]].happened

Mine(s, c) == IF Req(s).op = "ListChats" THEN chats[c].session = Req(s).session
              ELSE chats[c].user = Req(s).user

\* Whether another request may have given the chat away and back.
LoggedIn(s, c) == \E t \in Slot \ {s} : Req(t).op = "Login" /\ Req(t).chat = c

\* The chats of a user or a session are listed as if at one moment of the request,
\* though each has a statement of its own; a login lists the chat it has moved.
ListsAreRegular ==
  \A s \in Slot : Accepted(s) /\ Req(s).op \in Listings \ {"ListQAs", "Ask"} =>
    LET listed == {calls[s].got[i].chat : i \in DOMAIN calls[s].got}
    IN  /\ Req(s).op \in {"GetUserChats", "Login", "ListChats"} =>
             /\ {c \in calls[s].start.chats : Live(c) /\ Mine(s, c) /\ ~LoggedIn(s, c)
                   /\ Req(s).op # "Login"} \subseteq listed
             /\ listed \intersect calls[s].start.gone.chats = {}
             /\ \A c \in listed : Mine(s, c) \/ LoggedIn(s, c)
             /\ Req(s).op = "Login" /\ Live(Req(s).chat) /\ ~LoggedIn(s, Req(s).chat) =>
                  Req(s).chat \in listed
        /\ \A i \in DOMAIN calls[s].got :
             Req(s).op # "ListChats" => RowsAreRegular(s, calls[s].got[i].chat, calls[s].got[i].qas)

Window(s) == {q \in DOMAIN qas : From(Req(s).from, q) /\ To(Req(s).to, q)}

\* A walk through the pages meets every QA that was there when it began, though
\* rows are inserted meanwhile, unless rows were deleted, one of those inserted
\* among them, or two have one time.
WalkMissesNothing ==
  \A s \in Slot : Done(s, "ListQAs")
    /\ {q \in DOMAIN qas : qas[q].row = "deleted"} = calls[s].start.gone.qas
    /\ (\A p, q \in Window(s) : qas[p].at = qas[q].at => p = q) =>
    \A q \in calls[s].start.rows \intersect Window(s) :
      \E i \in DOMAIN calls[s].got : q \in ToSet(calls[s].got[i].qas)

\* A page does not reach past the total it states, unless a row came between the
\* two statements or the request names no last day: then the total is 0.
PageWithinTotal ==
  \A s \in Slot :
    Req(s).op = "ListQAs" /\ calls[s].start # None /\ Req(s).to # None
    /\ (\A q \in DOMAIN qas : qas[q].row = "asked"
          \/ q \in calls[s].start.rows \union calls[s].start.gone.qas) =>
    \A i \in DOMAIN calls[s].got :
      LET page == calls[s].got[i]
      IN  page.qas # <<>> => page.offset + Len(page.qas) <= page.total

\* A walk through the pages is as good as one list.
PagesAreRegular == WalkMissesNothing /\ PageWithinTotal

\* A question to the files of a chat is answered from all files of one upload,
\* however the two requests interleave, unless a row of that upload failed.
UploadsAreWhole ==
  \A s \in Slot : Req(s).op = "AskFile" /\ calls[s].step \in {"embed", "record"} =>
    LET got == calls[s].got
    IN  got.upload # 0 /\ ~uploads[got.upload].broken => got.files = uploads[got.upload].files

\* The tables are well-formed, and an upload is seen as a whole.
TablesAreSound == TypeOK /\ UploadsAreWhole

\* A status of success means that no statement failed, but for a history that
\* was not read, and that what was asked for is there: of an upload the rows of
\* its files and of its QA.
SuccessMeansDone ==
  \A s \in Slot : Accepted(s) =>
    /\ calls[s].failed => Req(s).op = "Ask"
    /\ Req(s).op = "DeleteChat" => ~Live(Req(s).chat)
    /\ Req(s).op = "Upload" =>
         /\ \A f \in calls[s].got.files : files[f].upload = calls[s].got.upload
         /\ \E q \in DOMAIN qas : qas[q].upload = calls[s].got.upload /\ qas[q].chat = Req(s).chat

\* The history of a question: the messages of an answered QA stand together, the
\* QAs from the first on for v1 and from the last on for v2, where an answer comes
\* before its question; of the session no answered QA is missing that was there
\* from the start, and for v2 only those beyond the limit are.
HistoryIsOrdered ==
  \A s \in Slot : Done(s, "Ask") =>
    LET h == calls[s].got
        shown == {h[i].qa : i \in DOMAIN h}
        v1 == Req(s).mode = "history"
        known == {q \in calls[s].start.answered : There(q) /\ qas[q].chat = Req(s).chat}
    IN  /\ \A i, j \in DOMAIN h : i < j =>
             IF h[i].qa = h[j].qa
             THEN /\ \A k \in i .. j : h[k].qa = h[i].qa
                  /\ IF v1 THEN h[i].part # "answer" /\ h[j].part # "question"
                     ELSE h[i].part = "answer" /\ h[j].part = "question"
             ELSE LET first == IF v1 THEN qas[h[i].qa] ELSE qas[h[j].qa]
                      last == IF v1 THEN qas[h[j].qa] ELSE qas[h[i].qa]
                  IN  first.happened <= last.happened
        /\ \A q \in shown : qas[q].chat = Req(s).chat /\ Answered(q)
                              /\ {"question", "answer"} \subseteq {h[i].part : i \in {j \in DOMAIN h : h[j].qa = q}}
        /\ Req(s).mode # "single" /\ ~calls[s].failed =>
             IF v1 THEN {q \in known : qas[q].session = Req(s).session} \subseteq shown
             ELSE Cardinality(shown) >= Min({HistoryLimit, Cardinality(known)})

\* What a request reads by several statements is of one moment, and in order.
ReadsAreRegular == ListsAreRegular /\ HistoryIsOrdered

\* The counts of statistics are those of their labels, and add up to the QAs of
\* the period: for days, and for months if the period goes from no day that a
\* month may lack to one that is not earlier in its month.
StatisticsAddUp ==
  \A s \in Slot : Done(s, "Statistics") =>
    LET stats == StatisticsOf(s)
        rows == ToSet(calls[s].got)
    IN  /\ SumFunction(stats.asked) = Cardinality(rows)
        /\ SumFunction(stats.tokens) = SumFunction([r \in rows |-> r.tokens])
        /\ Req(s).unit = "DAY" \/ MonthsAlign(Req(s).from, Req(s).to) =>
             /\ Len(stats.labels) = Len(stats.asked)
             /\ \A i \in DOMAIN stats.labels :
                  stats.asked[i] = Cardinality({r \in rows : Label(Req(s).unit, Day(r.at)) = stats.labels[i]})
        /\ \A i \in DOMAIN stats.asked :
             LET users == SumFunction([g \in DOMAIN stats.users |-> stats.users[g][i]])
             IN  users <= stats.asked[i] /\ (users = 0 <=> stats.asked[i] = 0)
        /\ stats.survey.good + stats.survey.bad \in {-2, 99, 100}

\* Every request ends, but for a conversion that does not succeed: nobody looks
\* at its failure, or at a client that has left.
RequestsEnd ==
  \A s \in Slot : calls[s].step # "idle" ~>
    calls[s].step = "done" \/ (calls[s].step = "poll" /\ calls[s].todo # <<"S">>)
=============================================================================
