----------------------------- MODULE BackendTables -----------------------------
(***************************************************************************)
(* The tables of the backend and the statements of its repositories        *)
(* (backend/repository), each of which MySQL executes as one step. Time is *)
(* counted in hours; created_at is the clock of the process that wrote the *)
(* row: the consumer writes Zone hours more than the backend, which writes *)
(* the rows of chats and uploads.                                          *)
(***************************************************************************)
EXTENDS Statistics

CONSTANTS
  None,  \* what a request leaves out, and the user of a chat without one
  Text   \* bound: the sessions, users, titles, job groups and votes

ASSUME TablesAssumption == None \notin Int /\ {"", "new"} \subseteq Text

Zone == 9

VARIABLES
  clock,    \* the hour
  chats,    \* the chats, in the order they were created
  qas,      \* the QAs, in the order they were asked or uploaded
  files,    \* the files on disk, in the order they were written
  uploads   \* the uploads: the files each is made of, whether a row of it failed

tables == <<clock, chats, qas, files, uploads>>

ChatRow == [at : Nat, updated : Nat, session : Text, user : Text \union {None},
            title : Text, deleted : BOOLEAN]

QARow == [chat : Nat, session : Text, jobGroup : Text, upload : Nat \union {None},
          happened : Nat, at : Nat, answered : BOOLEAN, refs : BOOLEAN, vote : Text, tokens : Nat,
          row : {"asked", "there", "deleted"}]

FileRow == [text : BOOLEAN, upload : Nat \union {None}]

Upload == [files : SUBSET Nat, broken : BOOLEAN]

\* Tables that requests leave behind: rows refer to what is there, no file is of two
\* uploads, and one that has a QA, which has no answer, has the rows of its files unless
\* one of them failed.
Sound(t) ==
  /\ t.clock \in Nat
  /\ t.chats \in Seq(ChatRow) /\ t.qas \in Seq(QARow)
  /\ t.files \in Seq(FileRow) /\ t.uploads \in Seq(Upload)
  /\ \A c \in DOMAIN t.chats : t.chats[c].at <= t.chats[c].updated /\ t.chats[c].updated <= t.clock
  /\ \A q \in DOMAIN t.qas :
       /\ t.qas[q].happened <= t.clock
       /\ t.qas[q].at = t.qas[q].happened + (IF t.qas[q].upload = None THEN Zone ELSE 0)
       /\ t.qas[q].upload # None =>
            /\ ~t.qas[q].answered /\ t.qas[q].upload \in DOMAIN t.uploads
            /\ LET upload == t.uploads[t.qas[q].upload]
               IN  upload.broken \/ \A f \in upload.files : t.files[f].upload = t.qas[q].upload
  /\ \A u \in DOMAIN t.uploads :
       /\ t.uploads[u].files \subseteq DOMAIN t.files
       /\ \A v \in DOMAIN t.uploads \ {u} : t.uploads[u].files \intersect t.uploads[v].files = {}
  /\ \A f \in DOMAIN t.files : t.files[f].upload # None =>
       t.files[f].upload \in DOMAIN t.uploads /\ f \in t.uploads[t.files[f].upload].files

Live(c) == c \in DOMAIN chats /\ ~chats[c].deleted

\* A QA is asked, there once the consumer has inserted its row, then deleted.
There(q) == qas[q].row = "there"

Rows == {q \in DOMAIN qas : There(q)}

\* The orders of S by at, in which those of the same time come anyhow.
Orders(S, at) ==
  LET orders[T \in SUBSET S] ==
        IF T = {} THEN {<<>>}
        ELSE UNION {{<<x>> \o s : s \in orders[T \ {x}]} :
                    x \in {p \in T : \A q \in T : at[p] <= at[q]}}
  IN  orders[S]

\* Rows are sorted by created_at.
Ascending(S) == Orders(S, [q \in S |-> qas[q].at])

Descending(S) == Orders(S, [q \in S |-> -qas[q].at])

ChatsDescending(S) == Orders(S, [c \in S |-> -chats[c].at])

First(n, s) == SubSeq(s, 1, Min({n, Len(s)}))

---------------------------------------------------------------------------
(* Chats.                                                                  *)

NewChat(session, user) ==
  chats' = Append(chats, [at |-> clock, updated |-> clock, session |-> session, user |-> user,
                          title |-> "new", deleted |-> FALSE])

ListChats(session) == ChatsDescending({c \in DOMAIN chats : Live(c) /\ chats[c].session = session})

ListChatsUser(user) == ChatsDescending({c \in DOMAIN chats : Live(c) /\ chats[c].user = user})

\* An UPDATE affects the rows it changes: not one whose values, the time of the
\* update among them, are what they were.
Affects(c, column, value) ==
  Live(c) /\ (chats[c][column] # value \/ chats[c].updated # clock)

UpdateChat(c, column, value) ==
  chats' = [chats EXCEPT ![c] = [@ EXCEPT !.updated = clock, ![column] = value]]

DeleteChat(c) == chats' = [chats EXCEPT ![c].deleted = TRUE]

---------------------------------------------------------------------------
(* QAs.                                                                    *)

ListChatIdQAs(c) == Descending({q \in Rows : qas[q].chat = c})

\* Uploads have no question, and no answer.
Answered(q) == qas[q].answered

ListChatIdQAsLimit(c, limit) ==
  {First(limit, s) : s \in Descending({q \in Rows : qas[q].chat = c /\ Answered(q)})}

ListChatQAs(session, c) == Ascending({q \in Rows : qas[q].session = session /\ qas[q].chat = c})

From(from, q) == from # None => qas[q].at >= 24 * from

To(to, q) == to # None => qas[q].at < 24 * (to + 1)

Page(from, to, offset, limit) ==
  {First(limit, SubSeq(s, offset + 1, Len(s)))
   : s \in Descending({q \in Rows : From(from, q) /\ To(to, q)})}

\* Without a last day the count is of the rows up to a time of zero.
CountQAs(from, to) ==
  IF to = None THEN 0 ELSE Cardinality({q \in Rows : From(from, q) /\ To(to, q)})

ListQAs(from, to) ==
  {[id |-> q, at |-> qas[q].at, session |-> qas[q].session, jobGroup |-> qas[q].jobGroup,
    vote |-> qas[q].vote, tokens |-> qas[q].tokens] : q \in {r \in Rows : From(from, r) /\ To(to, r)}}

DeleteQAs(ids) == qas' = [q \in DOMAIN qas |-> IF q \in ids /\ There(q)
                                               THEN [qas[q] EXCEPT !.row = "deleted"] ELSE qas[q]]

\* What a completion records; the row comes by way of the consumer.
QuestionCreated(c, session, jobGroup) ==
  qas' = Append(qas, [chat |-> c, session |-> session, jobGroup |-> jobGroup, upload |-> None,
                      happened |-> clock, at |-> clock + Zone, answered |-> FALSE, refs |-> FALSE,
                      vote |-> "", tokens |-> 0, row |-> "asked"])

\* WriteUploadQA.
UploadQA(c, upload) ==
  qas' = Append(qas, [chat |-> c, session |-> "", jobGroup |-> "", upload |-> upload,
                      happened |-> clock, at |-> clock, answered |-> FALSE, refs |-> FALSE,
                      vote |-> "", tokens |-> 0, row |-> "there"])

---------------------------------------------------------------------------
(* Files.                                                                  *)

\* The latest upload of the chat, None without one.
GetUploadId(c) ==
  LET S == {q \in Rows : qas[q].chat = c /\ qas[q].upload # None}
  IN  IF S = {} THEN {None} ELSE {qas[s[1]].upload : s \in Descending(S)}

GetFiles(upload) == {f \in DOMAIN files : files[f].upload = upload}

\* A file is written to disk first: whether it has text.
WriteFile(text) == files' = Append(files, [text |-> text, upload |-> None])

CreateFile(f, upload) == files' = [files EXCEPT ![f].upload = upload]
=============================================================================
