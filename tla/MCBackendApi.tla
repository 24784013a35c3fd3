------------------------------ MODULE MCBackendApi -----------------------------
(***************************************************************************)
(* Instances of BackendApi for TLC. The hours are 10 o'clock of the 31st   *)
(* of January and noon of the 10th of February.                            *)
(***************************************************************************)
EXTENDS BackendApi

JanuaryEnd == 30
MCInstants == {24 * JanuaryEnd + 10, 24 * 40 + 12}

Chat(at, session, user, deleted) ==
  [at |-> at, updated |-> at, session |-> session, user |-> user, title |-> "new", deleted |-> deleted]

QA(chat, session, at, answered, row) ==
  [chat |-> chat, session |-> session, jobGroup |-> IF answered THEN "press" ELSE "", upload |-> None,
   happened |-> at, at |-> at + Zone, answered |-> answered, refs |-> answered,
   vote |-> IF answered THEN "up" ELSE "", tokens |-> IF answered THEN 3 ELSE 1, row |-> row]

UploadRow(chat, at, upload) ==
  [QA(chat, "", at, FALSE, "there") EXCEPT !.at = at, !.upload = upload]

Morning == 24 * JanuaryEnd

\* Two chats of a session, one of them a user's; an answered question, an upload
\* and a question of another session that waits for the consumer.
Used ==
  [clock |-> Morning + 10,
   chats |-> <<Chat(Morning + 1, "s1", None, FALSE), Chat(Morning + 2, "s1", "u1", FALSE)>>,
   qas |-> <<QA(1, "s1", Morning + 3, TRUE, "there"), UploadRow(1, Morning + 4, 1),
             QA(1, "s2", Morning + 5, FALSE, "asked")>>,
   files |-> <<[text |-> TRUE, upload |-> 1]>>,
   uploads |-> <<[files |-> {1}, broken |-> FALSE]>>]

\* A deleted chat and a deleted QA, and two QAs of one second.
Deleted ==
  [clock |-> Morning + 10,
   chats |-> <<Chat(Morning, "s1", "u1", TRUE), Chat(Morning + 1, "s1", "u2", FALSE)>>,
   qas |-> <<QA(2, "s1", Morning + 3, TRUE, "deleted"), QA(2, "s1", Morning + 4, TRUE, "there"),
             QA(2, "s1", Morning + 4, TRUE, "there")>>,
   files |-> <<>>, uploads |-> <<>>]

MCInitialTables == {Used, Deleted}

Op(op) == [op |-> op, malformed |-> FALSE]

Bad(op) == [op |-> op, malformed |-> TRUE]

MCRequests ==
  {Op("CreateChat") @@ [session |-> "s1"], Op("ListChats") @@ [session |-> "s1"], Op("DeleteChat") @@ [chat |-> 2],
   Op("UpdateChatTitle") @@ [chat |-> 2, title |-> "new"],
   Op("UpdateChatTitle") @@ [chat |-> 2, title |-> ""],
   Op("ListChatQAs") @@ [session |-> "s1", chat |-> 1], Op("GetQAs") @@ [chat |-> 1],
   Op("CreateUserChat") @@ [user |-> "u1"], Bad("CreateUserChat") @@ [user |-> "u1"],
   Op("GetUserChats") @@ [user |-> "u1"], Op("GetUserChats") @@ [user |-> ""],
   Op("Login") @@ [chat |-> 1, user |-> "u1"], Op("Login") @@ [chat |-> 2, user |-> "u2"],
   Bad("Login") @@ [chat |-> 1, user |-> "u1"],
   Op("DeleteQAs") @@ [ids |-> {1}], Op("DeleteQAs") @@ [ids |-> {2, 3}],
   Op("ListQAs") @@ [from |-> None, to |-> JanuaryEnd, limit |-> 2],
   Op("ListQAs") @@ [from |-> JanuaryEnd, to |-> None, limit |-> 1],
   Op("Statistics") @@ [unit |-> "DAY", from |-> JanuaryEnd, to |-> 41],
   Op("Statistics") @@ [unit |-> "MONTH", from |-> 0, to |-> 59],
   Op("Statistics") @@ [unit |-> "MONTH", from |-> JanuaryEnd, to |-> 41],
   Op("Statistics") @@ [unit |-> "MONTH", from |-> 2, to |-> 1],
   Op("Ask") @@ [mode |-> "single", chat |-> 1, session |-> "", jobGroup |-> ""],
   Op("Ask") @@ [mode |-> "history", chat |-> 1, session |-> "s1", jobGroup |-> "press"],
   Op("Ask") @@ [mode |-> "multi", chat |-> 1, session |-> "s1", jobGroup |-> ""],
   Op("AskFile") @@ [chat |-> 1, session |-> "s1", jobGroup |-> ""],
   Op("AskFile") @@ [chat |-> 2, session |-> "s1", jobGroup |-> ""],
   Op("Upload") @@ [chat |-> 1, files |-> <<TRUE, FALSE>>], Op("Upload") @@ [chat |-> 2, files |-> <<FALSE>>],
   Op("Upload") @@ [chat |-> 2, files |-> <<>>], Op("FileUpload") @@ [files |-> <<TRUE>>],
   Op("Convert")}
=============================================================================
