--------------------------- MODULE BackendApi_proofs ---------------------------
(***************************************************************************)
(* Theorems about the REST handlers of the backend: the tables stay sound, *)
(* a question to files has all files of the upload it found, a success is  *)
(* true, pages miss nothing, what is read by several statements is as if   *)
(* read at one moment, and statistics add up, for any number of requests,  *)
(* any sound tables and any failures.                                      *)
(*                                                                         *)
(* The inductive invariant IInv says of each call what it has in hand: the *)
(* files it has written are of no upload yet (ParseOK); an upload that is  *)
(* being made has no QA, and rows for all files but those left (UploadOK); *)
(* the upload that a question found has a QA, hence its rows (FilesOK);    *)
(* what failed is not a success (CallOK). No two calls have the same file  *)
(* or upload in hand (Apart). Each step of a call is shown to change the   *)
(* tables only by what Evolve allows, which the other calls survive.       *)
(*                                                                         *)
(* A walk through the pages is about places: the place of a row in an      *)
(* order is the number of rows that are not behind it (PlaceInOrder). A    *)
(* row of the start that was not met yet has its place beyond the offset   *)
(* of the next page (WalksOK), where an insertion can only move it back.   *)
(*                                                                         *)
(* Lists and histories: ReadsOK says of each call what it has read so far, *)
(* that the chats and rows that are there all the time are among it        *)
(* (ListsOK, ShownOK) and that each question is followed by its answer     *)
(* (TaleOK). ReadStays: the steps of others leave that true. A history is  *)
(* a concatenation of blocks, of which only the running sums of their      *)
(* lengths are needed.                                                     *)
(*                                                                         *)
(* Statistics: StatsOK says of each call that what it has read is of its   *)
(* period; the rest is about numbers. The rows of the buckets are parts of *)
(* the rows (PartsOfRows), so sums over them are sums over the rows        *)
(* (TotalOfParts), and the labels that are counted up from the first date  *)
(* are a run of numbers (LabelsRun) by the calendar (AddMonthIs).          *)
(*                                                                         *)
(* ORDER BY is a recursive function: that it gives the orders of a set     *)
(* (OrdersAre) is proved by a minimal counterexample, as no induction is   *)
(* available.                                                              *)
(***************************************************************************)
EXTENDS BackendApi, FiniteSetTheorems, SequenceTheorems, WellFoundedInduction, TLAPS

Tables == [clock |-> clock, chats |-> chats, qas |-> qas, files |-> files, uploads |-> uploads]

LEMMA NoneIsNoNumber == None \notin Nat
<1>1. None \notin Int
  BY TablesAssumption
<1>2. Nat \subseteq Int
  OBVIOUS
<1> QED
  BY <1>1, <1>2

LEMMA Texts == "" \in Text /\ "new" \in Text
  BY TablesAssumption

\* Whose fields a request has.
LEMMA RequestFields ==
  ASSUME NEW r \in Request
  PROVE  /\ r = [f \in DOMAIN r |-> r[f]] /\ {"op", "malformed"} \subseteq DOMAIN r
         /\ r.malformed \in BOOLEAN
         /\ r.op \in {"Ask", "AskFile"} => r.chat \in Nat /\ r.session \in Text /\ r.jobGroup \in Text
         /\ r.op = "Upload" => r.chat \in Nat
         /\ r.op \in {"Upload", "FileUpload"} => r.files \in Seq(BOOLEAN)
         /\ r.op \in {"CreateChat", "ListChats"} => r.session \in Text
         /\ r.op \in {"CreateUserChat", "GetUserChats", "Login"} => r.user \in Text
         /\ r.op = "UpdateChatTitle" => r.title \in Text
         /\ r.op = "ListQAs" => /\ r.from \in Nat \union {None} /\ r.to \in Nat \union {None}
                                /\ r.limit \in Nat \ {0}
  BY DEF Request

LEMMA DecodedType ==
  ASSUME NEW r \in Request
  PROVE  Decoded(r) \in Request /\ Decoded(r).op = r.op /\ Decoded(r).malformed = r.malformed
<1>1. CASE r.op = "CreateUserChat"
  <2>1. r \in [op : {"CreateUserChat", "GetUserChats"}, malformed : BOOLEAN, user : Text]
    BY <1>1 DEF Request
  <2> DEFINE d == [r EXCEPT !.user = ""]
  <2>2. /\ DOMAIN d = {"op", "malformed", "user"} /\ d = [f \in DOMAIN d |-> d[f]]
        /\ d["op"] = r.op /\ d["malformed"] = r.malformed /\ d["user"] = ""
        /\ r.op \in {"CreateUserChat", "GetUserChats"} /\ r.malformed \in BOOLEAN
    BY <2>1
  <2>3. [r EXCEPT !.user = ""] \in [op : {"CreateUserChat", "GetUserChats"}, malformed : BOOLEAN, user : Text]
    <3> HIDE DEF d
    <3>1. d \in [op : {"CreateUserChat", "GetUserChats"}, malformed : BOOLEAN, user : Text]
      BY <2>2, TablesAssumption
    <3> QED
      BY <3>1 DEF d
  <2> QED
    BY <1>1, <2>1, <2>2, <2>3 DEF Request, Decoded
<1>2. CASE r.op = "Login"
  <2>1. r \in [op : {"Login"}, malformed : BOOLEAN, chat : Nat \union {None}, user : Text]
    BY <1>2 DEF Request
  <2> DEFINE d == [r EXCEPT !.user = "", !.chat = None]
  <2>2. /\ DOMAIN d = {"op", "malformed", "chat", "user"} /\ d = [f \in DOMAIN d |-> d[f]]
        /\ d["op"] = r.op /\ d["malformed"] = r.malformed /\ d["user"] = "" /\ d["chat"] = None
        /\ r.op \in {"Login"} /\ r.malformed \in BOOLEAN
    BY <2>1
  <2>3. [r EXCEPT !.user = "", !.chat = None]
          \in [op : {"Login"}, malformed : BOOLEAN, chat : Nat \union {None}, user : Text]
    <3> HIDE DEF d
    <3>1. d \in [op : {"Login"}, malformed : BOOLEAN, chat : Nat \union {None}, user : Text]
      BY <2>2, TablesAssumption
    <3> QED
      BY <3>1 DEF d
  <2> QED
    BY <1>2, <2>2, <2>3 DEF Request, Decoded
<1> QED
  BY <1>1, <1>2 DEF Decoded

---------------------------------------------------------------------------
(* What ORDER BY gives: the orders of a set, without recursion.            *)

Sorted(S, at) ==
  {s \in [1 .. Cardinality(S) -> S] :
     /\ \A i, j \in DOMAIN s : i < j => s[i] # s[j] /\ at[s[i]] <= at[s[j]]
     /\ \A x \in S : \E i \in DOMAIN s : s[i] = x}

Least(T, at) == {p \in T : \A q \in T : at[p] <= at[q]}

LEMMA SequenceIs ==
  ASSUME NEW n \in Nat, NEW T, NEW f
  PROVE  f \in [1 .. n -> T] <=> f \in Seq(T) /\ Len(f) = n
  OBVIOUS

FirstThen(x, T) == {<<x>> \o s : s \in T}

LEMMA SortedOfNone == ASSUME NEW at PROVE Sorted({}, at) = {<<>>}
<1>1. Cardinality({}) = 0
  BY FS_EmptySet
<1>2. [1 .. 0 -> {}] = {<<>>}
  <2>1. \A f \in [1 .. 0 -> {}] : f = <<>>
    BY SequenceIs
  <2>2. <<>> \in [1 .. 0 -> {}]
    OBVIOUS
  <2> QED
    BY <2>1, <2>2
<1> QED
  BY <1>1, <1>2 DEF Sorted

\* A least element and an order of the rest are an order.
LEMMA SortedFromLeast ==
  ASSUME NEW T, IsFiniteSet(T), NEW at \in [T -> Int], NEW x \in Least(T, at),
         NEW s \in Sorted(T \ {x}, at)
  PROVE  <<x>> \o s \in Sorted(T, at)
<1> DEFINE n == Cardinality(T)
           w == <<x>> \o s
<1>1. n \in Nat \ {0} /\ Cardinality(T \ {x}) = n - 1
  BY FS_RemoveElement, FS_CardinalityType, FS_EmptySet DEF Least
<1>2. s \in [1 .. n - 1 -> T \ {x}] /\ s \in Seq(T \ {x}) /\ Len(s) = n - 1 /\ DOMAIN s = 1 .. n - 1
  <2>1. s \in [1 .. n - 1 -> T \ {x}]
    BY <1>1 DEF Sorted
  <2> QED
    BY <1>1, <2>1, SequenceIs
<1>3. Len(w) = n /\ DOMAIN w = 1 .. n /\ w[1] = x /\ \A i \in 2 .. n : w[i] = s[i - 1] /\ i - 1 \in DOMAIN s
  BY <1>1, <1>2
<1>4. x \in T
  BY DEF Least
<1>5. w \in [1 .. n -> T]
  <2>1. w \in Seq(T)
    BY <1>2, <1>4
  <2> QED
    BY <1>1, <1>3, <2>1, SequenceIs
<1>6. ASSUME NEW i \in 1 .. n, NEW j \in 1 .. n, i < j
      PROVE  w[i] # w[j] /\ at[w[i]] <= at[w[j]]
  <2>1. w[j] = s[j - 1] /\ j - 1 \in DOMAIN s /\ s[j - 1] \in T \ {x}
    BY <1>1, <1>2, <1>3, <1>6
  <2>2. CASE i = 1
    BY <1>3, <2>1, <2>2 DEF Least
  <2>3. CASE i # 1
    <3>1. w[i] = s[i - 1] /\ i - 1 \in DOMAIN s /\ i - 1 < j - 1
      BY <1>1, <1>3, <1>6, <2>3
    <3> QED
      BY <2>1, <3>1 DEF Sorted
  <2> QED
    BY <2>2, <2>3
<1>7. ASSUME NEW y \in T
      PROVE  \E i \in 1 .. n : w[i] = y
  <2>1. CASE y = x
    BY <1>1, <1>3, <2>1
  <2>2. CASE y # x
    <3>1. PICK i \in DOMAIN s : s[i] = y
      BY <2>2 DEF Sorted
    <3>2. i + 1 \in 2 .. n /\ w[i + 1] = s[i]
      BY <1>1, <1>2, <1>3, <3>1
    <3> QED
      BY <1>1, <3>1, <3>2
  <2> QED
    BY <2>1, <2>2
<1> HIDE DEF w, n
<1>8. w \in Sorted(T, at)
  BY <1>3, <1>5, <1>6, <1>7 DEF Sorted, n
<1> QED
  BY <1>8 DEF w

Begins(T, at, w) == \E x \in Least(T, at) : \E s \in Sorted(T \ {x}, at) : w = <<x>> \o s

\* Every order begins with a least element, and goes on as an order of the rest.
LEMMA SortedToLeast ==
  ASSUME NEW T, IsFiniteSet(T), T # {}, NEW at \in [T -> Int], NEW w \in Sorted(T, at)
  PROVE  Begins(T, at, w)
<1> DEFINE n == Cardinality(T)
           x == w[1]
           s == Tail(w)
<1>1. n \in Nat \ {0}
  BY FS_CardinalityType, FS_EmptySet
<1>2. w \in [1 .. n -> T] /\ w \in Seq(T) /\ Len(w) = n /\ DOMAIN w = 1 .. n
  BY <1>1 DEF Sorted
<1>3. x \in T /\ 1 \in DOMAIN w
  BY <1>1, <1>2
<1>4. x \in Least(T, at)
  <2>1. ASSUME NEW q \in T PROVE at[x] <= at[q]
    <3>1. PICK i \in DOMAIN w : w[i] = q
      BY DEF Sorted
    <3>2. CASE i = 1
      BY <3>1, <3>2, <1>3
    <3>3. CASE i > 1
      BY <1>3, <3>1, <3>3 DEF Sorted
    <3> QED
      BY <1>2, <3>2, <3>3
  <2> QED
    BY <1>3, <2>1 DEF Least
<1>5. Cardinality(T \ {x}) = n - 1
  BY <1>3, FS_RemoveElement
<1>6. s \in Seq(T) /\ Len(s) = n - 1 /\ DOMAIN s = 1 .. n - 1
      /\ \A i \in 1 .. n - 1 : s[i] = w[i + 1] /\ i + 1 \in DOMAIN w
  BY <1>1, <1>2
<1>7. \A i \in 1 .. n - 1 : s[i] \in T \ {x}
  <2>1. ASSUME NEW i \in 1 .. n - 1 PROVE s[i] \in T \ {x}
    <3>1. s[i] = w[i + 1] /\ i + 1 \in DOMAIN w /\ 1 < i + 1
      BY <1>1, <1>6
    <3>2. w[1] # w[i + 1]
      BY <1>3, <3>1 DEF Sorted
    <3> QED
      BY <1>2, <3>1, <3>2
  <2> QED
    BY <2>1
<1>8. s \in [1 .. n - 1 -> T \ {x}]
  <2>1. n - 1 \in Nat
    BY <1>1
  <2>2. s \in [1 .. n - 1 -> T]
    BY <1>6, <2>1, SequenceIs
  <2> QED
    BY <1>7, <2>2
<1>9. \A i, j \in 1 .. n - 1 : i < j => s[i] # s[j] /\ at[s[i]] <= at[s[j]]
  <2>1. ASSUME NEW i \in 1 .. n - 1, NEW j \in 1 .. n - 1, i < j
        PROVE  s[i] # s[j] /\ at[s[i]] <= at[s[j]]
    <3>1. i + 1 \in DOMAIN w /\ j + 1 \in DOMAIN w /\ i + 1 < j + 1 /\ s[i] = w[i + 1] /\ s[j] = w[j + 1]
      BY <1>1, <1>6, <2>1
    <3> QED
      BY <3>1 DEF Sorted
  <2> QED
    BY <2>1
<1>10. \A y \in T \ {x} : \E i \in 1 .. n - 1 : s[i] = y
  <2>1. ASSUME NEW y \in T \ {x} PROVE \E i \in 1 .. n - 1 : s[i] = y
    <3>1. PICK i \in DOMAIN w : w[i] = y
      BY DEF Sorted
    <3>2. i # 1
      BY <3>1
    <3>3. i - 1 \in 1 .. n - 1 /\ s[i - 1] = w[i]
      BY <1>1, <1>2, <1>6, <3>2
    <3> QED
      BY <3>1, <3>3
  <2> QED
    BY <2>1
<1>11. w = <<x>> \o s
  BY <1>1, <1>2
<1> HIDE DEF n, x, s
<1>12. s \in Sorted(T \ {x}, at)
  BY <1>5, <1>6, <1>8, <1>9, <1>10 DEF Sorted
<1> QED
  BY <1>4, <1>11, <1>12 DEF Begins

\* The recursion computes the orders, as minimal counterexamples show.
LEMMA OrdersAre ==
  ASSUME NEW S, IsFiniteSet(S), NEW at \in [S -> Int]
  PROVE  Orders(S, at) = Sorted(S, at)
<1> DEFINE Rec(f) ==
      [T \in SUBSET S |->
         IF T = {} THEN {<<>>}
         ELSE UNION {{<<x>> \o s : s \in f[T \ {x}]} : x \in {p \in T : \A q \in T : at[p] <= at[q]}}]
    orders == CHOOSE f : f = Rec(f)
    W == [T \in SUBSET S |-> Sorted(T, at)]
<1>1. ASSUME NEW T \in SUBSET S, T # {}
      PROVE  Sorted(T, at) = UNION {FirstThen(x, Sorted(T \ {x}, at)) : x \in Least(T, at)}
  <2> DEFINE r == [q \in T |-> at[q]]
  <2>1. IsFiniteSet(T) /\ r \in [T -> Int]
    BY FS_Subset
  <2>2. Least(T, at) = Least(T, r)
    BY DEF Least
  <2>3. \A U \in SUBSET T : Sorted(U, at) = Sorted(U, r)
    BY DEF Sorted
  <2> HIDE DEF r
  <2>4. ASSUME NEW w \in Sorted(T, at)
        PROVE  \E x \in Least(T, at) : w \in FirstThen(x, Sorted(T \ {x}, at))
    <3>1. w \in Sorted(T, r)
      BY <2>3, <2>4
    <3>2. PICK x \in Least(T, r) : \E s \in Sorted(T \ {x}, r) : w = <<x>> \o s
      <4>1. Begins(T, r, w)
        BY <1>1, <2>1, <3>1, SortedToLeast
      <4> QED
        BY <4>1 DEF Begins
    <3>3. w \in FirstThen(x, Sorted(T \ {x}, at))
      BY <2>3, <3>2 DEF FirstThen
    <3> QED
      BY <2>2, <3>2, <3>3
  <2>5. ASSUME NEW x \in Least(T, at), NEW s \in Sorted(T \ {x}, at)
        PROVE  <<x>> \o s \in Sorted(T, at)
    <3>1. s \in Sorted(T \ {x}, r) /\ x \in Least(T, r)
      BY <2>2, <2>3
    <3>2. <<x>> \o s \in Sorted(T, r)
      BY <2>1, <3>1, SortedFromLeast
    <3> QED
      BY <2>3, <3>2
  <2>6. \A x \in Least(T, at) : FirstThen(x, Sorted(T \ {x}, at)) \subseteq Sorted(T, at)
    BY <2>5 DEF FirstThen
  <2> QED
    BY <2>4, <2>6
<1>2. W = Rec(W)
  <2>1. ASSUME NEW T \in SUBSET S
        PROVE  W[T] = IF T = {} THEN {<<>>}
                      ELSE UNION {FirstThen(x, W[T \ {x}]) : x \in Least(T, at)}
    <3>1. CASE T = {}
      BY <3>1, SortedOfNone
    <3>2. CASE T # {}
      <4>1. \A x : W[T \ {x}] = Sorted(T \ {x}, at)
        OBVIOUS
      <4>2. W[T] = Sorted(T, at)
        OBVIOUS
      <4> HIDE DEF W
      <4>3. UNION {FirstThen(x, Sorted(T \ {x}, at)) : x \in Least(T, at)}
              = UNION {FirstThen(x, W[T \ {x}]) : x \in Least(T, at)}
        BY <4>1, Zenon
      <4> QED
        BY <1>1, <3>2, <4>2, <4>3
    <3> QED
      BY <3>1, <3>2
  <2> QED
    BY <2>1 DEF Least, FirstThen
<1>3. orders = Rec(orders)
  BY <1>2
<1>4. Orders(S, at) = orders[S]
  BY DEF Orders
<1>5. \A T \in SUBSET S : orders[T] = IF T = {} THEN {<<>>}
        ELSE UNION {FirstThen(x, orders[T \ {x}]) : x \in Least(T, at)}
  BY <1>3 DEF Least, FirstThen
<1> HIDE DEF orders, W
<1>6. ASSUME orders[S] # Sorted(S, at)
      PROVE  FALSE
  <2> DEFINE Bad == {T \in SUBSET S : orders[T] # Sorted(T, at)}
  <2>1. Bad \subseteq FiniteSubsetsOf(S) /\ S \in Bad
    BY <1>6, FS_FiniteSubsetsOfFinite
  <2>2. PICK T \in Bad : \A U \in Bad : ~ (<<U, T>> \in StrictSubsetOrdering(S))
    BY <2>1, FS_StrictSubsetOrderingWellFounded, WFMin
  <2>3. ASSUME NEW x \in T
        PROVE  orders[T \ {x}] = Sorted(T \ {x}, at)
    <3>1. <<T \ {x}, T>> \in StrictSubsetOrdering(S)
      BY <2>3 DEF StrictSubsetOrdering
    <3> QED
      BY <2>2, <3>1
  <2>4. CASE T = {}
    BY <1>5, <2>2, <2>4, SortedOfNone
  <2>5. CASE T # {}
    <3>1. orders[T] = UNION {FirstThen(x, orders[T \ {x}]) : x \in Least(T, at)}
      BY <1>5, <2>5
    <3>2. \A x \in Least(T, at) : orders[T \ {x}] = Sorted(T \ {x}, at)
      BY <2>3 DEF Least
    <3>3. UNION {FirstThen(x, orders[T \ {x}]) : x \in Least(T, at)}
            = UNION {FirstThen(x, Sorted(T \ {x}, at)) : x \in Least(T, at)}
      BY <3>2, Zenon
    <3>4. orders[T] = Sorted(T, at)
      BY <1>1, <2>5, <3>1, <3>3
    <3> QED
      BY <2>2, <3>4
  <2> QED
    BY <2>4, <2>5
<1> QED
  BY <1>4, <1>6

---------------------------------------------------------------------------
(* The invariant.                                                          *)

CallIs(req, step, reply, failed, got, todo, start) ==
  [req |-> req, step |-> step, reply |-> reply, failed |-> failed, got |-> got, todo |-> todo,
   start |-> start]

IsCall(c) == c = CallIs(c.req, c.step, c.reply, c.failed, c.got, c.todo, c.start)

\* The call c, gone on.
GoneOn(c, step, reply, failed, got, todo) == CallIs(c.req, step, reply, failed, got, todo, c.start)

StepFits(op, step) ==
  /\ step = "idle" <=> op = "none"
  /\ step \in {"list", "qas"} => op \in {"GetUserChats", "Login"}
  /\ step = "move" => op = "Login"
  /\ step \in {"count", "page"} => op = "ListQAs"
  /\ step = "history" => op = "Ask"
  /\ step = "record" => op \in {"Ask", "AskFile"}
  /\ step = "parse" => op \in {"Upload", "FileUpload"}
  /\ step \in {"rows", "qa"} => op = "Upload"
  /\ step \in {"upload", "files", "embed"} => op = "AskFile"
  /\ step = "poll" => op = "Convert"

IsSuccess(c) == c.step = "done" /\ Head(c.reply) \in 200 .. 299

\* What has failed is not a success any more.
CallOK(c) ==
  /\ IsCall(c)
  /\ c.req \in Request \union {Idle.req}
  /\ c.reply \in Seq(Nat) /\ c.failed \in BOOLEAN
  /\ StepFits(c.req.op, c.step)
  /\ c.step = "idle" => c.reply = <<>>
  /\ c.step \notin {"idle", "done"} =>
       /\ c.reply # <<>> => Head(c.reply) \notin 200 .. 299
       /\ c.failed => c.req.op = "Ask" \/ (c.step = "qa" /\ c.reply # <<>>)
  /\ c.step = "done" => c.reply # <<>> /\ (IsSuccess(c) /\ c.failed => c.req.op = "Ask")

\* The files a call has written are of no upload before it has made one.
ParseOK(c, qs, fs, us) ==
  c.step = "parse" =>
    /\ c.got \in Seq(DOMAIN fs) /\ c.todo \in Seq(BOOLEAN)
    /\ \A i \in DOMAIN c.got : \A u \in DOMAIN us : c.got[i] \notin us[u].files
    /\ c.reply = <<>> /\ ~c.failed

Handle(c) == c.got = [upload |-> c.got.upload, files |-> c.got.files] /\ c.got.upload \in Nat

\* The upload of the call, all of whose files have rows.
Complete(c, fs) == \A f \in c.got.files : fs[f].upload = c.got.upload

\* An upload that is made has no QA yet, and rows for all files but those left.
UploadOK(c, qs, fs, us) ==
  /\ c.step \in {"rows", "qa"} =>
       /\ Handle(c) /\ c.got.upload \in DOMAIN us /\ us[c.got.upload].files = c.got.files
       /\ \A q \in DOMAIN qs : qs[q].upload # c.got.upload
  /\ c.step = "rows" =>
       /\ c.todo \in Seq(c.got.files) /\ c.todo # <<>>
       /\ \A f \in c.got.files : fs[f].upload = c.got.upload \/ \E i \in DOMAIN c.todo : c.todo[i] = f
       /\ c.reply = <<>> /\ ~c.failed
  /\ c.step = "qa" => IF c.failed THEN us[c.got.upload].broken /\ c.reply = <<500>>
                      ELSE c.reply = <<>> /\ Complete(c, fs)
  /\ IsSuccess(c) /\ c.req.op = "Upload" =>
       /\ Handle(c) /\ c.got.upload \in DOMAIN us /\ us[c.got.upload].files = c.got.files
       /\ Complete(c, fs)
       /\ \E q \in DOMAIN qs : qs[q].upload = c.got.upload /\ qs[q].chat = c.req.chat

\* The upload a question is about has a QA, so all rows of its files were there when
\* they were read.
FilesOK(c, qs, fs, us) ==
  /\ c.step \in {"files", "embed"} \/ (c.step = "record" /\ c.req.op = "AskFile") => Handle(c)
  /\ c.step = "files" => c.got.upload = 0 \/ \E q \in DOMAIN qs : qs[q].upload = c.got.upload
  /\ c.step \in {"embed", "record"} /\ c.req.op = "AskFile" /\ c.got.upload # 0 =>
       /\ c.got.upload \in DOMAIN us
       /\ us[c.got.upload].broken \/ c.got.files = us[c.got.upload].files

DeleteOK(c, cs) ==
  IsSuccess(c) /\ c.req.op = "DeleteChat" => c.req.chat \in DOMAIN cs /\ cs[c.req.chat].deleted

\* No two calls have the same file or upload in hand.
Apart(c, d) ==
  /\ c.step = "parse" /\ d.step = "parse" =>
       \A i \in DOMAIN c.got, j \in DOMAIN d.got : c.got[i] # d.got[j]
  /\ c.step \in {"rows", "qa"} /\ d.step \in {"rows", "qa"} => c.got.upload # d.got.upload

OneOK(c, cs, qs, fs, us) ==
  /\ CallOK(c) /\ ParseOK(c, qs, fs, us) /\ UploadOK(c, qs, fs, us) /\ FilesOK(c, qs, fs, us)
  /\ DeleteOK(c, cs)

IInv ==
  /\ Sound(Tables) /\ faults \in 0 .. MaxFaults
  /\ calls = [s \in Slot |-> calls[s]]
  /\ \A s \in Slot : OneOK(calls[s], chats, qas, files, uploads)
  /\ \A s, t \in Slot : s # t => Apart(calls[s], calls[t])

Calls == calls = [s \in Slot |-> calls[s]]

LEMMA SetCall ==
  ASSUME Calls, NEW s \in Slot, NEW c, calls' = [calls EXCEPT ![s] = c]
  PROVE  /\ calls'[s] = c /\ \A t \in Slot \ {s} : calls'[t] = calls[t]
         /\ Calls'
  BY DEF Calls

\* The fields of a call that goes on, and the ways to change some of them.
LEMMA Fields ==
  ASSUME NEW req, NEW step, NEW reply, NEW failed, NEW got, NEW todo, NEW start,
         NEW c, c = CallIs(req, step, reply, failed, got, todo, start)
  PROVE  /\ c.req = req /\ c.step = step /\ c.reply = reply /\ c.failed = failed
         /\ c.got = got /\ c.todo = todo /\ c.start = start
         /\ c = CallIs(c.req, c.step, c.reply, c.failed, c.got, c.todo, c.start)
  BY DEF CallIs

LEMMA SetGot ==
  ASSUME NEW c, IsCall(c), NEW v
  PROVE  [c EXCEPT !.got = v] = GoneOn(c, c.step, c.reply, c.failed, v, c.todo)
  BY DEF IsCall, CallIs, GoneOn

LEMMA SetFailed ==
  ASSUME NEW c, IsCall(c), NEW v
  PROVE  [c EXCEPT !.failed = v] = GoneOn(c, c.step, c.reply, v, c.got, c.todo)
  BY DEF IsCall, CallIs, GoneOn

LEMMA SetStepReply ==
  ASSUME NEW c, IsCall(c), NEW v, NEW w
  PROVE  [c EXCEPT !.step = v, !.reply = w] = GoneOn(c, v, w, c.failed, c.got, c.todo)
<1> DEFINE e == [c EXCEPT !.step = v, !.reply = w]
<1>1. /\ DOMAIN e = {"req", "step", "reply", "failed", "got", "todo", "start"}
      /\ e = [f \in DOMAIN e |-> e[f]]
      /\ e["req"] = c.req /\ e["start"] = c.start
      /\ e["step"] = v /\ e["reply"] = w /\ e["failed"] = c.failed /\ e["got"] = c.got /\ e["todo"] = c.todo
  BY DEF IsCall, CallIs
<1> HIDE DEF e
<1>2. e = GoneOn(c, v, w, c.failed, c.got, c.todo)
  BY <1>1 DEF GoneOn, CallIs
<1> QED
  BY <1>2 DEF e

LEMMA SetStepFailed ==
  ASSUME NEW c, IsCall(c), NEW v, NEW w
  PROVE  [c EXCEPT !.step = v, !.failed = w] = GoneOn(c, v, c.reply, w, c.got, c.todo)
<1> DEFINE e == [c EXCEPT !.step = v, !.failed = w]
<1>1. /\ DOMAIN e = {"req", "step", "reply", "failed", "got", "todo", "start"}
      /\ e = [f \in DOMAIN e |-> e[f]]
      /\ e["req"] = c.req /\ e["start"] = c.start
      /\ e["step"] = v /\ e["reply"] = c.reply /\ e["failed"] = w /\ e["got"] = c.got /\ e["todo"] = c.todo
  BY DEF IsCall, CallIs
<1> HIDE DEF e
<1>2. e = GoneOn(c, v, c.reply, w, c.got, c.todo)
  BY <1>1 DEF GoneOn, CallIs
<1> QED
  BY <1>2 DEF e

LEMMA SetTodoStep ==
  ASSUME NEW c, IsCall(c), NEW v, NEW w
  PROVE  [c EXCEPT !.todo = v, !.step = w] = GoneOn(c, w, c.reply, c.failed, c.got, v)
<1> DEFINE e == [c EXCEPT !.todo = v, !.step = w]
<1>1. /\ DOMAIN e = {"req", "step", "reply", "failed", "got", "todo", "start"}
      /\ e = [f \in DOMAIN e |-> e[f]]
      /\ e["req"] = c.req /\ e["start"] = c.start
      /\ e["step"] = w /\ e["reply"] = c.reply /\ e["failed"] = c.failed /\ e["got"] = c.got /\ e["todo"] = v
  BY DEF IsCall, CallIs
<1> HIDE DEF e
<1>2. e = GoneOn(c, w, c.reply, c.failed, c.got, v)
  BY <1>1 DEF GoneOn, CallIs
<1> QED
  BY <1>2 DEF e

With(c, v, w, u) == [c EXCEPT !.step = v, !.got = w, !.todo = u]

LEMMA SetStepGotTodo ==
  ASSUME NEW c, IsCall(c), NEW v, NEW w, NEW u
  PROVE  With(c, v, w, u) = GoneOn(c, v, c.reply, c.failed, w, u)
<1> DEFINE e == [c EXCEPT !.step = v, !.got = w, !.todo = u]
<1>1. /\ DOMAIN e = {"req", "step", "reply", "failed", "got", "todo", "start"}
      /\ e = [f \in DOMAIN e |-> e[f]]
      /\ e["req"] = c.req /\ e["start"] = c.start
      /\ e["step"] = v /\ e["reply"] = c.reply /\ e["failed"] = c.failed /\ e["got"] = w /\ e["todo"] = u
  BY DEF IsCall, CallIs
<1> HIDE DEF e
<1>2. e = GoneOn(c, v, c.reply, c.failed, w, u)
  BY <1>1 DEF GoneOn, CallIs
<1> QED
  BY <1>2 DEF e, With

LEMMA SetStepFailedReply ==
  ASSUME NEW c, IsCall(c), NEW v, NEW w, NEW u
  PROVE  [c EXCEPT !.step = v, !.failed = w, !.reply = u] = GoneOn(c, v, u, w, c.got, c.todo)
<1> DEFINE e == [c EXCEPT !.step = v, !.failed = w, !.reply = u]
<1>1. /\ DOMAIN e = {"req", "step", "reply", "failed", "got", "todo", "start"}
      /\ e = [f \in DOMAIN e |-> e[f]]
      /\ e["req"] = c.req /\ e["start"] = c.start
      /\ e["step"] = v /\ e["reply"] = u /\ e["failed"] = w /\ e["got"] = c.got /\ e["todo"] = c.todo
  BY DEF IsCall, CallIs
<1> HIDE DEF e
<1>2. e = GoneOn(c, v, u, w, c.got, c.todo)
  BY <1>1 DEF GoneOn, CallIs
<1> QED
  BY <1>2 DEF e

LEMMA EndedIs ==
  ASSUME NEW c, IsCall(c), NEW st, NEW v
  PROVE  /\ Ended(c, st) = GoneOn(c, "done", c.reply \o st, c.failed, c.got, c.todo)
         /\ Ended([c EXCEPT !.got = v], st) = GoneOn(c, "done", c.reply \o st, c.failed, v, c.todo)
         /\ Ended([c EXCEPT !.failed = v], st) = GoneOn(c, "done", c.reply \o st, v, c.got, c.todo)
<1>1. ASSUME NEW d, IsCall(d)
      PROVE  Ended(d, st) = GoneOn(d, "done", d.reply \o st, d.failed, d.got, d.todo)
  <2>1. [d EXCEPT !.step = "done", !.reply = d.reply \o st]
          = GoneOn(d, "done", d.reply \o st, d.failed, d.got, d.todo)
    BY <1>1, SetStepReply
  <2> QED
    BY <2>1 DEF Ended
<1>2. /\ [c EXCEPT !.got = v] = CallIs(c.req, c.step, c.reply, c.failed, v, c.todo, c.start)
      /\ [c EXCEPT !.failed = v] = CallIs(c.req, c.step, c.reply, v, c.got, c.todo, c.start)
  BY SetGot, SetFailed DEF GoneOn
<1>3. IsCall([c EXCEPT !.got = v]) /\ IsCall([c EXCEPT !.failed = v])
  BY <1>2, Fields DEF IsCall
<1>4. Ended([c EXCEPT !.got = v], st) = GoneOn(c, "done", c.reply \o st, c.failed, v, c.todo)
  BY <1>1, <1>2, <1>3, Fields DEF GoneOn
<1>5. Ended([c EXCEPT !.failed = v], st) = GoneOn(c, "done", c.reply \o st, v, c.got, c.todo)
  BY <1>1, <1>2, <1>3, Fields DEF GoneOn
<1> QED
  BY <1>1, <1>4, <1>5

---------------------------------------------------------------------------
(* The steps of a call, as the call they leave.                            *)

Becomes(s, c) == calls' = [calls EXCEPT ![s] = c]

LEMMA ReturnIs ==
  ASSUME NEW s \in Slot, Calls, IsCall(calls[s]), NEW st, Return(s, st)
  PROVE  Becomes(s, GoneOn(calls[s], "done", calls[s].reply \o st, calls[s].failed, calls[s].got, calls[s].todo))
<1>1. calls' = [calls EXCEPT ![s] = Ended(calls[s], st)]
  BY DEF Return, Calls
<1> QED
  BY <1>1, EndedIs DEF Becomes

LEMMA SucceedWithIs ==
  ASSUME NEW s \in Slot, Calls, IsCall(calls[s]), NEW got, SucceedWith(s, got)
  PROVE  Becomes(s, GoneOn(calls[s], "done", calls[s].reply \o <<Status(calls[s].req.op)>>,
                           calls[s].failed, got, calls[s].todo))
<1>1. calls' = [calls EXCEPT ![s] = Ended([calls[s] EXCEPT !.got = got], <<Status(calls[s].req.op)>>)]
  BY DEF SucceedWith, Calls, Req
<1> QED
  BY <1>1, EndedIs DEF Becomes

EndsFailed(s, st) == calls' = [calls EXCEPT ![s] = Ended([@ EXCEPT !.failed = TRUE], st)]

LEMMA FailsIs ==
  ASSUME NEW s \in Slot, Calls, IsCall(calls[s]), NEW st, EndsFailed(s, st)
  PROVE  Becomes(s, GoneOn(calls[s], "done", calls[s].reply \o st, TRUE, calls[s].got, calls[s].todo))
<1>1. calls' = [calls EXCEPT ![s] = Ended([calls[s] EXCEPT !.failed = TRUE], st)]
  BY DEF Calls, EndsFailed
<1> QED
  BY <1>1, EndedIs DEF Becomes

LEMMA ContinueIs ==
  ASSUME NEW s \in Slot, Calls, IsCall(calls[s]), NEW step, NEW got, NEW todo,
         Continue(s, step, got, todo)
  PROVE  Becomes(s, GoneOn(calls[s], step, calls[s].reply, calls[s].failed, got, todo))
<1>1. calls' = [calls EXCEPT ![s] = [calls[s] EXCEPT !.step = step, !.got = got, !.todo = todo]]
  BY DEF Continue, Calls
<1>2. With(calls[s], step, got, todo)
        = GoneOn(calls[s], step, calls[s].reply, calls[s].failed, got, todo)
  BY SetStepGotTodo
<1> QED
  BY <1>1, <1>2 DEF Becomes, With

---------------------------------------------------------------------------
(* What a step leaves of the tables, and of the other calls.               *)

ChatsOK(n, cs) ==
  /\ cs \in Seq(ChatRow)
  /\ \A c \in DOMAIN cs : cs[c].at <= cs[c].updated /\ cs[c].updated <= n

Seen(q, qs, fs, us) ==
  us[qs[q].upload].broken \/ \A f \in us[qs[q].upload].files : fs[f].upload = qs[q].upload

QAsOK(n, qs, fs, us) ==
  /\ qs \in Seq(QARow)
  /\ \A q \in DOMAIN qs :
       /\ qs[q].happened <= n
       /\ qs[q].at = qs[q].happened + (IF qs[q].upload = None THEN Zone ELSE 0)
       /\ qs[q].upload # None => /\ ~qs[q].answered
                                 /\ qs[q].upload \in DOMAIN us /\ Seen(q, qs, fs, us)

FilesAndUploadsOK(fs, us) ==
  /\ fs \in Seq(FileRow) /\ us \in Seq(Upload)
  /\ \A u \in DOMAIN us : us[u].files \subseteq DOMAIN fs
  /\ \A u, v \in DOMAIN us : u # v => us[u].files \intersect us[v].files = {}
  /\ \A f \in DOMAIN fs : fs[f].upload # None =>
       fs[f].upload \in DOMAIN us /\ f \in us[fs[f].upload].files

LEMMA SoundIs ==
  ASSUME NEW n, NEW cs, NEW qs, NEW fs, NEW us
  PROVE  Sound([clock |-> n, chats |-> cs, qas |-> qs, files |-> fs, uploads |-> us])
           <=> /\ n \in Nat /\ ChatsOK(n, cs) /\ QAsOK(n, qs, fs, us) /\ FilesAndUploadsOK(fs, us)
<1> DEFINE t == [clock |-> n, chats |-> cs, qas |-> qs, files |-> fs, uploads |-> us]
<1>1. t.clock = n /\ t.chats = cs /\ t.qas = qs /\ t.files = fs /\ t.uploads = us
  OBVIOUS
<1> HIDE DEF t
<1>2. Sound(t) <=> /\ n \in Nat /\ ChatsOK(n, cs) /\ QAsOK(n, qs, fs, us) /\ FilesAndUploadsOK(fs, us)
  BY <1>1 DEF Sound, ChatsOK, QAsOK, Seen, FilesAndUploadsOK
<1> QED
  BY <1>2 DEF t

\* The tables go on: rows stay, new QAs are of the uploads U, new uploads of the files F,
\* and a file is only given to the upload it was written for.
Evolves(cs, qs, fs, us, cs2, qs2, fs2, us2, U, F) ==
  /\ DOMAIN cs \subseteq DOMAIN cs2 /\ \A c \in DOMAIN cs : cs[c].deleted => cs2[c].deleted
  /\ DOMAIN qs \subseteq DOMAIN qs2
  /\ \A q \in DOMAIN qs : qs2[q].upload = qs[q].upload /\ qs2[q].chat = qs[q].chat
  /\ \A q \in DOMAIN qs2 \ DOMAIN qs : qs2[q].upload = None \/ qs2[q].upload \in U
  /\ DOMAIN fs \subseteq DOMAIN fs2
  /\ \A f \in DOMAIN fs : fs2[f].upload = fs[f].upload
       \/ (fs2[f].upload \in DOMAIN us /\ f \in us[fs2[f].upload].files)
  /\ DOMAIN us \subseteq DOMAIN us2
  /\ \A u \in DOMAIN us : us2[u].files = us[u].files /\ (us[u].broken => us2[u].broken)
  /\ \A u \in DOMAIN us2 \ DOMAIN us : us2[u].files \subseteq F

\* What another call has read and has in hand stays true of the tables.
LEMMA OthersStay ==
  ASSUME NEW cs, NEW qs, NEW fs, NEW us, NEW cs2, NEW qs2, NEW fs2, NEW us2, NEW U, NEW F,
         FilesAndUploadsOK(fs, us), Evolves(cs, qs, fs, us, cs2, qs2, fs2, us2, U, F),
         NEW d, OneOK(d, cs, qs, fs, us),
         d.step \in {"rows", "qa"} => d.got.upload \notin U,
         d.step = "parse" => \A i \in DOMAIN d.got : d.got[i] \notin F
  PROVE  OneOK(d, cs2, qs2, fs2, us2)
<1>1. ParseOK(d, qs2, fs2, us2)
  <2>1. SUFFICES ASSUME d.step = "parse"
                 PROVE  /\ d.got \in Seq(DOMAIN fs2)
                        /\ \A i \in DOMAIN d.got : \A u \in DOMAIN us2 : d.got[i] \notin us2[u].files
    BY DEF OneOK, ParseOK
  <2>2. d.got \in Seq(DOMAIN fs) /\ \A i \in DOMAIN d.got : \A u \in DOMAIN us : d.got[i] \notin us[u].files
    BY <2>1 DEF OneOK, ParseOK
  <2>3. d.got \in Seq(DOMAIN fs2)
    BY <2>2 DEF Evolves
  <2>4. ASSUME NEW i \in DOMAIN d.got, NEW u \in DOMAIN us2
        PROVE  d.got[i] \notin us2[u].files
    BY <2>1, <2>2 DEF Evolves
  <2> QED
    BY <2>3, <2>4
<1>2. ASSUME NEW u \in DOMAIN us, NEW f \in us[u].files, fs[f].upload = u
      PROVE  fs2[f].upload = u
  <2>1. f \in DOMAIN fs
    BY DEF FilesAndUploadsOK
  <2>2. CASE fs2[f].upload \in DOMAIN us /\ f \in us[fs2[f].upload].files
    BY <2>2 DEF FilesAndUploadsOK
  <2> QED
    BY <1>2, <2>1, <2>2 DEF Evolves
<1>3. ASSUME Handle(d), d.got.upload \in DOMAIN us
      PROVE  d.got.upload \in DOMAIN us2 /\ us2[d.got.upload].files = us[d.got.upload].files
             /\ d.got.upload # None
  <2>1. d.got.upload \in Nat
    BY <1>3 DEF Handle
  <2> QED
    BY <1>3, <2>1, NoneIsNoNumber DEF Evolves
<1>4. UploadOK(d, qs2, fs2, us2)
  <2>0. UploadOK(d, qs, fs, us)
    BY DEF OneOK
  <2>1. ASSUME d.step \in {"rows", "qa"}
        PROVE  /\ Handle(d) /\ d.got.upload \in DOMAIN us2 /\ us2[d.got.upload].files = d.got.files
               /\ \A q \in DOMAIN qs2 : qs2[q].upload # d.got.upload
    <3>1. /\ Handle(d) /\ d.got.upload \in DOMAIN us /\ us[d.got.upload].files = d.got.files
          /\ \A q \in DOMAIN qs : qs[q].upload # d.got.upload
      BY <2>0, <2>1 DEF UploadOK
    <3>2. \A q \in DOMAIN qs2 : qs2[q].upload # d.got.upload
      BY <1>3, <2>1, <3>1 DEF Evolves
    <3> QED
      BY <1>3, <3>1, <3>2
  <2>2. ASSUME d.step = "rows", NEW f \in d.got.files
        PROVE  fs2[f].upload = d.got.upload \/ \E i \in DOMAIN d.todo : d.todo[i] = f
    <3>1. d.got.upload \in DOMAIN us /\ us[d.got.upload].files = d.got.files
      BY <2>0, <2>2 DEF UploadOK
    <3> QED
      BY <1>2, <2>0, <2>2, <3>1 DEF UploadOK
  <2>3. ASSUME d.got.upload \in DOMAIN us, us[d.got.upload].files = d.got.files, Complete(d, fs)
        PROVE  Complete(d, fs2)
    BY <1>2, <2>3 DEF Complete
  <2>4. ASSUME d.step = "qa"
        PROVE  IF d.failed THEN us2[d.got.upload].broken /\ d.reply = <<500>>
               ELSE d.reply = <<>> /\ Complete(d, fs2)
    <3>1. d.got.upload \in DOMAIN us /\ us[d.got.upload].files = d.got.files
      BY <2>0, <2>4 DEF UploadOK
    <3>2. CASE d.failed
      BY <2>0, <2>4, <3>1, <3>2 DEF UploadOK, Evolves
    <3>3. CASE ~d.failed
      BY <2>0, <2>3, <2>4, <3>1, <3>3 DEF UploadOK
    <3> QED
      BY <3>2, <3>3
  <2>5. ASSUME IsSuccess(d), d.req.op = "Upload"
        PROVE  /\ Handle(d) /\ d.got.upload \in DOMAIN us2 /\ us2[d.got.upload].files = d.got.files
               /\ Complete(d, fs2)
               /\ \E q \in DOMAIN qs2 : qs2[q].upload = d.got.upload /\ qs2[q].chat = d.req.chat
    <3>1. /\ Handle(d) /\ d.got.upload \in DOMAIN us /\ us[d.got.upload].files = d.got.files
          /\ Complete(d, fs)
      BY <2>0, <2>5 DEF UploadOK
    <3>2. PICK q \in DOMAIN qs : qs[q].upload = d.got.upload /\ qs[q].chat = d.req.chat
      BY <2>0, <2>5 DEF UploadOK
    <3>3. q \in DOMAIN qs2 /\ qs2[q].upload = d.got.upload /\ qs2[q].chat = d.req.chat
      BY <3>2 DEF Evolves
    <3> QED
      BY <1>3, <2>3, <3>1, <3>3
  <2>6. d.step = "rows" => d.todo \in Seq(d.got.files) /\ d.todo # <<>> /\ d.reply = <<>> /\ ~d.failed
    BY <2>0 DEF UploadOK
  <2> QED
    BY <2>1, <2>2, <2>4, <2>5, <2>6 DEF UploadOK
<1>5. FilesOK(d, qs2, fs2, us2)
  <2>0. FilesOK(d, qs, fs, us)
    BY DEF OneOK
  <2>1. ASSUME d.step = "files", d.got.upload # 0
        PROVE  \E q \in DOMAIN qs2 : qs2[q].upload = d.got.upload
    <3>1. PICK q \in DOMAIN qs : qs[q].upload = d.got.upload
      BY <2>0, <2>1 DEF FilesOK
    <3> QED
      BY <3>1 DEF Evolves
  <2>2. ASSUME d.step \in {"embed", "record"}, d.req.op = "AskFile", d.got.upload # 0
        PROVE  /\ d.got.upload \in DOMAIN us2
               /\ us2[d.got.upload].broken \/ d.got.files = us2[d.got.upload].files
    <3>1. /\ d.got.upload \in DOMAIN us
          /\ us[d.got.upload].broken \/ d.got.files = us[d.got.upload].files
      BY <2>0, <2>2 DEF FilesOK
    <3> QED
      BY <3>1 DEF Evolves
  <2> QED
    BY <2>0, <2>1, <2>2 DEF FilesOK
<1>6. DeleteOK(d, cs2)
  BY DEF OneOK, DeleteOK, Evolves
<1> QED
  BY <1>1, <1>4, <1>5, <1>6 DEF OneOK

---------------------------------------------------------------------------
(* A step keeps the invariant if the call it leaves has its facts.          *)

LEMMA Facts ==
  ASSUME IInv
  PROVE  /\ clock \in Nat /\ ChatsOK(clock, chats) /\ QAsOK(clock, qas, files, uploads)
         /\ FilesAndUploadsOK(files, uploads) /\ faults \in Nat /\ Calls
         /\ \A s \in Slot : /\ OneOK(calls[s], chats, qas, files, uploads)
                            /\ CallOK(calls[s]) /\ IsCall(calls[s])
<1>1. Sound(Tables)
  BY DEF IInv
<1>2. clock \in Nat /\ ChatsOK(clock, chats) /\ QAsOK(clock, qas, files, uploads)
      /\ FilesAndUploadsOK(files, uploads)
  BY <1>1, SoundIs DEF Tables
<1>3. faults \in Nat
  BY ApiAssumption DEF IInv
<1> QED
  BY <1>2, <1>3 DEF IInv, Calls, OneOK, CallOK

\* Nobody else has the uploads U or the files F in hand.
Others(s, U, F) ==
  \A t \in Slot \ {s} :
    /\ calls[t].step \in {"rows", "qa"} => calls[t].got.upload \notin U
    /\ calls[t].step = "parse" => \A i \in DOMAIN calls[t].got : calls[t].got[i] \notin F

TablesNext ==
  /\ clock' \in Nat /\ ChatsOK(clock', chats') /\ QAsOK(clock', qas', files', uploads')
  /\ FilesAndUploadsOK(files', uploads')

Evolve(U, F) == Evolves(chats, qas, files, uploads, chats', qas', files', uploads', U, F)

LEMMA StepKeeps ==
  ASSUME IInv, NEW s \in Slot, NEW c, Becomes(s, c), NEW U, NEW F, Others(s, U, F),
         TablesNext, Evolve(U, F), faults' \in 0 .. MaxFaults,
         OneOK(c, chats', qas', files', uploads'),
         \A t \in Slot \ {s} : Apart(c, calls[t]) /\ Apart(calls[t], c)
  PROVE  IInv'
<1>1. Calls' /\ calls'[s] = c /\ \A t \in Slot \ {s} : calls'[t] = calls[t]
  BY Facts, SetCall DEF Becomes
<1>2. ASSUME NEW t \in Slot PROVE OneOK(calls'[t], chats', qas', files', uploads')
  <2>1. CASE t = s
    BY <1>1, <2>1
  <2>2. CASE t # s
    <3>1. FilesAndUploadsOK(files, uploads) /\ OneOK(calls[t], chats, qas, files, uploads)
      BY Facts
    <3>2. OneOK(calls[t], chats', qas', files', uploads')
      BY <2>2, <3>1, OthersStay DEF Others, Evolve
    <3> QED
      BY <1>1, <2>2, <3>2
  <2> QED
    BY <2>1, <2>2
<1>3. ASSUME NEW t \in Slot, NEW v \in Slot, t # v PROVE Apart(calls'[t], calls'[v])
  <2>1. Apart(calls[t], calls[v])
    BY <1>3 DEF IInv
  <2> QED
    BY <1>1, <1>3, <2>1
<1>4. Sound([clock |-> clock', chats |-> chats', qas |-> qas', files |-> files', uploads |-> uploads'])
  BY SoundIs DEF TablesNext
<1>5. Sound(Tables)'
  BY <1>4 DEF Tables
<1>6. (calls = [t \in Slot |-> calls[t]])'
  BY <1>1 DEF Calls
<1> QED
  BY <1>2, <1>3, <1>5, <1>6 DEF IInv

\* The tables as they were.
LEMMA SameTables ==
  ASSUME IInv, UNCHANGED tables
  PROVE  TablesNext /\ Evolve({}, {})
<1>1. /\ clock \in Nat /\ ChatsOK(clock, chats) /\ QAsOK(clock, qas, files, uploads)
      /\ FilesAndUploadsOK(files, uploads)
  BY Facts
<1>2. /\ clock' = clock /\ chats' = chats /\ qas' = qas /\ files' = files /\ uploads' = uploads
  BY DEF tables
<1>3. TablesNext
  BY <1>1, <1>2 DEF TablesNext
<1>4. Evolve({}, {})
  BY <1>2 DEF Evolve, Evolves
<1> QED
  BY <1>3, <1>4

\* A step that writes no upload and is not about to.
LEMMA PlainStep ==
  ASSUME IInv, NEW s \in Slot, NEW c, Becomes(s, c), TablesNext, Evolve({}, {}), faults' \in 0 .. MaxFaults,
         OneOK(c, chats', qas', files', uploads'), c.step \notin {"parse", "rows", "qa"}
  PROVE  IInv'
<1>1. Others(s, {}, {})
  BY DEF Others
<1>2. \A t \in Slot \ {s} : Apart(c, calls[t]) /\ Apart(calls[t], c)
  BY DEF Apart
<1> QED
  BY <1>1, <1>2, StepKeeps

---------------------------------------------------------------------------
(* A call that ends, and one that goes on.                                 *)

Serving(c) == CallOK(c) /\ c.step \notin {"idle", "done"}

LEMMA HeadOf ==
  ASSUME NEW p \in Seq(Nat), NEW st \in Seq(Nat), st # <<>>
  PROVE  /\ p \o st \in Seq(Nat) /\ p \o st # <<>>
         /\ Head(p \o st) = IF p = <<>> THEN Head(st) ELSE Head(p)
  OBVIOUS

\* A failure is answered with an error first.
LEMMA EndsAs ==
  ASSUME NEW c, Serving(c), NEW st \in Seq(Nat), st # <<>>, NEW fl \in BOOLEAN, NEW got, NEW todo,
         NEW d, d = GoneOn(c, "done", c.reply \o st, fl, got, todo),
         fl => c.failed \/ Head(st) \notin 200 .. 299
  PROVE  /\ CallOK(d) /\ d.step = "done" /\ d.req = c.req /\ d.got = got
         /\ IsSuccess(d) => c.reply = <<>> /\ Head(st) \in 200 .. 299
<1>1. /\ d.req = c.req /\ d.step = "done" /\ d.reply = c.reply \o st /\ d.failed = fl /\ d.got = got
      /\ IsCall(d)
  <2>1. PICK p : p = c.reply \o st
    OBVIOUS
  <2>2. d = CallIs(c.req, "done", p, fl, got, todo, c.start)
    BY <2>1 DEF GoneOn
  <2>3. d.req = c.req /\ d.step = "done" /\ d.reply = p /\ d.failed = fl /\ d.got = got /\ IsCall(d)
    BY <2>2, Fields DEF IsCall
  <2> QED
    BY <2>1, <2>3
<1>2. /\ c.req \in Request \union {Idle.req} /\ c.reply \in Seq(Nat) /\ StepFits(c.req.op, c.step)
      /\ c.reply # <<>> => Head(c.reply) \notin 200 .. 299
      /\ c.failed => c.req.op = "Ask" \/ (c.step = "qa" /\ c.reply # <<>>)
      /\ c.step \notin {"idle", "done"}
  BY DEF Serving, CallOK
<1>3. /\ d.reply \in Seq(Nat) /\ d.reply # <<>>
      /\ Head(d.reply) = IF c.reply = <<>> THEN Head(st) ELSE Head(c.reply)
  <2>1. c.reply \in Seq(Nat)
    BY <1>2
  <2>2. /\ c.reply \o st \in Seq(Nat) /\ c.reply \o st # <<>>
        /\ Head(c.reply \o st) = IF c.reply = <<>> THEN Head(st) ELSE Head(c.reply)
    BY <2>1, HeadOf
  <2> QED
    BY <1>1, <2>2
<1>4. StepFits(d.req.op, d.step)
  BY <1>1, <1>2 DEF StepFits
<1>5. IsSuccess(d) => c.reply = <<>> /\ Head(st) \in 200 .. 299
  BY <1>2, <1>3 DEF IsSuccess
<1>6. IsSuccess(d) /\ d.failed => d.req.op = "Ask"
  BY <1>1, <1>2, <1>5
<1> QED
  BY <1>1, <1>2, <1>3, <1>4, <1>5, <1>6 DEF CallOK

LEMMA Ends ==
  ASSUME NEW c, Serving(c), NEW st \in Seq(Nat), st # <<>>, NEW fl \in BOOLEAN, NEW got, NEW todo,
         NEW d, d = GoneOn(c, "done", c.reply \o st, fl, got, todo),
         fl => c.failed \/ Head(st) \notin 200 .. 299,
         c.req.op \in {"Upload", "DeleteChat"} => Head(st) \notin 200 .. 299 \/ c.reply # <<>>,
         NEW cs, NEW qs, NEW fs, NEW us
  PROVE  OneOK(d, cs, qs, fs, us) /\ d.step = "done"
<1>1. /\ CallOK(d) /\ d.step = "done" /\ d.req = c.req
      /\ IsSuccess(d) => c.reply = <<>> /\ Head(st) \in 200 .. 299
  BY EndsAs
<1> QED
  BY <1>1 DEF OneOK, ParseOK, UploadOK, FilesOK, DeleteOK

LEMMA GoesOnAs ==
  ASSUME NEW c, Serving(c), NEW step, step \notin {"idle", "done"}, StepFits(c.req.op, step),
         NEW got, NEW todo, NEW d, d = GoneOn(c, step, c.reply, c.failed, got, todo),
         c.step = "qa" => step = "qa"
  PROVE  /\ CallOK(d) /\ d.step = step /\ d.req = c.req /\ d.got = got /\ d.todo = todo
         /\ d.reply = c.reply /\ d.failed = c.failed
<1>1. /\ d.req = c.req /\ d.step = step /\ d.reply = c.reply /\ d.failed = c.failed /\ d.got = got
      /\ d.todo = todo /\ IsCall(d)
  BY Fields DEF GoneOn, IsCall
<1> QED
  BY <1>1 DEF Serving, CallOK, IsSuccess

LEMMA GoingOn ==
  ASSUME NEW c, Serving(c), NEW step, step \notin {"idle", "done", "parse", "rows", "qa", "files", "embed"},
         StepFits(c.req.op, step), step = "record" => c.req.op = "Ask", c.step # "qa",
         NEW got, NEW todo, NEW d, d = GoneOn(c, step, c.reply, c.failed, got, todo),
         NEW cs, NEW qs, NEW fs, NEW us
  PROVE  OneOK(d, cs, qs, fs, us) /\ d.step = step
<1>1. CallOK(d) /\ d.step = step /\ d.req = c.req
  BY GoesOnAs
<1> QED
  BY <1>1 DEF OneOK, ParseOK, UploadOK, FilesOK, DeleteOK, IsSuccess

---------------------------------------------------------------------------
(* Steps that change the chats.                                            *)

LEMMA OnlyChats ==
  ASSUME IInv, UNCHANGED <<clock, qas, files, uploads>>, ChatsOK(clock, chats'),
         DOMAIN chats \subseteq DOMAIN chats', \A c \in DOMAIN chats : chats[c].deleted => chats'[c].deleted
  PROVE  TablesNext /\ Evolve({}, {})
<1>1. /\ clock \in Nat /\ QAsOK(clock, qas, files, uploads) /\ FilesAndUploadsOK(files, uploads)
  BY Facts
<1>2. /\ clock' = clock /\ qas' = qas /\ files' = files /\ uploads' = uploads
  OBVIOUS
<1>3. TablesNext
  BY <1>1, <1>2 DEF TablesNext
<1>4. Evolve({}, {})
  BY <1>2 DEF Evolve, Evolves
<1> QED
  BY <1>3, <1>4

ChatOf(n, session, user) ==
  [at |-> n, updated |-> n, session |-> session, user |-> user, title |-> "new", deleted |-> FALSE]

LEMMA ChatAppended ==
  ASSUME NEW n \in Nat, NEW cs, ChatsOK(n, cs), NEW session \in Text, NEW user \in Text \union {None},
         NEW ds, ds = Append(cs, ChatOf(n, session, user))
  PROVE  /\ ChatsOK(n, ds) /\ DOMAIN cs \subseteq DOMAIN ds
         /\ \A c \in DOMAIN cs : ds[c] = cs[c]
<1> DEFINE row == ChatOf(n, session, user)
<1>1. row \in ChatRow /\ row.at = n /\ row.updated = n
  BY TablesAssumption DEF ChatRow, ChatOf
<1> HIDE DEF row
<1>2. cs \in Seq(ChatRow) /\ ds = Append(cs, row)
  BY DEF ChatsOK, row
<1>3. /\ ds \in Seq(ChatRow) /\ DOMAIN ds = 1 .. Len(cs) + 1 /\ DOMAIN cs = 1 .. Len(cs)
      /\ ds[Len(cs) + 1] = row /\ \A c \in DOMAIN cs : ds[c] = cs[c]
  BY <1>1, <1>2
<1>4. \A c \in DOMAIN ds : c \in DOMAIN cs \/ c = Len(cs) + 1
  BY <1>2, <1>3
<1>5. DOMAIN cs \subseteq DOMAIN ds
  BY <1>2, <1>3
<1> QED
  BY <1>1, <1>3, <1>4, <1>5 DEF ChatsOK

\* A chat whose time of update, title, user or mark of deletion is written.
LEMMA ChatWritten ==
  ASSUME NEW n \in Nat, NEW cs, ChatsOK(n, cs), NEW c \in DOMAIN cs,
         NEW row \in ChatRow, row.at = cs[c].at, row.updated \in {n, cs[c].updated},
         cs[c].deleted => row.deleted, NEW ds, ds = [cs EXCEPT ![c] = row]
  PROVE  /\ ChatsOK(n, ds) /\ DOMAIN ds = DOMAIN cs
         /\ \A d \in DOMAIN cs : cs[d].deleted => ds[d].deleted
<1>1. cs \in Seq(ChatRow)
  BY DEF ChatsOK
<1>2. ds \in Seq(ChatRow) /\ DOMAIN ds = DOMAIN cs /\ ds[c] = row
      /\ \A d \in DOMAIN cs \ {c} : ds[d] = cs[d]
  BY <1>1
<1>3. cs[c] \in ChatRow /\ cs[c].at <= cs[c].updated /\ cs[c].updated <= n
  BY <1>1 DEF ChatsOK
<1>4. row.at <= row.updated /\ row.updated <= n
  BY <1>3 DEF ChatRow
<1>5. \A d \in DOMAIN ds : ds[d].at <= ds[d].updated /\ ds[d].updated <= n
  BY <1>2, <1>4 DEF ChatsOK
<1> QED
  BY <1>2, <1>5 DEF ChatsOK

LEMMA Updated ==
  ASSUME IInv, NEW c, Live(c), NEW column \in {"title", "user"}, NEW value \in Text,
         UpdateChat(c, column, value), UNCHANGED <<clock, qas, files, uploads>>
  PROVE  TablesNext /\ Evolve({}, {})
<1>1. clock \in Nat /\ ChatsOK(clock, chats) /\ c \in DOMAIN chats
  BY Facts DEF Live
<1>2. chats[c] \in ChatRow
  BY <1>1 DEF ChatsOK
<1> DEFINE row == [chats[c] EXCEPT !.updated = clock, ![column] = value]
<1>3. row \in ChatRow /\ row.at = chats[c].at /\ row.updated = clock /\ row.deleted = chats[c].deleted
  <2>1. CASE column = "title"
    BY <1>1, <1>2, <2>1 DEF ChatRow
  <2>2. CASE column = "user"
    BY <1>1, <1>2, <2>2 DEF ChatRow
  <2> QED
    BY <2>1, <2>2
<1>4. chats' = [chats EXCEPT ![c] = row]
  BY <1>1 DEF UpdateChat
<1> HIDE DEF row
<1>5. /\ ChatsOK(clock, chats') /\ DOMAIN chats' = DOMAIN chats
      /\ \A d \in DOMAIN chats : chats[d].deleted => chats'[d].deleted
  BY <1>1, <1>3, <1>4, ChatWritten
<1> QED
  BY <1>5, OnlyChats

LEMMA Deleted ==
  ASSUME IInv, NEW c, Live(c), DeleteChat(c), UNCHANGED <<clock, qas, files, uploads>>
  PROVE  TablesNext /\ Evolve({}, {}) /\ c \in DOMAIN chats' /\ chats'[c].deleted
<1>1. clock \in Nat /\ ChatsOK(clock, chats) /\ c \in DOMAIN chats
  BY Facts DEF Live
<1>2. chats[c] \in ChatRow
  BY <1>1 DEF ChatsOK
<1> DEFINE row == [chats[c] EXCEPT !.deleted = TRUE]
<1>3. row \in ChatRow /\ row.at = chats[c].at /\ row.updated = chats[c].updated /\ row.deleted
  BY <1>2 DEF ChatRow
<1>4. chats' = [chats EXCEPT ![c] = row]
  BY <1>1 DEF DeleteChat
<1> HIDE DEF row
<1>5. /\ ChatsOK(clock, chats') /\ DOMAIN chats' = DOMAIN chats
      /\ \A d \in DOMAIN chats : chats[d].deleted => chats'[d].deleted
  BY <1>1, <1>3, <1>4, ChatWritten
<1>6. chats'[c] = row
  BY <1>1, <1>4
<1> QED
  BY <1>1, <1>3, <1>5, <1>6, OnlyChats

---------------------------------------------------------------------------
(* The operations, each by the step it takes.                              *)

LEMMA IsServing ==
  ASSUME IInv, NEW s \in Slot, calls[s].step \notin {"idle", "done"}
  PROVE  Serving(calls[s]) /\ StepFits(calls[s].req.op, calls[s].step) /\ calls[s].req \in Request
         /\ calls[s].failed \in BOOLEAN /\ calls[s].reply \in Seq(Nat)
<1>1. CallOK(calls[s])
  BY Facts
<1>2. calls[s].req # Idle.req
  <2>1. calls[s].req.op # "none"
    BY <1>1 DEF CallOK, StepFits
  <2>2. Idle.req.op = "none"
    BY DEF Idle
  <2> QED
    BY <2>1, <2>2
<1> QED
  BY <1>1, <1>2 DEF CallOK, Serving

LEMMA EndStep ==
  ASSUME IInv, NEW s \in Slot, calls[s].step \notin {"idle", "done"},
         NEW st \in Seq(Nat), st # <<>>, NEW fl \in BOOLEAN, NEW got, NEW todo,
         Becomes(s, GoneOn(calls[s], "done", calls[s].reply \o st, fl, got, todo)),
         fl => calls[s].failed \/ Head(st) \notin 200 .. 299,
         calls[s].req.op \in {"Upload", "DeleteChat"} => Head(st) \notin 200 .. 299 \/ calls[s].reply # <<>>,
         TablesNext, Evolve({}, {}), faults' \in 0 .. MaxFaults
  PROVE  IInv'
<1>1. Serving(calls[s])
  BY IsServing
<1>2. PICK c, d : c = calls[s] /\ d = GoneOn(c, "done", c.reply \o st, fl, got, todo)
  OBVIOUS
<1>3. Becomes(s, d)
  BY <1>2
<1>4. /\ Serving(c) /\ d = GoneOn(c, "done", c.reply \o st, fl, got, todo)
      /\ fl => c.failed \/ Head(st) \notin 200 .. 299
      /\ c.req.op \in {"Upload", "DeleteChat"} => Head(st) \notin 200 .. 299 \/ c.reply # <<>>
  BY <1>1, <1>2
<1>5. \A cs, qs, fs, us : OneOK(d, cs, qs, fs, us) /\ d.step = "done"
  <2> TAKE cs, qs, fs, us
  <2>1. st \in Seq(Nat) /\ st # <<>> /\ fl \in BOOLEAN
    OBVIOUS
  <2> QED
    BY ONLY <1>4, <2>1, Ends
<1> QED
  BY <1>3, <1>5, PlainStep

LEMMA ContinueStep ==
  ASSUME IInv, NEW s \in Slot, calls[s].step \notin {"idle", "done", "qa"},
         NEW step, step \notin {"idle", "done", "parse", "rows", "qa", "files", "embed"},
         StepFits(calls[s].req.op, step), step = "record" => calls[s].req.op = "Ask",
         NEW got, NEW todo,
         Becomes(s, GoneOn(calls[s], step, calls[s].reply, calls[s].failed, got, todo)),
         TablesNext, Evolve({}, {}), faults' \in 0 .. MaxFaults
  PROVE  IInv'
<1>1. Serving(calls[s])
  BY IsServing
<1>2. PICK c, d : c = calls[s] /\ d = GoneOn(c, step, c.reply, c.failed, got, todo)
  OBVIOUS
<1>3. Becomes(s, d)
  BY <1>2
<1>4. /\ Serving(c) /\ d = GoneOn(c, step, c.reply, c.failed, got, todo)
      /\ StepFits(c.req.op, step) /\ c.step # "qa" /\ (step = "record" => c.req.op = "Ask")
  BY <1>1, <1>2
<1>5. \A cs, qs, fs, us : OneOK(d, cs, qs, fs, us) /\ d.step = step
  <2> TAKE cs, qs, fs, us
  <2> QED
    BY <1>4, GoingOn
<1> QED
  BY <1>3, <1>5, PlainStep

\* A step of a call that reads and ends, or reads and goes on.
LEMMA ReturnStep ==
  ASSUME IInv, NEW s \in Slot, calls[s].step \notin {"idle", "done"}, NEW st \in Seq(Nat), st # <<>>,
         Return(s, st), calls[s].req.op \in {"Upload", "DeleteChat"} => Head(st) \notin 200 .. 299,
         TablesNext, Evolve({}, {}), faults' \in 0 .. MaxFaults
  PROVE  IInv'
<1>1. Calls /\ IsCall(calls[s]) /\ calls[s].failed \in BOOLEAN
  BY Facts, IsServing
<1>2. Becomes(s, GoneOn(calls[s], "done", calls[s].reply \o st, calls[s].failed, calls[s].got, calls[s].todo))
  BY <1>1, ReturnIs
<1> QED
  BY <1>1, <1>2, EndStep

LEMMA StatusIs == \A op : <<Status(op)>> \in Seq(Nat) /\ <<Status(op)>> # <<>> /\ Status(op) \in 200 .. 299
                           /\ Head(<<Status(op)>>) = Status(op)
  BY DEF Status

LEMMA ErrorsAre ==
  /\ \A n \in Nat : <<n>> \in Seq(Nat) /\ <<n>> # <<>> /\ Head(<<n>>) = n
  /\ \A n, m \in Nat : <<n, m>> \in Seq(Nat) /\ <<n, m>> # <<>> /\ Head(<<n, m>>) = n
  OBVIOUS

LEMMA SucceedStep ==
  ASSUME IInv, NEW s \in Slot, calls[s].step \notin {"idle", "done"}, Succeed(s),
         calls[s].req.op \notin {"Upload", "DeleteChat"},
         TablesNext, Evolve({}, {}), faults' \in 0 .. MaxFaults
  PROVE  IInv'
<1>1. Return(s, <<Status(calls[s].req.op)>>)
  BY DEF Succeed, Req
<1> QED
  BY <1>1, ReturnStep, StatusIs

LEMMA SucceedWithStep ==
  ASSUME IInv, NEW s \in Slot, calls[s].step \notin {"idle", "done"}, NEW got, SucceedWith(s, got),
         calls[s].req.op \notin {"Upload", "DeleteChat"},
         TablesNext, Evolve({}, {}), faults' \in 0 .. MaxFaults
  PROVE  IInv'
<1>1. Calls /\ IsCall(calls[s]) /\ calls[s].failed \in BOOLEAN
  BY Facts, IsServing
<1>2. Becomes(s, GoneOn(calls[s], "done", calls[s].reply \o <<Status(calls[s].req.op)>>,
                           calls[s].failed, got, calls[s].todo))
  BY <1>1, SucceedWithIs
<1> QED
  BY <1>1, <1>2, EndStep, StatusIs

LEMMA GoOnStep ==
  ASSUME IInv, NEW s \in Slot, calls[s].step \notin {"idle", "done", "qa"},
         NEW step, step \notin {"idle", "done", "parse", "rows", "qa", "files", "embed"},
         StepFits(calls[s].req.op, step), step = "record" => calls[s].req.op = "Ask",
         NEW got, NEW todo, Continue(s, step, got, todo),
         TablesNext, Evolve({}, {}), faults' \in 0 .. MaxFaults
  PROVE  IInv'
<1>1. Calls /\ IsCall(calls[s])
  BY Facts
<1>2. Becomes(s, GoneOn(calls[s], step, calls[s].reply, calls[s].failed, got, todo))
  BY <1>1, ContinueIs
<1> QED
  BY <1>2, ContinueStep

LEMMA OnlyReads ==
  ASSUME IInv, NEW s, Read(s)
  PROVE  TablesNext /\ Evolve({}, {}) /\ faults' \in 0 .. MaxFaults
  BY SameTables DEF Read, IInv

LEMMA NoMoreFaults ==
  ASSUME IInv
  PROVE  /\ faults' = faults => faults' \in 0 .. MaxFaults
         /\ faults < MaxFaults /\ faults' = faults + 1 => faults' \in 0 .. MaxFaults
<1>1. faults \in Nat /\ MaxFaults \in Nat /\ faults \in 0 .. MaxFaults
  BY Facts, ApiAssumption DEF IInv
<1> QED
  BY <1>1

LEMMA CreateChatStep ==
  ASSUME IInv, NEW s \in Slot, CreateChat(s)
  PROVE  IInv'
<1>1. /\ calls[s].req.op \in {"CreateChat", "CreateUserChat"} /\ calls[s].step = "statement"
      /\ Succeed(s) /\ UNCHANGED <<clock, qas, files, uploads, faults>>
  BY DEF CreateChat, At, Req
<1>2. PICK session \in Text, user \in Text \union {None} : NewChat(session, user)
  <2>1. calls[s].req \in Request
    BY <1>1, IsServing
  <2>2. /\ calls[s].req.op = "CreateChat" => calls[s].req.session \in Text
        /\ calls[s].req.op = "CreateUserChat" => calls[s].req.user \in Text
    BY <2>1, RequestFields
  <2> QED
    BY <2>2, TablesAssumption DEF CreateChat, At, Req
<1>3. clock \in Nat /\ ChatsOK(clock, chats)
  BY Facts
<1>4. /\ ChatsOK(clock, chats') /\ DOMAIN chats \subseteq DOMAIN chats'
      /\ \A c \in DOMAIN chats : chats'[c] = chats[c]
  <2>1. chats' = Append(chats, ChatOf(clock, session, user))
    BY <1>2 DEF NewChat, ChatOf
  <2>2. session \in Text /\ user \in Text \union {None}
    OBVIOUS
  <2> QED
    <3>1. ChatsOK(clock, Append(chats, ChatOf(clock, session, user)))
      BY <1>3, <2>2, ChatAppended
    <3>2. DOMAIN chats \subseteq DOMAIN Append(chats, ChatOf(clock, session, user))
      BY <1>3, <2>2, ChatAppended
    <3>3. \A c \in DOMAIN chats : Append(chats, ChatOf(clock, session, user))[c] = chats[c]
      BY <1>3, <2>2, ChatAppended
    <3> QED
      BY <2>1, <3>1, <3>2, <3>3, Zenon
<1>5. TablesNext /\ Evolve({}, {}) /\ faults' \in 0 .. MaxFaults
  BY <1>1, <1>4, OnlyChats, NoMoreFaults
<1> QED
  BY <1>1, <1>5, SucceedStep

LEMMA ListSteps ==
  ASSUME IInv, NEW s \in Slot, ListOfChats(s) \/ ListOfQAs(s) \/ Statistic(s) \/ Poll(s)
  PROVE  IInv'
<1>1. /\ calls[s].step \in {"statement", "poll"} /\ Read(s)
      /\ calls[s].req.op \notin {"Upload", "DeleteChat"}
  <2>1. calls[s].step = "poll" => calls[s].req.op = "Convert"
    BY IsServing DEF StepFits
  <2> QED
    BY <2>1 DEF ListOfChats, ListOfQAs, Statistic, Poll, At, Req
<1>2. Succeed(s) \/ \E got : SucceedWith(s, got)
  BY DEF ListOfChats, ListOfQAs, Statistic, Poll
<1>3. TablesNext /\ Evolve({}, {}) /\ faults' \in 0 .. MaxFaults
  BY <1>1, OnlyReads
<1>4. calls[s].step \notin {"idle", "done"}
  BY <1>1
<1>5. CASE Succeed(s)
  BY <1>1, <1>3, <1>4, <1>5, SucceedStep
<1>6. CASE \E got : SucceedWith(s, got)
  <2>1. PICK got : SucceedWith(s, got)
    BY <1>6
  <2> QED
    BY <1>1, <1>3, <1>4, <2>1, SucceedWithStep
<1> QED
  BY <1>2, <1>5, <1>6

LEMMA UpdateChatTitleStep ==
  ASSUME IInv, NEW s \in Slot, UpdateChatTitle(s)
  PROVE  IInv'
<1>1. /\ calls[s].req.op = "UpdateChatTitle" /\ calls[s].step = "statement" /\ calls[s].step \notin {"idle", "done"}
      /\ UNCHANGED <<clock, qas, files, uploads, faults>>
  BY DEF UpdateChatTitle, At, Req
<1>2. calls[s].req.title \in Text /\ faults' \in 0 .. MaxFaults
  BY <1>1, IsServing, RequestFields, NoMoreFaults
<1>3. CASE Live(calls[s].req.chat) /\ UpdateChat(calls[s].req.chat, "title", calls[s].req.title) /\ Succeed(s)
  <2>1. TablesNext /\ Evolve({}, {})
    BY <1>1, <1>2, <1>3, Updated
  <2> QED
    BY <1>1, <1>2, <1>3, <2>1, SucceedStep
<1>4. CASE Return(s, <<404>>) /\ UNCHANGED chats
  <2>1. TablesNext /\ Evolve({}, {})
    BY <1>1, <1>4, SameTables DEF tables
  <2>2. <<404>> \in Seq(Nat) /\ <<404>> # <<>>
    BY ErrorsAre
  <2> QED
    BY <1>1, <1>2, <1>4, <2>1, <2>2, ReturnStep
<1> QED
  BY <1>3, <1>4 DEF UpdateChatTitle, Affects, Req

LEMMA MoveStep ==
  ASSUME IInv, NEW s \in Slot, Move(s)
  PROVE  IInv'
<1>1. /\ calls[s].req.op = "Login" /\ calls[s].step = "move" /\ calls[s].step \notin {"idle", "done", "qa"}
      /\ UNCHANGED <<clock, qas, files, uploads, faults>>
  BY DEF Move, At, Req
<1>2. calls[s].req.user \in Text /\ faults' \in 0 .. MaxFaults
  BY <1>1, IsServing, RequestFields, NoMoreFaults
<1>3. CASE Live(calls[s].req.chat) /\ UpdateChat(calls[s].req.chat, "user", calls[s].req.user)
           /\ Continue(s, "list", <<>>, <<>>)
  <2>1. TablesNext /\ Evolve({}, {})
    BY <1>1, <1>2, <1>3, Updated
  <2>2. StepFits(calls[s].req.op, "list")
    BY <1>1 DEF StepFits
  <2> QED
    BY <1>1, <1>2, <1>3, <2>1, <2>2, GoOnStep
<1>4. CASE Return(s, <<500, 200>>) /\ UNCHANGED chats
  <2>1. TablesNext /\ Evolve({}, {})
    BY <1>1, <1>4, SameTables DEF tables
  <2>2. <<500, 200>> \in Seq(Nat) /\ <<500, 200>> # <<>>
    BY ErrorsAre
  <2> QED
    BY <1>1, <1>2, <1>4, <2>1, <2>2, ReturnStep
<1> QED
  BY <1>3, <1>4 DEF Move, Affects, Req

\* The walks through a user's chats and through the pages.
LEMMA WalkSteps ==
  ASSUME IInv, NEW s \in Slot, ListUserChats(s) \/ ListQAsOfNext(s) \/ Count(s) \/ ListPage(s)
  PROVE  IInv'
<1>1. calls[s].step \in {"list", "qas", "count", "page"} /\ Read(s)
  BY DEF ListUserChats, ListQAsOfNext, Count, ListPage, At
<1>2. /\ calls[s].req.op \in {"GetUserChats", "Login", "ListQAs"}
      /\ calls[s].req.op = "ListQAs" <=> calls[s].step \in {"count", "page"}
  BY <1>1, IsServing DEF StepFits
<1>3. \/ Succeed(s) \/ (\E got : SucceedWith(s, got))
      \/ \E step \in {"qas", "page", "count"} : \E got, todo :
           Continue(s, step, got, todo) /\ StepFits(calls[s].req.op, step)
  <2>1. CASE ListUserChats(s)
    <3>1. StepFits(calls[s].req.op, "qas")
      BY <1>2, <2>1 DEF StepFits, ListUserChats
    <3> QED
      BY <2>1, <3>1 DEF ListUserChats
  <2>2. CASE ListQAsOfNext(s)
    <3>1. StepFits(calls[s].req.op, "qas")
      BY <1>2, <2>2 DEF StepFits, ListQAsOfNext
    <3> QED
      BY <2>2, <3>1 DEF ListQAsOfNext
  <2>3. CASE Count(s) \/ ListPage(s)
    <3>1. StepFits(calls[s].req.op, "page") /\ StepFits(calls[s].req.op, "count")
      BY <2>3 DEF StepFits, Count, ListPage, At, Req
    <3> QED
      BY <2>3, <3>1 DEF Count, ListPage
  <2> QED
    BY <2>1, <2>2, <2>3
<1>4. TablesNext /\ Evolve({}, {}) /\ faults' \in 0 .. MaxFaults
  BY <1>1, OnlyReads
<1>5. calls[s].step \notin {"idle", "done", "qa"} /\ calls[s].req.op \notin {"Upload", "DeleteChat"}
  BY <1>1, <1>2
<1>6. CASE Succeed(s)
  BY <1>4, <1>5, <1>6, SucceedStep
<1>7. CASE \E got : SucceedWith(s, got)
  <2>1. PICK got : SucceedWith(s, got)
    BY <1>7
  <2> QED
    BY <1>4, <1>5, <2>1, SucceedWithStep
<1>8. CASE \E step \in {"qas", "page", "count"} : \E got, todo :
             Continue(s, step, got, todo) /\ StepFits(calls[s].req.op, step)
  <2>1. PICK step, got, todo :
          step \in {"qas", "page", "count"} /\ Continue(s, step, got, todo) /\ StepFits(calls[s].req.op, step)
    BY <1>8
  <2>2. step \notin {"idle", "done", "parse", "rows", "qa", "files", "embed", "record"}
    BY <2>1
  <2> QED
    BY <1>4, <1>5, <2>1, <2>2, GoOnStep
<1> QED
  BY <1>3, <1>6, <1>7, <1>8

LEMMA DeleteStep ==
  ASSUME IInv, NEW s \in Slot, Delete(s)
  PROVE  IInv'
<1>1. /\ calls[s].req.op = "DeleteChat" /\ calls[s].step = "statement" /\ calls[s].step \notin {"idle", "done"}
      /\ UNCHANGED <<clock, qas, files, uploads, faults>>
  BY DEF Delete, At, Req
<1>2. faults' \in 0 .. MaxFaults
  BY <1>1, NoMoreFaults
<1>3. CASE Live(calls[s].req.chat) /\ DeleteChat(calls[s].req.chat) /\ Succeed(s)
  <2>1. /\ TablesNext /\ Evolve({}, {})
        /\ calls[s].req.chat \in DOMAIN chats' /\ chats'[calls[s].req.chat].deleted
    BY <1>1, <1>3, Deleted
  <2>2. Calls /\ Serving(calls[s]) /\ IsCall(calls[s]) /\ calls[s].failed \in BOOLEAN
    BY <1>1, Facts, IsServing
  <2>3. PICK c, st : c = calls[s] /\ st = <<Status(c.req.op)>>
    OBVIOUS
  <2>4. PICK d : d = GoneOn(c, "done", c.reply \o st, c.failed, c.got, c.todo)
    OBVIOUS
  <2>5. Becomes(s, d)
    <3>1. Return(s, st)
      BY <1>3, <2>3 DEF Succeed, Req
    <3> QED
      BY <2>2, <2>3, <2>4, <3>1, ReturnIs
  <2>6. st \in Seq(Nat) /\ st # <<>>
    BY <2>3, StatusIs
  <2>7. Serving(c) /\ c.failed \in BOOLEAN
    BY <2>2, <2>3
  <2>8. CallOK(d) /\ d.step = "done" /\ d.req = c.req
    BY ONLY <2>4, <2>6, <2>7, EndsAs
  <2>9. OneOK(d, chats', qas', files', uploads')
    BY <1>1, <2>1, <2>3, <2>8 DEF OneOK, ParseOK, UploadOK, FilesOK, DeleteOK
  <2> QED
    BY <1>2, <2>1, <2>5, <2>8, <2>9, PlainStep
<1>4. CASE Return(s, <<404>>) /\ UNCHANGED chats
  <2>1. TablesNext /\ Evolve({}, {})
    BY <1>1, <1>4, SameTables DEF tables
  <2>2. <<404>> \in Seq(Nat) /\ <<404>> # <<>> /\ Head(<<404>>) \notin 200 .. 299
    BY ErrorsAre
  <2> QED
    BY <1>1, <1>2, <1>4, <2>1, <2>2, ReturnStep
<1> QED
  BY <1>3, <1>4 DEF Delete, Req

---------------------------------------------------------------------------
(* Steps that change the QAs.                                              *)

LEMMA OnlyQAs ==
  ASSUME IInv, UNCHANGED <<clock, chats, files, uploads>>, QAsOK(clock, qas', files, uploads), NEW U,
         DOMAIN qas \subseteq DOMAIN qas',
         \A q \in DOMAIN qas : qas'[q].upload = qas[q].upload /\ qas'[q].chat = qas[q].chat,
         \A q \in DOMAIN qas' \ DOMAIN qas : qas'[q].upload = None \/ qas'[q].upload \in U
  PROVE  TablesNext /\ Evolve(U, {})
<1>1. /\ clock \in Nat /\ ChatsOK(clock, chats) /\ FilesAndUploadsOK(files, uploads)
  BY Facts
<1>2. /\ clock' = clock /\ chats' = chats /\ files' = files /\ uploads' = uploads
  OBVIOUS
<1>3. TablesNext
  BY <1>1, <1>2 DEF TablesNext
<1>4. Evolve(U, {})
  BY <1>2 DEF Evolve, Evolves
<1> QED
  BY <1>3, <1>4

QAFits(r, n, fs, us) ==
  /\ r \in QARow /\ r.happened <= n
  /\ r.at = r.happened + (IF r.upload = None THEN Zone ELSE 0)
  /\ r.upload # None =>
       /\ ~r.answered /\ r.upload \in DOMAIN us
       /\ us[r.upload].broken \/ \A f \in us[r.upload].files : fs[f].upload = r.upload

LEMMA QAsFit ==
  ASSUME NEW n, NEW qs \in Seq(QARow), NEW fs, NEW us
  PROVE  QAsOK(n, qs, fs, us) <=> \A q \in DOMAIN qs : QAFits(qs[q], n, fs, us)
<1>1. \A q \in DOMAIN qs : qs[q] \in QARow
  OBVIOUS
<1> QED
  BY <1>1 DEF QAsOK, QAFits, Seen

LEMMA QAAppended ==
  ASSUME NEW n, NEW qs, NEW fs, NEW us, QAsOK(n, qs, fs, us), NEW r, QAFits(r, n, fs, us)
  PROVE  /\ QAsOK(n, Append(qs, r), fs, us) /\ DOMAIN qs \subseteq DOMAIN Append(qs, r)
         /\ \A q \in DOMAIN qs : Append(qs, r)[q] = qs[q]
         /\ Len(qs) + 1 \in DOMAIN Append(qs, r) /\ Append(qs, r)[Len(qs) + 1] = r
         /\ \A q \in DOMAIN Append(qs, r) \ DOMAIN qs : Append(qs, r)[q] = r
<1> DEFINE ds == Append(qs, r)
<1>1. qs \in Seq(QARow) /\ r \in QARow
  BY DEF QAsOK, QAFits
<1>2. /\ ds \in Seq(QARow) /\ DOMAIN ds = 1 .. Len(qs) + 1 /\ DOMAIN qs = 1 .. Len(qs) /\ Len(qs) \in Nat
      /\ ds[Len(qs) + 1] = r /\ \A q \in DOMAIN qs : ds[q] = qs[q]
  BY <1>1
<1> HIDE DEF ds
<1>3. \A q \in DOMAIN ds \ DOMAIN qs : q = Len(qs) + 1
  BY <1>2
<1>4. DOMAIN qs \subseteq DOMAIN ds /\ Len(qs) + 1 \in DOMAIN ds
  BY <1>2
<1>5. \A q \in DOMAIN qs : QAFits(qs[q], n, fs, us)
  BY <1>1, QAsFit
<1>6. \A q \in DOMAIN ds : QAFits(ds[q], n, fs, us)
  BY <1>2, <1>3, <1>5
<1>7. QAsOK(n, ds, fs, us)
  BY <1>2, <1>6, QAsFit
<1>8. \A q \in DOMAIN ds \ DOMAIN qs : ds[q] = r
  BY <1>2, <1>3
<1> QED
  BY <1>2, <1>4, <1>7, <1>8 DEF ds

\* Rows that are inserted, answered or deleted keep what else they say.
LEMMA QAsChanged ==
  ASSUME NEW n, NEW qs, NEW fs, NEW us, QAsOK(n, qs, fs, us), NEW ds \in Seq(QARow), DOMAIN ds = DOMAIN qs,
         \A q \in DOMAIN qs : /\ ds[q].happened = qs[q].happened /\ ds[q].at = qs[q].at
                              /\ ds[q].upload = qs[q].upload
                              /\ ds[q].answered = qs[q].answered \/ qs[q].upload = None
  PROVE  QAsOK(n, ds, fs, us)
  BY DEF QAsOK, Seen

LEMMA RowSet ==
  ASSUME NEW r \in QARow, NEW x \in {"there", "deleted"}
  PROVE  LET d == [r EXCEPT !.row = x]
             a == [r EXCEPT !.answered = TRUE]
         IN  /\ d \in QARow /\ d.happened = r.happened /\ d.at = r.at /\ d.upload = r.upload /\ d.chat = r.chat
             /\ d.answered = r.answered
             /\ a \in QARow /\ a.happened = r.happened /\ a.at = r.at /\ a.upload = r.upload /\ a.chat = r.chat
  BY DEF QARow

LEMMA DeleteRowsStep ==
  ASSUME IInv, NEW s \in Slot, DeleteRows(s)
  PROVE  IInv'
<1>1. /\ calls[s].req.op = "DeleteQAs" /\ calls[s].step = "statement" /\ calls[s].step \notin {"idle", "done"}
      /\ UNCHANGED <<clock, chats, files, uploads, faults>> /\ DeleteQAs(calls[s].req.ids)
      /\ Return(s, <<404>>) \/ Succeed(s)
  BY DEF DeleteRows, At, Req
<1>2. clock \in Nat /\ QAsOK(clock, qas, files, uploads) /\ qas \in Seq(QARow) /\ faults' \in 0 .. MaxFaults
  BY <1>1, Facts, NoMoreFaults DEF QAsOK
<1>3. /\ DOMAIN qas' = DOMAIN qas
      /\ \A q \in DOMAIN qas : qas'[q] = qas[q] \/ qas'[q] = [qas[q] EXCEPT !.row = "deleted"]
  BY <1>1 DEF DeleteQAs
<1>4. ASSUME NEW q \in DOMAIN qas
      PROVE  /\ qas'[q] \in QARow
             /\ qas'[q].happened = qas[q].happened /\ qas'[q].at = qas[q].at
             /\ qas'[q].upload = qas[q].upload /\ qas'[q].chat = qas[q].chat
             /\ qas'[q].answered = qas[q].answered
  <2>1. qas[q] \in QARow
    BY <1>2
  <2>2. CASE qas'[q] = [qas[q] EXCEPT !.row = "deleted"]
    BY <2>1, <2>2, RowSet
  <2> QED
    BY <1>3, <2>1, <2>2
<1>5. qas' \in Seq(QARow)
  <2>1. Len(qas) \in Nat /\ DOMAIN qas = 1 .. Len(qas)
    BY <1>2
  <2>2. qas' = [q \in 1 .. Len(qas) |-> qas'[q]]
    BY <1>1, <1>3, <2>1 DEF DeleteQAs
  <2>3. qas' \in [1 .. Len(qas) -> QARow]
    BY <1>4, <2>1, <2>2
  <2> QED
    BY <2>1, <2>3, SequenceIs
<1>6. QAsOK(clock, qas', files, uploads)
  BY <1>2, <1>3, <1>4, <1>5, QAsChanged
<1>7. TablesNext /\ Evolve({}, {})
  BY <1>1, <1>3, <1>4, <1>6, OnlyQAs
<1>8. <<404>> \in Seq(Nat) /\ <<404>> # <<>>
  BY ErrorsAre
<1>9. CASE Return(s, <<404>>)
  BY <1>1, <1>2, <1>7, <1>8, <1>9, ReturnStep
<1>10. CASE Succeed(s)
  BY <1>1, <1>2, <1>7, <1>10, SucceedStep
<1> QED
  BY <1>1, <1>9, <1>10

\* The consumer's steps are of no call.
LEMMA NoCallStep ==
  ASSUME IInv, UNCHANGED <<calls, faults>>, TablesNext, Evolve({}, {})
  PROVE  IInv'
<1>1. ASSUME NEW t \in Slot PROVE OneOK(calls[t], chats', qas', files', uploads')
  <2>1. FilesAndUploadsOK(files, uploads) /\ OneOK(calls[t], chats, qas, files, uploads)
    BY Facts
  <2> QED
    BY <2>1, OthersStay DEF Evolve
<1>2. Sound([clock |-> clock', chats |-> chats', qas |-> qas', files |-> files', uploads |-> uploads'])
  BY SoundIs DEF TablesNext
<1> QED
  BY <1>1, <1>2 DEF IInv, Tables

LEMMA ConsumeStep ==
  ASSUME IInv, NEW q \in DOMAIN qas, Consume(q)
  PROVE  IInv'
<1>1. UNCHANGED <<clock, chats, files, uploads, calls, faults>>
  BY DEF Consume
<1>2. clock \in Nat /\ QAsOK(clock, qas, files, uploads) /\ qas \in Seq(QARow) /\ qas[q] \in QARow
  BY Facts DEF QAsOK
<1>3. PICK r : /\ qas' = [qas EXCEPT ![q] = r]
               /\ \/ r = [qas[q] EXCEPT !.row = "there"]
                  \/ r = [qas[q] EXCEPT !.answered = TRUE] /\ qas[q].upload = None
  BY <1>2 DEF Consume
<1>4. /\ r \in QARow /\ r.happened = qas[q].happened /\ r.at = qas[q].at /\ r.upload = qas[q].upload
      /\ r.chat = qas[q].chat /\ (r.answered = qas[q].answered \/ qas[q].upload = None)
  BY <1>2, <1>3, RowSet
<1>5. /\ qas' \in Seq(QARow) /\ DOMAIN qas' = DOMAIN qas /\ qas'[q] = r
      /\ \A p \in DOMAIN qas \ {q} : qas'[p] = qas[p]
  BY <1>2, <1>3, <1>4
<1>6. \A p \in DOMAIN qas : /\ qas'[p].happened = qas[p].happened /\ qas'[p].at = qas[p].at
                            /\ qas'[p].upload = qas[p].upload /\ qas'[p].chat = qas[p].chat
                            /\ qas'[p].answered = qas[p].answered \/ qas[p].upload = None
  BY <1>4, <1>5
<1>7. QAsOK(clock, qas', files, uploads)
  BY <1>2, <1>5, <1>6, QAsChanged
<1>8. TablesNext /\ Evolve({}, {})
  BY <1>1, <1>5, <1>6, <1>7, OnlyQAs
<1> QED
  BY <1>1, <1>8, NoCallStep

LEMMA TickStep ==
  ASSUME IInv, Tick
  PROVE  IInv'
<1>1. /\ clock' \in Nat /\ clock' > clock /\ UNCHANGED <<chats, qas, files, uploads, calls, faults>>
  BY ApiAssumption DEF Tick
<1>2. clock \in Nat /\ ChatsOK(clock, chats) /\ QAsOK(clock, qas, files, uploads) /\ FilesAndUploadsOK(files, uploads)
  BY Facts
<1>3. ChatsOK(clock', chats)
  <2>1. ASSUME NEW c \in DOMAIN chats PROVE chats[c].updated <= clock'
    <3>1. chats[c] \in ChatRow /\ chats[c].updated <= clock
      BY <1>2 DEF ChatsOK
    <3> QED
      BY <1>1, <1>2, <3>1 DEF ChatRow
  <2> QED
    BY <1>2, <2>1 DEF ChatsOK
<1>4. QAsOK(clock', qas, files, uploads)
  <2>1. ASSUME NEW q \in DOMAIN qas PROVE qas[q].happened <= clock'
    <3>1. qas[q] \in QARow /\ qas[q].happened <= clock
      BY <1>2 DEF QAsOK
    <3> QED
      BY <1>1, <1>2, <3>1 DEF QARow
  <2> QED
    BY <1>2, <2>1 DEF QAsOK
<1>5. TablesNext
  BY <1>1, <1>2, <1>3, <1>4 DEF TablesNext
<1>6. Evolve({}, {})
  BY <1>1 DEF Evolve, Evolves
<1> QED
  BY <1>1, <1>5, <1>6, NoCallStep

QAOf(c, session, jobGroup, upload, n, at, row) ==
  [chat |-> c, session |-> session, jobGroup |-> jobGroup, upload |-> upload, happened |-> n, at |-> at,
   answered |-> FALSE, refs |-> FALSE, vote |-> "", tokens |-> 0, row |-> row]

LEMMA QAOfType ==
  ASSUME NEW c \in Nat, NEW session \in Text, NEW jobGroup \in Text, NEW upload \in Nat \union {None},
         NEW n \in Nat, NEW at \in Nat, NEW row \in {"asked", "there"}
  PROVE  QAOf(c, session, jobGroup, upload, n, at, row) \in QARow
  BY Texts DEF QAOf, QARow

AskedQA(c, session, jobGroup, n) == QAOf(c, session, jobGroup, None, n, n + Zone, "asked")

UploadedQA(c, u, n) == QAOf(c, "", "", u, n, n, "there")

LEMMA AskedFits ==
  ASSUME NEW c \in Nat, NEW session \in Text, NEW jobGroup \in Text, NEW n \in Nat, NEW fs, NEW us
  PROVE  /\ QAFits(AskedQA(c, session, jobGroup, n), n, fs, us)
         /\ AskedQA(c, session, jobGroup, n).upload = None
<1> DEFINE r == AskedQA(c, session, jobGroup, n)
<1>1. n + Zone \in Nat /\ n <= n
  BY DEF Zone
<1>2. /\ r = [f \in DOMAIN r |-> r[f]]
      /\ DOMAIN r = {"chat", "session", "jobGroup", "upload", "happened", "at", "answered", "refs", "vote",
                     "tokens", "row"}
      /\ r.chat = c /\ r.session = session /\ r.jobGroup = jobGroup /\ r.upload = None /\ r.happened = n
      /\ r.at = n + Zone /\ r.answered = FALSE /\ r.refs = FALSE /\ r.vote = "" /\ r.tokens = 0
      /\ r.row = "asked"
  BY DEF AskedQA, QAOf
<1> HIDE DEF r
<1>3. r \in QARow
  <2>1. None \in Nat \union {None} /\ "asked" \in {"asked", "there"}
    OBVIOUS
  <2>2. QAOf(c, session, jobGroup, None, n, n + Zone, "asked") \in QARow
    BY <1>1, <2>1, QAOfType
  <2> QED
    BY <2>2 DEF r, AskedQA
<1>4. QAFits(r, n, fs, us)
  BY <1>1, <1>2, <1>3 DEF QAFits
<1> QED
  BY <1>2, <1>4 DEF r

LEMMA UploadedFits ==
  ASSUME NEW c \in Nat, NEW u \in Nat, NEW n \in Nat, NEW fs, NEW us,
         u \in DOMAIN us, us[u].broken \/ \A f \in us[u].files : fs[f].upload = u
  PROVE  /\ QAFits(UploadedQA(c, u, n), n, fs, us)
         /\ UploadedQA(c, u, n).upload = u /\ UploadedQA(c, u, n).chat = c
<1> DEFINE r == UploadedQA(c, u, n)
<1>1. "" \in Text
  BY Texts
<1>2. /\ r = [f \in DOMAIN r |-> r[f]]
      /\ DOMAIN r = {"chat", "session", "jobGroup", "upload", "happened", "at", "answered", "refs", "vote",
                     "tokens", "row"}
      /\ r.chat = c /\ r.session = "" /\ r.jobGroup = "" /\ r.upload = u /\ r.happened = n
      /\ r.at = n /\ r.answered = FALSE /\ r.refs = FALSE /\ r.vote = "" /\ r.tokens = 0
      /\ r.row = "there"
  BY DEF UploadedQA, QAOf
<1> HIDE DEF r
<1>3. r \in QARow
  <2>1. u \in Nat \union {None} /\ "there" \in {"asked", "there"}
    OBVIOUS
  <2>2. QAOf(c, "", "", u, n, n, "there") \in QARow
    BY <1>1, <2>1, QAOfType
  <2> QED
    BY <2>2 DEF r, UploadedQA
<1>4. r.upload # None
  BY <1>2, u \in Nat, NoneIsNoNumber, Zenon
<1>5. QAFits(r, n, fs, us)
  <2>1. r.happened <= n /\ r.at = r.happened + (IF r.upload = None THEN Zone ELSE 0)
    <3>1. (IF r.upload = None THEN Zone ELSE 0) = 0
      BY <1>4
    <3>2. n + 0 = n /\ n <= n
      OBVIOUS
    <3> QED
      BY <1>2, <3>1, <3>2
  <2>2. us[r.upload].broken \/ \A f \in us[r.upload].files : fs[f].upload = r.upload
    BY <1>2
  <2> QED
    BY <1>2, <1>3, <2>1, <2>2 DEF QAFits
<1> QED
  BY <1>2, <1>5 DEF r

LEMMA RecordStep ==
  ASSUME IInv, NEW s \in Slot, Record(s)
  PROVE  IInv'
<1>1. /\ calls[s].req.op \in {"Ask", "AskFile"} /\ calls[s].step = "record" /\ calls[s].step \notin {"idle", "done"}
      /\ UNCHANGED <<clock, chats, files, uploads, faults>>
  BY DEF Record, Req
<1>2. /\ calls[s].req.chat \in Nat /\ calls[s].req.session \in Text /\ calls[s].req.jobGroup \in Text
      /\ faults' \in 0 .. MaxFaults
  <2>1. calls[s].req \in Request
    BY <1>1, IsServing
  <2> QED
    BY <1>1, <2>1, RequestFields, NoMoreFaults
<1>3. CASE Return(s, <<500>>) /\ UNCHANGED qas
  <2>1. TablesNext /\ Evolve({}, {})
    BY <1>1, <1>3, SameTables DEF tables
  <2>2. <<500>> \in Seq(Nat) /\ <<500>> # <<>>
    BY ErrorsAre
  <2> QED
    BY <1>1, <1>2, <1>3, <2>1, <2>2, ReturnStep
<1>4. CASE QuestionCreated(calls[s].req.chat, calls[s].req.session, calls[s].req.jobGroup) /\ Succeed(s)
  <2> DEFINE r == AskedQA(calls[s].req.chat, calls[s].req.session, calls[s].req.jobGroup, clock)
  <2>1. clock \in Nat /\ QAsOK(clock, qas, files, uploads)
    BY Facts
  <2>2. qas' = Append(qas, r)
    BY <1>4 DEF QuestionCreated, AskedQA, QAOf
  <2>3. QAFits(r, clock, files, uploads) /\ r.upload = None
    BY <1>2, <2>1, AskedFits
  <2> HIDE DEF r
  <2>4. /\ QAsOK(clock, Append(qas, r), files, uploads) /\ DOMAIN qas \subseteq DOMAIN Append(qas, r)
        /\ \A q \in DOMAIN qas : Append(qas, r)[q] = qas[q]
        /\ \A q \in DOMAIN Append(qas, r) \ DOMAIN qas : Append(qas, r)[q] = r
    BY <2>1, <2>3, QAAppended
  <2>5. /\ QAsOK(clock, qas', files, uploads) /\ DOMAIN qas \subseteq DOMAIN qas'
        /\ \A q \in DOMAIN qas : qas'[q] = qas[q]
        /\ \A q \in DOMAIN qas' \ DOMAIN qas : qas'[q] = r
    BY <2>2, <2>4, Zenon
  <2>6. TablesNext /\ Evolve({}, {})
    BY <1>1, <2>3, <2>5, OnlyQAs
  <2> QED
    BY <1>1, <1>2, <1>4, <2>6, SucceedStep
<1> QED
  BY <1>3, <1>4 DEF Record, Req

\* A failure that is answered with an error, whatever follows it.
LEMMA ErrorStep ==
  ASSUME IInv, NEW s \in Slot, calls[s].step \notin {"idle", "done"}, NEW st \in Seq(Nat), st # <<>>,
         Head(st) \notin 200 .. 299, EndsFailed(s, st),
         UNCHANGED tables, faults < MaxFaults, faults' = faults + 1
  PROVE  IInv'
<1>1. TablesNext /\ Evolve({}, {}) /\ faults' \in 0 .. MaxFaults
  BY SameTables, NoMoreFaults
<1>2. PICK fl \in BOOLEAN : fl = TRUE
  OBVIOUS
<1>3. Becomes(s, GoneOn(calls[s], "done", calls[s].reply \o st, fl, calls[s].got, calls[s].todo))
  <2>1. Calls /\ IsCall(calls[s])
    BY Facts
  <2>2. Becomes(s, GoneOn(calls[s], "done", calls[s].reply \o st, TRUE, calls[s].got, calls[s].todo))
    BY <2>1, FailsIs
  <2> QED
    BY <1>2, <2>2
<1>4. /\ fl => calls[s].failed \/ Head(st) \notin 200 .. 299
      /\ calls[s].req.op \in {"Upload", "DeleteChat"} => Head(st) \notin 200 .. 299 \/ calls[s].reply # <<>>
  OBVIOUS
<1>5. IInv /\ calls[s].step \notin {"idle", "done"} /\ st \in Seq(Nat) /\ st # <<>> /\ fl \in BOOLEAN
  OBVIOUS
<1> QED
  BY ONLY s \in Slot, <1>1, <1>3, <1>4, <1>5, EndStep

LEMMA FailsStep ==
  ASSUME IInv, NEW s \in Slot, calls[s].step \notin OwnErrors, Fails(s)
  PROVE  IInv'
<1> DEFINE st == WithError(calls[s].req.op, 500)
<1>1. calls[s].step \notin {"idle", "done"} /\ UNCHANGED tables /\ faults < MaxFaults /\ faults' = faults + 1
      /\ EndsFailed(s, st)
  BY DEF OwnErrors, Fails, Req, EndsFailed
<1>2. st \in Seq(Nat) /\ st # <<>> /\ Head(st) \notin 200 .. 299
  <2>1. \A n \in Nat : Head(<<500, n>>) \notin 200 .. 299
    OBVIOUS
  <2>2. CASE calls[s].req.op \in GoesOn
    BY <2>1, <2>2, ErrorsAre DEF WithError, Status
  <2>3. CASE calls[s].req.op \notin GoesOn
    BY <2>3 DEF WithError
  <2> QED
    BY <2>2, <2>3
<1> HIDE DEF st
<1> QED
  BY <1>1, <1>2, ErrorStep

LEMMA DiskFailsStep ==
  ASSUME IInv, NEW s \in Slot, DiskFails(s)
  PROVE  IInv'
<1>1. PICK errors \in {<<500>>, <<500, 500>>} :
        calls' = [calls EXCEPT ![s] = Ended([@ EXCEPT !.failed = TRUE], errors \o <<200>>)]
  BY DEF DiskFails
<1>2. calls[s].step = "parse" /\ UNCHANGED tables /\ faults < MaxFaults /\ faults' = faults + 1
  BY DEF DiskFails, At
<1>3. PICK st : st = errors \o <<200>>
  OBVIOUS
<1>4. st \in Seq(Nat) /\ st # <<>> /\ Head(st) \notin 200 .. 299
  <2>1. CASE errors = <<500>>
    BY <1>3, <2>1
  <2>2. CASE errors = <<500, 500>>
    BY <1>3, <2>2
  <2> QED
    BY <2>1, <2>2
<1>5. EndsFailed(s, st)
  BY <1>1, <1>3 DEF EndsFailed
<1>6. calls[s].step \notin {"idle", "done"}
  BY <1>2
<1> QED
  BY <1>2, <1>4, <1>5, <1>6, ErrorStep

LEMMA ConvertStep ==
  ASSUME IInv, NEW s \in Slot, Convert(s)
  PROVE  IInv'
<1>1. PICK status : Continue(s, "poll", <<>>, <<status>>)
  BY DEF Convert
<1>2. calls[s].step = "poll" /\ Read(s) /\ calls[s].step \notin {"idle", "done", "qa"}
  BY DEF Convert
<1>3. TablesNext /\ Evolve({}, {}) /\ faults' \in 0 .. MaxFaults
  BY <1>2, OnlyReads
<1>4. StepFits(calls[s].req.op, "poll")
  BY <1>2, IsServing
<1> QED
  BY <1>1, <1>2, <1>3, <1>4, GoOnStep

\* A history that was not read is the failure that the reply does not show.
LEMMA HistoryStep ==
  ASSUME IInv, NEW s \in Slot, History(s)
  PROVE  IInv'
<1>1. /\ calls[s].req.op = "Ask" /\ calls[s].step = "history" /\ UNCHANGED tables
      /\ calls[s].step \notin {"idle", "done", "qa"}
  BY DEF History, At, Req
<1>2. TablesNext /\ Evolve({}, {})
  BY <1>1, SameTables
<1>3. StepFits(calls[s].req.op, "record")
  BY <1>1 DEF StepFits
<1>4. CASE UNCHANGED faults /\ \E h : Continue(s, "record", h, <<>>)
  <2>1. PICK h : Continue(s, "record", h, <<>>)
    BY <1>4
  <2>2. faults' \in 0 .. MaxFaults
    BY <1>4, NoMoreFaults
  <2> QED
    BY <1>1, <1>2, <1>3, <2>1, <2>2, GoOnStep
<1>5. CASE /\ faults < MaxFaults /\ faults' = faults + 1
           /\ calls' = [calls EXCEPT ![s].step = "record", ![s].failed = TRUE]
  <2>1. Calls /\ IsCall(calls[s]) /\ Serving(calls[s])
    BY <1>1, Facts, IsServing
  <2>2. PICK c : c = calls[s]
    OBVIOUS
  <2>3. PICK d : d = GoneOn(c, "record", c.reply, TRUE, c.got, c.todo)
    OBVIOUS
  <2>4. Becomes(s, d)
    <3>1. calls' = [calls EXCEPT ![s] = [c EXCEPT !.step = "record", !.failed = TRUE]]
      BY <1>5, <2>1, <2>2 DEF Calls
    <3>2. [c EXCEPT !.step = "record", !.failed = TRUE] = d
      BY <2>1, <2>2, <2>3, SetStepFailed
    <3> QED
      BY <3>1, <3>2 DEF Becomes
  <2>5. d.req = c.req /\ d.step = "record" /\ d.reply = c.reply /\ d.failed = TRUE /\ IsCall(d)
    <3>1. PICK fl : fl = TRUE
      OBVIOUS
    <3>2. d = CallIs(c.req, "record", c.reply, fl, c.got, c.todo, c.start)
      BY <2>3, <3>1 DEF GoneOn
    <3>3. d.req = c.req /\ d.step = "record" /\ d.reply = c.reply /\ d.failed = fl /\ IsCall(d)
      BY <3>2, Fields DEF IsCall
    <3> QED
      BY <3>1, <3>3
  <2>6. c.req.op = "Ask" /\ CallOK(c) /\ c.step = "history"
    BY <1>1, <2>1, <2>2 DEF Serving
  <2>7. CallOK(d)
    BY <2>5, <2>6 DEF CallOK, StepFits, IsSuccess
  <2>8. OneOK(d, chats', qas', files', uploads')
    BY <2>5, <2>6, <2>7 DEF OneOK, ParseOK, UploadOK, FilesOK, DeleteOK, IsSuccess
  <2>9. faults' \in 0 .. MaxFaults
    BY <1>5, NoMoreFaults
  <2> QED
    BY <1>2, <2>4, <2>5, <2>8, <2>9, PlainStep
<1> QED
  BY <1>4, <1>5 DEF History

---------------------------------------------------------------------------
(* A question to the files of a chat.                                      *)

\* The rows a statement sorts are among those it finds.
LEMMA FoundUpload ==
  ASSUME IInv, NEW c, NEW u \in GetUploadId(c), u # None
  PROVE  u \in Nat /\ \E q \in DOMAIN qas : qas[q].upload = u
<1> DEFINE S == {q \in Rows : qas[q].chat = c /\ qas[q].upload # None}
           at == [q \in S |-> -qas[q].at]
<1>1. qas \in Seq(QARow) /\ Len(qas) \in Nat /\ DOMAIN qas = 1 .. Len(qas)
  BY Facts DEF QAsOK
<1>2. S \subseteq DOMAIN qas /\ IsFiniteSet(S)
  <2>1. S \subseteq DOMAIN qas
    BY DEF Rows
  <2>2. IsFiniteSet(1 .. Len(qas))
    BY <1>1, FS_Interval
  <2>3. S \subseteq 1 .. Len(qas)
    BY <1>1, <2>1
  <2> HIDE DEF S
  <2> QED
    BY <2>1, <2>2, <2>3, FS_Subset
<1>3. at \in [S -> Int]
  <2>1. ASSUME NEW q \in S PROVE -qas[q].at \in Int
    <3>1. qas[q] \in QARow
      BY <1>1, <1>2
    <3> QED
      BY <3>1 DEF QARow
  <2> QED
    BY <2>1
<1>4. S # {} /\ u \in {qas[s[1]].upload : s \in Orders(S, at)}
  BY DEF GetUploadId, Descending
<1> HIDE DEF S, at
<1>5. PICK s \in Sorted(S, at) : u = qas[s[1]].upload
  BY <1>2, <1>3, <1>4, OrdersAre
<1>6. Cardinality(S) \in Nat \ {0}
  BY <1>2, <1>4, FS_CardinalityType, FS_EmptySet
<1>7. s[1] \in S
  BY <1>5, <1>6 DEF Sorted
<1>8. qas[s[1]] \in QARow
  BY <1>1, <1>2, <1>7
<1>9. u \in Nat
  <2>1. u \in Nat \union {None}
    BY <1>5, <1>8 DEF QARow
  <2> QED
    BY <2>1
<1> QED
  BY <1>2, <1>5, <1>7, <1>9

HandleWith(u, fs) == [upload |-> u, files |-> fs]

HandleOf(u) == HandleWith(u, {})

LEMMA HandleOfIs ==
  ASSUME NEW c, NEW u \in Nat, c.got = HandleOf(u)
  PROVE  Handle(c) /\ c.got.upload = u
  BY DEF Handle, HandleOf, HandleWith

LEMMA FindUploadStep ==
  ASSUME IInv, NEW s \in Slot, FindUpload(s)
  PROVE  IInv'
<1>1. calls[s].step = "upload" /\ UNCHANGED tables /\ calls[s].step \notin {"idle", "done", "qa"}
      /\ TablesNext /\ Evolve({}, {})
  BY SameTables DEF FindUpload
<1>2. calls[s].req.op = "AskFile" /\ Serving(calls[s]) /\ Calls /\ IsCall(calls[s])
  BY <1>1, Facts, IsServing DEF StepFits
<1>3. ASSUME NEW u \in Nat, u = 0 \/ \E q \in DOMAIN qas : qas[q].upload = u,
             Continue(s, "files", HandleOf(u), <<>>), faults' \in 0 .. MaxFaults
      PROVE  IInv'
  <2>1. PICK c, d, h : c = calls[s] /\ h = HandleOf(u) /\ d = GoneOn(c, "files", c.reply, c.failed, h, <<>>)
    OBVIOUS
  <2>2. Becomes(s, d)
    <3>1. Continue(s, "files", h, <<>>)
      BY <1>3, <2>1
    <3> QED
      BY <1>2, <2>1, <3>1, ContinueIs
  <2>3. Serving(c) /\ StepFits(c.req.op, "files") /\ c.step # "qa"
    BY <1>1, <1>2, <2>1 DEF StepFits
  <2>4. CallOK(d) /\ d.step = "files" /\ d.req = c.req /\ d.got = h
    BY <2>1, <2>3, GoesOnAs
  <2>5. Handle(d) /\ d.got.upload = u
    BY <2>1, <2>4, HandleOfIs
  <2>6. OneOK(d, chats', qas', files', uploads')
    <3>1. qas' = qas
      BY <1>1 DEF tables
    <3> QED
      BY <1>3, <2>4, <2>5, <3>1 DEF OneOK, ParseOK, UploadOK, FilesOK, DeleteOK, IsSuccess
  <2> QED
    BY <1>1, <1>3, <2>2, <2>4, <2>6, PlainStep
<1>4. CASE UNCHANGED faults /\ \E u \in GetUploadId(Req(s).chat) :
             IF u = None THEN Return(s, <<500>>) ELSE Continue(s, "files", HandleOf(u), <<>>)
  <2>1. PICK u \in GetUploadId(Req(s).chat) :
             IF u = None THEN Return(s, <<500>>) ELSE Continue(s, "files", HandleOf(u), <<>>)
    BY <1>4
  <2>2. faults' \in 0 .. MaxFaults
    BY <1>4, NoMoreFaults
  <2>3. CASE u = None
    <3>1. <<500>> \in Seq(Nat) /\ <<500>> # <<>>
      BY ErrorsAre
    <3> QED
      BY <1>1, <1>2, <2>1, <2>2, <2>3, <3>1, ReturnStep
  <2>4. CASE u # None
    BY <1>3, <2>1, <2>2, <2>4, FoundUpload
  <2> QED
    BY <2>3, <2>4
<1>5. CASE faults < MaxFaults /\ faults' = faults + 1 /\ Continue(s, "files", HandleOf(0), <<>>)
  BY <1>3, <1>5, NoMoreFaults
<1> QED
  BY <1>4, <1>5 DEF FindUpload, HandleOf, HandleWith

\* The files with a row of the upload are all files of it, unless it is broken.
LEMMA FoundFiles ==
  ASSUME IInv, NEW u, NEW q \in DOMAIN qas, qas[q].upload = u, u # None
  PROVE  u \in DOMAIN uploads /\ (uploads[u].broken \/ GetFiles(u) = uploads[u].files)
<1>1. QAsOK(clock, qas, files, uploads) /\ FilesAndUploadsOK(files, uploads)
  BY Facts
<1>2. u \in DOMAIN uploads /\ (uploads[u].broken \/ \A f \in uploads[u].files : files[f].upload = u)
  BY <1>1 DEF QAsOK, Seen
<1>3. GetFiles(u) \subseteq uploads[u].files
  BY <1>1 DEF GetFiles, FilesAndUploadsOK
<1>4. uploads[u].files \subseteq DOMAIN files
  BY <1>1, <1>2 DEF FilesAndUploadsOK
<1> QED
  BY <1>2, <1>3, <1>4 DEF GetFiles

LEMMA FindFilesStep ==
  ASSUME IInv, NEW s \in Slot, FindFiles(s)
  PROVE  IInv'
<1>1. /\ calls[s].step = "files" /\ calls[s].step \notin {"idle", "done", "qa"}
      /\ TablesNext /\ Evolve({}, {}) /\ faults' \in 0 .. MaxFaults
  BY OnlyReads DEF FindFiles
<1>2. calls[s].req.op = "AskFile" /\ Serving(calls[s]) /\ Calls /\ IsCall(calls[s])
  BY <1>1, Facts, IsServing DEF StepFits
<1>3. /\ Handle(calls[s])
      /\ calls[s].got.upload = 0 \/ \E q \in DOMAIN qas : qas[q].upload = calls[s].got.upload
  BY <1>1, Facts DEF OneOK, FilesOK
<1>4. PICK c, d, h : /\ c = calls[s] /\ h = HandleWith(c.got.upload, GetFiles(c.got.upload))
                     /\ d = GoneOn(c, "embed", c.reply, c.failed, h, <<>>)
  OBVIOUS
<1>5. [c.got EXCEPT !.files = GetFiles(c.got.upload)] = h
  BY <1>3, <1>4 DEF Handle, HandleWith
<1>6. Becomes(s, d)
  <2>1. Continue(s, "embed", h, <<>>)
    BY <1>4, <1>5 DEF FindFiles
  <2> QED
    BY <1>2, <1>4, <2>1, ContinueIs
<1>7. Serving(c) /\ StepFits(c.req.op, "embed") /\ c.step # "qa"
  BY <1>1, <1>2, <1>4 DEF StepFits
<1>8. CallOK(d) /\ d.step = "embed" /\ d.req = c.req /\ d.got = h
  <2>1. /\ d.req = c.req /\ d.step = "embed" /\ d.reply = c.reply /\ d.failed = c.failed /\ d.got = h
        /\ IsCall(d)
    BY <1>4, Fields DEF GoneOn, IsCall
  <2> QED
    BY <1>7, <2>1 DEF Serving, CallOK, IsSuccess
<1> DEFINE u == c.got.upload
<1>9. u \in Nat /\ Handle(d) /\ d.got.upload = u /\ d.got.files = GetFiles(u)
  BY <1>3, <1>4, <1>8 DEF Handle, HandleWith
<1>10. u # 0 => u \in DOMAIN uploads /\ (uploads[u].broken \/ GetFiles(u) = uploads[u].files)
  <2>1. u # None
    BY <1>9, NoneIsNoNumber
  <2> QED
    BY <1>3, <1>4, <2>1, FoundFiles
<1>11. OneOK(d, chats', qas', files', uploads')
  <2>1. uploads' = uploads
    BY DEF FindFiles, Read, tables
  <2> QED
    BY <1>8, <1>9, <1>10, <2>1 DEF OneOK, ParseOK, UploadOK, FilesOK, DeleteOK, IsSuccess
<1> QED
  BY <1>1, <1>6, <1>8, <1>11, PlainStep

LEMMA EmbedStep ==
  ASSUME IInv, NEW s \in Slot, Embed(s)
  PROVE  IInv'
<1>1. calls[s].step = "embed" /\ UNCHANGED tables /\ calls[s].step \notin {"idle", "done", "qa"}
      /\ TablesNext /\ Evolve({}, {})
  BY SameTables DEF Embed
<1>2. calls[s].req.op = "AskFile" /\ Serving(calls[s]) /\ Calls /\ IsCall(calls[s])
  BY <1>1, Facts, IsServing DEF StepFits
<1>3. faults' \in 0 .. MaxFaults
  BY NoMoreFaults DEF Embed
<1>4. CASE Return(s, <<0>>)
  <2>1. <<0>> \in Seq(Nat) /\ <<0>> # <<>>
    BY ErrorsAre
  <2> QED
    BY <1>1, <1>2, <1>3, <1>4, <2>1, ReturnStep
<1>5. CASE \E reply \in {<<>>, <<500>>} : calls' = [calls EXCEPT ![s].step = "record", ![s].reply = reply]
  <2>1. PICK reply \in {<<>>, <<500>>} : calls' = [calls EXCEPT ![s].step = "record", ![s].reply = reply]
    BY <1>5
  <2>2. PICK c, d : c = calls[s] /\ d = GoneOn(c, "record", reply, c.failed, c.got, c.todo)
    OBVIOUS
  <2>3. Becomes(s, d)
    <3>1. calls' = [calls EXCEPT ![s] = [c EXCEPT !.step = "record", !.reply = reply]]
      BY <1>2, <2>1, <2>2 DEF Calls
    <3>2. IsCall(c)
      BY <1>2, <2>2
    <3>3. [c EXCEPT !.step = "record", !.reply = reply] = d
      BY <2>2, <3>2, SetStepReply
    <3> QED
      BY <3>1, <3>3 DEF Becomes
  <2>4. d.req = c.req /\ d.step = "record" /\ d.reply = reply /\ d.failed = c.failed /\ d.got = c.got /\ IsCall(d)
    BY <2>2, Fields DEF GoneOn, IsCall
  <2>5. c.req.op = "AskFile" /\ CallOK(c) /\ c.step = "embed" /\ FilesOK(c, qas, files, uploads)
    BY <1>1, <1>2, <2>2, Facts DEF Serving, OneOK
  <2>6. /\ reply \in Seq(Nat)
        /\ reply # <<>> => Head(reply) \notin 200 .. 299
        /\ ~c.failed
    <3>1. ~c.failed
      BY <2>5 DEF CallOK
    <3>2. <<500>> \in Seq(Nat) /\ <<500>> # <<>> /\ Head(<<500>>) \notin 200 .. 299 /\ <<>> \in Seq(Nat)
      BY ErrorsAre
    <3>3. CASE reply = <<500>>
      BY <3>1, <3>2, <3>3, Zenon
    <3>4. CASE reply = <<>>
      BY <3>1, <3>2, <3>4, Zenon
    <3> QED
      BY <3>3, <3>4, Zenon
  <2>7. CallOK(d)
    <3>1. d.req \in Request \union {Idle.req} /\ StepFits(d.req.op, d.step)
      BY <2>4, <2>5 DEF CallOK, StepFits
    <3>2. d.failed \in BOOLEAN /\ ~d.failed
      BY <2>4, <2>5, <2>6 DEF CallOK
    <3>3. d.reply \in Seq(Nat) /\ (d.reply # <<>> => Head(d.reply) \notin 200 .. 299)
      BY <2>4, <2>6
    <3>4. d.step \notin {"idle", "done"} /\ IsCall(d)
      BY <2>4
    <3> QED
      BY <3>1, <3>2, <3>3, <3>4 DEF CallOK
  <2>8. uploads' = uploads
    BY <1>1 DEF tables
  <2>9. FilesOK(d, qas', files', uploads')
    BY <2>4, <2>5, <2>8 DEF FilesOK, Handle
  <2>10. OneOK(d, chats', qas', files', uploads')
    BY <2>4, <2>7, <2>9 DEF OneOK, ParseOK, UploadOK, DeleteOK, IsSuccess
  <2> QED
    BY <1>1, <1>3, <2>3, <2>4, <2>10, PlainStep
<1> QED
  BY <1>4, <1>5 DEF Embed

---------------------------------------------------------------------------
(* Uploads.                                                                *)

LEMMA StillApart ==
  ASSUME IInv, NEW s \in Slot, calls[s].step \in {"rows", "qa"}, NEW d, d.step \in {"rows", "qa", "done"},
         d.got = calls[s].got
  PROVE  \A t \in Slot \ {s} : Apart(d, calls[t]) /\ Apart(calls[t], d)
<1>1. ASSUME NEW t \in Slot \ {s} PROVE Apart(d, calls[t]) /\ Apart(calls[t], d)
  <2>1. Apart(calls[s], calls[t]) /\ Apart(calls[t], calls[s])
    BY DEF IInv
  <2> QED
    BY <2>1 DEF Apart
<1> QED
  BY <1>1

LEMMA InHand ==
  ASSUME IInv, NEW s \in Slot, calls[s].step \in {"rows", "qa"}
  PROVE  /\ calls[s].req.op = "Upload" /\ calls[s].req.chat \in Nat
         /\ Handle(calls[s]) /\ calls[s].got.upload \in DOMAIN uploads /\ calls[s].got.upload \in Nat
         /\ uploads[calls[s].got.upload].files = calls[s].got.files
         /\ \A q \in DOMAIN qas : qas[q].upload # calls[s].got.upload
         /\ calls[s].step \notin {"idle", "done"}
<1>1. UploadOK(calls[s], qas, files, uploads)
  BY Facts DEF OneOK
<1>2. calls[s].step \notin {"idle", "done"}
  OBVIOUS
<1>3. calls[s].req.op = "Upload" /\ calls[s].req \in Request
  BY <1>2, IsServing DEF StepFits
<1>4. calls[s].req.chat \in Nat
  BY <1>3, RequestFields
<1> QED
  BY <1>1, <1>2, <1>3, <1>4 DEF UploadOK, Handle

\* The QA of an upload is written when all rows of its files are, or one has failed.
LEMMA WriteUploadQAStep ==
  ASSUME IInv, NEW s \in Slot, WriteUploadQA(s)
  PROVE  IInv'
<1>1. calls[s].step = "qa" /\ UNCHANGED <<clock, chats, files, uploads>>
  BY DEF WriteUploadQA
<1>2. PICK c, u : c = calls[s] /\ u = c.got.upload
  OBVIOUS
<1>3. /\ c.req.op = "Upload" /\ c.req.chat \in Nat
      /\ Handle(c) /\ u \in DOMAIN uploads /\ u \in Nat /\ uploads[u].files = c.got.files
      /\ c.step = "qa" /\ Serving(c) /\ IsCall(c) /\ c.failed \in BOOLEAN
      /\ IF c.failed THEN uploads[u].broken /\ c.reply = <<500>> ELSE c.reply = <<>> /\ Complete(c, files)
  <2>1. calls[s].step \notin {"idle", "done"}
    BY <1>1
  <2>2. UploadOK(calls[s], qas, files, uploads) /\ IsCall(calls[s])
    BY Facts DEF OneOK
  <2>3. UploadOK(c, qas, files, uploads) /\ IsCall(c) /\ c.step = "qa"
    BY <1>1, <1>2, <2>2
  <2>4. /\ c.req.op = "Upload" /\ c.req.chat \in Nat
        /\ Handle(c) /\ u \in DOMAIN uploads /\ u \in Nat /\ uploads[u].files = c.got.files
    BY <1>1, <1>2, InHand
  <2>5. Serving(c) /\ c.failed \in BOOLEAN
    BY <1>2, <2>1, IsServing
  <2> QED
    BY <1>2, <2>3, <2>4, <2>5 DEF UploadOK
<1>4. CASE UploadQA(c.req.chat, u) /\ Succeed(s) /\ UNCHANGED faults
  <2> DEFINE r == UploadedQA(c.req.chat, u, clock)
  <2>1. clock \in Nat /\ QAsOK(clock, qas, files, uploads) /\ Calls
    BY Facts
  <2>2. qas' = Append(qas, r)
    BY <1>4 DEF UploadQA, UploadedQA, QAOf
  <2>3. uploads[u].broken \/ \A f \in uploads[u].files : files[f].upload = u
    BY <1>2, <1>3 DEF Complete
  <2>4. QAFits(r, clock, files, uploads) /\ r.upload = u /\ r.chat = c.req.chat
    <3>1. c.req.chat \in Nat /\ u \in Nat /\ clock \in Nat /\ u \in DOMAIN uploads
      BY <1>3, <2>1
    <3> QED
      BY ONLY <2>3, <3>1, UploadedFits
  <2> HIDE DEF r
  <2>5. /\ QAsOK(clock, Append(qas, r), files, uploads) /\ DOMAIN qas \subseteq DOMAIN Append(qas, r)
        /\ \A q \in DOMAIN qas : Append(qas, r)[q] = qas[q]
        /\ Len(qas) + 1 \in DOMAIN Append(qas, r) /\ Append(qas, r)[Len(qas) + 1] = r
        /\ \A q \in DOMAIN Append(qas, r) \ DOMAIN qas : Append(qas, r)[q] = r
    BY <2>1, <2>4, QAAppended
  <2>6. /\ QAsOK(clock, qas', files, uploads) /\ DOMAIN qas \subseteq DOMAIN qas'
        /\ \A q \in DOMAIN qas : qas'[q] = qas[q]
        /\ \A q \in DOMAIN qas' \ DOMAIN qas : qas'[q] = r
        /\ \E q \in DOMAIN qas' : qas'[q] = r
    BY <2>2, <2>5, Zenon
  <2>7. TablesNext /\ Evolve({u}, {})
    BY <1>1, <2>4, <2>6, OnlyQAs
  <2>8. Others(s, {u}, {})
    <3>1. ASSUME NEW t \in Slot \ {s}, calls[t].step \in {"rows", "qa"} PROVE calls[t].got.upload # u
      <4>1. Apart(calls[s], calls[t])
        BY DEF IInv
      <4> QED
        BY <1>1, <1>2, <3>1, <4>1 DEF Apart
    <3> QED
      BY <3>1 DEF Others
  <2>9. PICK st, d : st = <<Status(c.req.op)>> /\ d = GoneOn(c, "done", c.reply \o st, c.failed, c.got, c.todo)
    OBVIOUS
  <2>10. st \in Seq(Nat) /\ st # <<>>
    BY <2>9, StatusIs
  <2>11. Becomes(s, d)
    <3>1. Return(s, st)
      BY <1>2, <1>4, <2>9 DEF Succeed, Req
    <3> QED
      BY <1>2, <1>3, <2>1, <2>9, <3>1, ReturnIs
  <2>12. d = GoneOn(c, "done", c.reply \o st, c.failed, c.got, c.todo) /\ Serving(c) /\ c.failed \in BOOLEAN
    BY <1>3, <2>9
  <2>13. /\ CallOK(d) /\ d.step = "done" /\ d.req = c.req /\ d.got = c.got
         /\ IsSuccess(d) => c.reply = <<>>
    BY ONLY <2>10, <2>12, EndsAs
  <2>14. /\ qas' = qas' /\ files' = files /\ uploads' = uploads
    BY <1>1
  <2>15. UploadOK(d, qas', files', uploads')
    <3>1. ASSUME IsSuccess(d) PROVE Complete(d, files)
      <4>1. c.reply = <<>> /\ <<>> # <<500>>
        BY <2>13, <3>1
      <4>2. Complete(c, files)
        BY <1>3, <4>1
      <4> QED
        BY <2>13, <4>2 DEF Complete
    <3>2. Handle(d) /\ d.got.upload = u
      BY <1>2, <1>3, <2>13 DEF Handle
    <3>3. \E q \in DOMAIN qas' : qas'[q].upload = d.got.upload /\ qas'[q].chat = d.req.chat
      BY <2>4, <2>6, <2>13, <3>2
    <3> QED
      BY <1>3, <2>13, <2>14, <3>1, <3>2, <3>3 DEF UploadOK
  <2>16. OneOK(d, chats', qas', files', uploads')
    BY <1>3, <2>13, <2>15 DEF OneOK, ParseOK, FilesOK, DeleteOK
  <2>17. \A t \in Slot \ {s} : Apart(d, calls[t]) /\ Apart(calls[t], d)
    BY <1>1, <1>2, <2>13, StillApart
  <2>18. faults' \in 0 .. MaxFaults
    BY <1>4, NoMoreFaults
  <2> QED
    BY <2>7, <2>8, <2>11, <2>16, <2>17, <2>18, StepKeeps
<1>5. CASE /\ faults < MaxFaults /\ faults' = faults + 1 /\ UNCHANGED qas
           /\ EndsFailed(s, <<500, 200>>)
  <2>1. PICK st : st = <<500, 200>>
    OBVIOUS
  <2>2. st \in Seq(Nat) /\ st # <<>> /\ Head(st) \notin 200 .. 299
    BY <2>1
  <2>3. calls[s].step \notin {"idle", "done"} /\ UNCHANGED tables /\ EndsFailed(s, st)
    BY <1>1, <1>5, <2>1 DEF tables
  <2> QED
    BY <1>5, <2>2, <2>3, ErrorStep
<1> QED
  BY <1>2, <1>4, <1>5 DEF WriteUploadQA, Req, EndsFailed

\* The row of a file names its upload, and no other upload has the file.
LEMMA FileGiven ==
  ASSUME NEW n, NEW qs, NEW fs, NEW us, QAsOK(n, qs, fs, us), FilesAndUploadsOK(fs, us),
         NEW u \in DOMAIN us, u \in Nat, NEW f \in us[u].files
  PROVE  LET gs == [fs EXCEPT ![f].upload = u]
         IN  /\ FilesAndUploadsOK(gs, us) /\ QAsOK(n, qs, gs, us)
             /\ DOMAIN gs = DOMAIN fs /\ gs[f].upload = u
             /\ \A g \in DOMAIN fs \ {f} : gs[g] = fs[g]
<1> DEFINE gs == [fs EXCEPT ![f].upload = u]
<1>1. fs \in Seq(FileRow) /\ f \in DOMAIN fs
  BY DEF FilesAndUploadsOK
<1>2. fs[f] \in FileRow
  BY <1>1
<1>3. PICK row : row = [fs[f] EXCEPT !.upload = u]
  OBVIOUS
<1>4. row \in FileRow /\ row.upload = u
  BY <1>2, <1>3 DEF FileRow
<1>5. gs = [fs EXCEPT ![f] = row]
  BY <1>1, <1>3
<1>6. gs \in Seq(FileRow) /\ DOMAIN gs = DOMAIN fs /\ gs[f] = row /\ \A g \in DOMAIN fs \ {f} : gs[g] = fs[g]
  BY <1>1, <1>4, <1>5
<1> HIDE DEF gs
<1>7. FilesAndUploadsOK(gs, us)
  <2>1. \A g \in DOMAIN gs : gs[g].upload # None =>
          gs[g].upload \in DOMAIN us /\ g \in us[gs[g].upload].files
    BY <1>4, <1>6 DEF FilesAndUploadsOK
  <2> QED
    BY <1>6, <2>1 DEF FilesAndUploadsOK
<1>8. QAsOK(n, qs, gs, us)
  <2>1. ASSUME NEW q \in DOMAIN qs, qs[q].upload # None
        PROVE  Seen(q, qs, gs, us)
    <3>1. qs[q].upload \in DOMAIN us /\ Seen(q, qs, fs, us)
      BY <2>1 DEF QAsOK
    <3>2. ASSUME NEW g \in us[qs[q].upload].files, fs[g].upload = qs[q].upload
          PROVE  gs[g].upload = qs[q].upload
      <4>1. g \in DOMAIN fs
        BY <3>1 DEF FilesAndUploadsOK
      <4>2. CASE g = f
        <5>1. qs[q].upload = u
          BY <3>1, <4>2 DEF FilesAndUploadsOK
        <5> QED
          BY <1>4, <1>6, <4>2, <5>1
      <4>3. CASE g # f
        BY <1>6, <3>2, <4>1, <4>3
      <4> QED
        BY <4>2, <4>3
    <3> QED
      BY <3>1, <3>2 DEF Seen
  <2> QED
    BY <2>1 DEF QAsOK
<1>9. /\ FilesAndUploadsOK(gs, us) /\ QAsOK(n, qs, gs, us)
      /\ DOMAIN gs = DOMAIN fs /\ gs[f].upload = u
      /\ \A g \in DOMAIN fs \ {f} : gs[g] = fs[g]
  BY <1>4, <1>6, <1>7, <1>8
<1> QED
  BY <1>9 DEF gs

LEMMA UploadBroken ==
  ASSUME NEW n, NEW qs, NEW fs, NEW us, QAsOK(n, qs, fs, us), FilesAndUploadsOK(fs, us),
         NEW u \in DOMAIN us
  PROVE  LET vs == [us EXCEPT ![u].broken = TRUE]
         IN  /\ FilesAndUploadsOK(fs, vs) /\ QAsOK(n, qs, fs, vs)
             /\ DOMAIN vs = DOMAIN us /\ vs[u].broken
             /\ \A v \in DOMAIN us : vs[v].files = us[v].files /\ (us[v].broken => vs[v].broken)
<1> DEFINE vs == [us EXCEPT ![u].broken = TRUE]
<1>1. us \in Seq(Upload)
  BY DEF FilesAndUploadsOK
<1>2. us[u] \in Upload
  BY <1>1
<1>3. PICK row : row = [us[u] EXCEPT !.broken = TRUE]
  OBVIOUS
<1>4. row \in Upload /\ row.broken /\ row.files = us[u].files
  BY <1>2, <1>3 DEF Upload
<1>5. vs = [us EXCEPT ![u] = row]
  BY <1>1, <1>3
<1> HIDE DEF vs
<1>6. vs \in Seq(Upload) /\ DOMAIN vs = DOMAIN us /\ vs[u] = row /\ \A v \in DOMAIN us \ {u} : vs[v] = us[v]
  BY <1>1, <1>4, <1>5
<1>7. \A v \in DOMAIN us : vs[v].files = us[v].files /\ (us[v].broken => vs[v].broken)
  BY <1>4, <1>6
<1>8. FilesAndUploadsOK(fs, vs)
  BY <1>6, <1>7 DEF FilesAndUploadsOK
<1>9. QAsOK(n, qs, fs, vs)
  BY <1>6, <1>7 DEF QAsOK, Seen
<1>10. /\ FilesAndUploadsOK(fs, vs) /\ QAsOK(n, qs, fs, vs)
       /\ DOMAIN vs = DOMAIN us /\ vs[u].broken
       /\ \A v \in DOMAIN us : vs[v].files = us[v].files /\ (us[v].broken => vs[v].broken)
  BY <1>4, <1>6, <1>7, <1>8, <1>9
<1> QED
  BY <1>10 DEF vs

LEMMA TailIs ==
  ASSUME NEW W, NEW w \in Seq(W), w # <<>>
  PROVE  /\ Tail(w) \in Seq(W) /\ (Len(w) = 1 <=> Tail(w) = <<>>)
         /\ Head(w) \in W /\ Len(w) \in Nat /\ DOMAIN w = 1 .. Len(w) /\ Head(w) = w[1]
         /\ \A i \in 2 .. Len(w) : i - 1 \in DOMAIN Tail(w) /\ Tail(w)[i - 1] = w[i]
<1>1. Head(w) \in W /\ Len(w) \in Nat /\ DOMAIN w = 1 .. Len(w) /\ Head(w) = w[1] /\ Len(w) > 0
  OBVIOUS
<1>2. Tail(w) \in Seq(W) /\ Len(Tail(w)) = Len(w) - 1
  OBVIOUS
<1>3. Len(w) = 1 <=> Tail(w) = <<>>
  <2>1. PICK t \in Seq(W) : t = Tail(w)
    BY <1>2
  <2>2. Len(t) = 0 <=> t = <<>>
    OBVIOUS
  <2> QED
    BY <1>1, <1>2, <2>1, <2>2
<1>4. \A i \in 2 .. Len(w) : i - 1 \in DOMAIN Tail(w) /\ Tail(w)[i - 1] = w[i]
  BY <1>1
<1> QED
  BY <1>1, <1>2, <1>3, <1>4

\* WriteUploadFiles: either the next file has its row, or the upload is broken.
LEMMA WriteUploadFilesStep ==
  ASSUME IInv, NEW s \in Slot, WriteUploadFiles(s)
  PROVE  IInv'
<1>1. calls[s].step = "rows" /\ UNCHANGED <<clock, chats, qas>>
  BY DEF WriteUploadFiles
<1>2. PICK c, u, f : c = calls[s] /\ u = c.got.upload /\ f = Head(c.todo)
  OBVIOUS
<1>3. /\ c.req.op = "Upload" /\ Handle(c) /\ u \in DOMAIN uploads /\ u \in Nat
      /\ uploads[u].files = c.got.files /\ \A q \in DOMAIN qas : qas[q].upload # u
      /\ c.step = "rows" /\ CallOK(c) /\ IsCall(c) /\ UploadOK(c, qas, files, uploads)
  <2>1. UploadOK(calls[s], qas, files, uploads) /\ IsCall(calls[s]) /\ CallOK(calls[s])
    BY Facts DEF OneOK
  <2> QED
    BY <1>1, <1>2, <2>1, InHand
<1>4. /\ c.todo \in Seq(uploads[u].files) /\ c.todo # <<>> /\ c.reply = <<>> /\ ~c.failed
      /\ \A g \in uploads[u].files : files[g].upload = u \/ \E i \in DOMAIN c.todo : c.todo[i] = g
  BY <1>2, <1>3 DEF UploadOK
<1>5. /\ clock \in Nat /\ ChatsOK(clock, chats) /\ QAsOK(clock, qas, files, uploads)
      /\ FilesAndUploadsOK(files, uploads) /\ Calls
  BY Facts
<1>6. f \in uploads[u].files
  BY <1>2, <1>4
<1>7. Others(s, {}, {})
  BY DEF Others
<1>8. CASE /\ CreateFile(f, u) /\ UNCHANGED <<uploads, faults>>
           /\ calls' = [calls EXCEPT ![s].todo = Tail(@), ![s].step = IF Len(c.todo) = 1 THEN "qa" ELSE "rows"]
  <2>1. /\ FilesAndUploadsOK(files', uploads) /\ QAsOK(clock, qas, files', uploads)
        /\ DOMAIN files' = DOMAIN files /\ files'[f].upload = u
        /\ \A g \in DOMAIN files \ {f} : files'[g] = files[g]
    <3>1. files' = [files EXCEPT ![f].upload = u]
      BY <1>8 DEF CreateFile
    <3>2. LET gs == [files EXCEPT ![f].upload = u]
          IN  /\ FilesAndUploadsOK(gs, uploads) /\ QAsOK(clock, qas, gs, uploads)
              /\ DOMAIN gs = DOMAIN files /\ gs[f].upload = u
              /\ \A g \in DOMAIN files \ {f} : gs[g] = files[g]
      BY <1>3, <1>5, <1>6, FileGiven
    <3> QED
      BY <3>1, <3>2, Zenon
  <2>2. TablesNext
    BY <1>1, <1>5, <1>8, <2>1 DEF TablesNext
  <2>3. Evolve({}, {})
    BY <1>1, <1>3, <1>6, <1>8, <2>1 DEF Evolve, Evolves
  <2>4. PICK step, rest, d : /\ step = (IF Len(c.todo) = 1 THEN "qa" ELSE "rows") /\ rest = Tail(c.todo)
                             /\ d = GoneOn(c, step, c.reply, c.failed, c.got, rest)
    OBVIOUS
  <2>5. Becomes(s, d)
    <3>1. calls' = [calls EXCEPT ![s] = [c EXCEPT !.todo = rest, !.step = step]]
      BY <1>2, <1>5, <1>8, <2>4 DEF Calls
    <3>2. [c EXCEPT !.todo = rest, !.step = step] = d
      <4>1. IsCall(c) /\ d = GoneOn(c, step, c.reply, c.failed, c.got, rest)
        BY <1>3, <2>4
      <4> QED
        BY ONLY <4>1, SetTodoStep
    <3> QED
      BY <3>1, <3>2 DEF Becomes
  <2>6. /\ d.req = c.req /\ d.step = step /\ d.reply = c.reply /\ d.failed = c.failed /\ d.got = c.got
        /\ d.todo = rest /\ IsCall(d)
    <3>1. d = CallIs(c.req, step, c.reply, c.failed, c.got, rest, c.start)
      BY <2>4 DEF GoneOn
    <3> QED
      BY ONLY <3>1, Fields DEF IsCall
  <2>7. step \in {"rows", "qa"} /\ (step = "qa" <=> Len(c.todo) = 1)
    BY <2>4
  <2>8. CallOK(d)
    BY <1>3, <1>4, <2>6, <2>7 DEF CallOK, StepFits, IsSuccess
  <2>9. ASSUME NEW g \in uploads[u].files
        PROVE  files'[g].upload = u \/ \E i \in DOMAIN rest : rest[i] = g
    <3>1. g \in DOMAIN files
      BY <1>3, <1>5 DEF FilesAndUploadsOK
    <3>2. CASE g = f
      BY <2>1, <3>2
    <3>3. CASE g # f /\ files[g].upload = u
      BY <2>1, <3>1, <3>3
    <3>4. CASE g # f /\ \E i \in DOMAIN c.todo : c.todo[i] = g
      <4>1. PICK i \in DOMAIN c.todo : c.todo[i] = g
        BY <3>4
      <4>2. i \in 2 .. Len(c.todo) /\ Len(c.todo) \in Nat
        BY <1>2, <1>4, <3>4, <4>1
      <4>3. i - 1 \in DOMAIN rest /\ rest[i - 1] = g
        BY <1>4, <2>4, <4>1, <4>2
      <4> QED
        BY <4>3
    <3> QED
      BY <1>4, <3>2, <3>3, <3>4
  <2>10. rest \in Seq(uploads[u].files) /\ (Len(c.todo) = 1 <=> rest = <<>>)
    <3>1. rest = Tail(c.todo)
      BY <2>4
    <3> QED
      BY <1>4, <3>1, TailIs, Zenon
  <2>11. step = "qa" => \A g \in uploads[u].files : files'[g].upload = u
    <3>1. rest = <<>> => \A g \in uploads[u].files : ~ \E i \in DOMAIN rest : rest[i] = g
      OBVIOUS
    <3> QED
      BY <2>7, <2>9, <2>10, <3>1
  <2>12. Handle(d) /\ d.got.upload = u /\ d.got.files = uploads[u].files
    BY <1>2, <1>3, <2>6 DEF Handle
  <2>13. UploadOK(d, qas, files', uploads)
    BY <1>3, <1>4, <2>6, <2>7, <2>9, <2>10, <2>11, <2>12 DEF UploadOK, Complete, IsSuccess
  <2>14. OneOK(d, chats', qas', files', uploads')
    <3>1. qas' = qas /\ uploads' = uploads
      BY <1>1, <1>8
    <3> QED
      BY <1>3, <2>6, <2>7, <2>8, <2>13, <3>1 DEF OneOK, ParseOK, FilesOK, DeleteOK, IsSuccess
  <2>15. \A t \in Slot \ {s} : Apart(d, calls[t]) /\ Apart(calls[t], d)
    BY <1>1, <1>2, <2>6, <2>7, StillApart
  <2>16. faults' \in 0 .. MaxFaults
    BY <1>8, NoMoreFaults
  <2> QED
    BY <1>7, <2>2, <2>3, <2>5, <2>14, <2>15, <2>16, StepKeeps
<1>9. CASE /\ faults < MaxFaults /\ faults' = faults + 1 /\ UNCHANGED files
           /\ calls' = [calls EXCEPT ![s].step = "qa", ![s].failed = TRUE, ![s].reply = Append(@, 500)]
           /\ uploads' = [uploads EXCEPT ![u].broken = TRUE]
  <2>1. /\ FilesAndUploadsOK(files, uploads') /\ QAsOK(clock, qas, files, uploads')
        /\ DOMAIN uploads' = DOMAIN uploads /\ uploads'[u].broken
        /\ \A v \in DOMAIN uploads : uploads'[v].files = uploads[v].files
                                     /\ (uploads[v].broken => uploads'[v].broken)
    <3>1. LET vs == [uploads EXCEPT ![u].broken = TRUE]
          IN  /\ FilesAndUploadsOK(files, vs) /\ QAsOK(clock, qas, files, vs)
              /\ DOMAIN vs = DOMAIN uploads /\ vs[u].broken
              /\ \A v \in DOMAIN uploads : vs[v].files = uploads[v].files
                                           /\ (uploads[v].broken => vs[v].broken)
      BY <1>3, <1>5, UploadBroken
    <3> QED
      BY <1>9, <3>1, Zenon
  <2>2. TablesNext
    BY <1>1, <1>5, <1>9, <2>1 DEF TablesNext
  <2>3. Evolve({}, {})
    BY <1>1, <1>9, <2>1 DEF Evolve, Evolves
  <2>4. PICK step, reply, fl, d : /\ step = "qa" /\ reply = <<500>> /\ fl = TRUE
                                  /\ d = GoneOn(c, step, reply, fl, c.got, c.todo)
    OBVIOUS
  <2>5. Becomes(s, d)
    <3>1. Append(c.reply, 500) = reply
      BY <1>4, <2>4
    <3>2. calls' = [calls EXCEPT ![s] = [c EXCEPT !.step = step, !.failed = fl, !.reply = reply]]
      BY <1>2, <1>5, <1>9, <2>4, <3>1 DEF Calls
    <3>3. [c EXCEPT !.step = step, !.failed = fl, !.reply = reply] = d
      <4>1. IsCall(c) /\ d = GoneOn(c, step, reply, fl, c.got, c.todo)
        BY <1>3, <2>4
      <4> QED
        BY ONLY <4>1, SetStepFailedReply
    <3> QED
      BY <3>2, <3>3 DEF Becomes
  <2>6. d.req = c.req /\ d.step = "qa" /\ d.reply = reply /\ d.failed = fl /\ d.got = c.got /\ IsCall(d)
    <3>1. d = CallIs(c.req, step, reply, fl, c.got, c.todo, c.start) /\ step = "qa"
      BY <2>4 DEF GoneOn
    <3> QED
      BY ONLY <3>1, Fields DEF IsCall
  <2>7. reply \in Seq(Nat) /\ reply # <<>> /\ Head(reply) \notin 200 .. 299
    BY <2>4
  <2>8. CallOK(d)
    <3>1. d.req \in Request \union {Idle.req} /\ StepFits(d.req.op, d.step)
      BY <1>3, <2>6 DEF CallOK, StepFits
    <3>2. d.reply \in Seq(Nat) /\ d.reply # <<>> /\ Head(d.reply) \notin 200 .. 299
      BY <2>6, <2>7
    <3>3. d.failed \in BOOLEAN
      BY <2>4, <2>6
    <3> QED
      BY <2>6, <3>1, <3>2, <3>3 DEF CallOK
  <2>9. Handle(d) /\ d.got.upload = u
    BY <1>2, <1>3, <2>6 DEF Handle
  <2>10. UploadOK(d, qas, files, uploads')
    <3>1. d.failed /\ d.reply = <<500>>
      BY <2>4, <2>6
    <3>2. uploads'[u].broken /\ u \in DOMAIN uploads' /\ uploads'[u].files = d.got.files
      BY <1>3, <2>1, <2>6
    <3> QED
      BY <1>3, <2>6, <2>9, <3>1, <3>2 DEF UploadOK, IsSuccess
  <2>11. OneOK(d, chats', qas', files', uploads')
    <3>1. qas' = qas /\ files' = files
      BY <1>1, <1>9
    <3> QED
      BY <1>3, <2>6, <2>8, <2>10, <3>1 DEF OneOK, ParseOK, FilesOK, DeleteOK, IsSuccess
  <2>12. \A t \in Slot \ {s} : Apart(d, calls[t]) /\ Apart(calls[t], d)
    BY <1>1, <1>2, <2>6, StillApart
  <2>13. faults' \in 0 .. MaxFaults
    BY <1>9, NoMoreFaults
  <2> QED
    BY <1>7, <2>2, <2>3, <2>5, <2>11, <2>12, <2>13, StepKeeps
<1> QED
  BY <1>2, <1>8, <1>9 DEF WriteUploadFiles

\* Files that are on disk, and no more.
FilesGrow(fs, gs) ==
  /\ gs \in Seq(FileRow) /\ DOMAIN fs \subseteq DOMAIN gs /\ \A f \in DOMAIN fs : gs[f] = fs[f]
  /\ \A f \in DOMAIN gs \ DOMAIN fs : gs[f].upload = None

LEMMA FilesGrown ==
  ASSUME NEW n, NEW qs, NEW fs, NEW us, QAsOK(n, qs, fs, us), FilesAndUploadsOK(fs, us),
         NEW gs, FilesGrow(fs, gs)
  PROVE  FilesAndUploadsOK(gs, us) /\ QAsOK(n, qs, gs, us)
<1>1. FilesAndUploadsOK(gs, us)
  <2>1. \A u \in DOMAIN us : us[u].files \subseteq DOMAIN gs
    BY DEF FilesAndUploadsOK, FilesGrow
  <2>2. \A f \in DOMAIN gs : gs[f].upload # None =>
          gs[f].upload \in DOMAIN us /\ f \in us[gs[f].upload].files
    BY DEF FilesAndUploadsOK, FilesGrow
  <2> QED
    BY <2>1, <2>2 DEF FilesAndUploadsOK, FilesGrow
<1>2. QAsOK(n, qs, gs, us)
  <2>1. ASSUME NEW q \in DOMAIN qs, qs[q].upload # None
        PROVE  Seen(q, qs, gs, us)
    <3>1. qs[q].upload \in DOMAIN us /\ Seen(q, qs, fs, us)
      BY <2>1 DEF QAsOK
    <3>2. us[qs[q].upload].files \subseteq DOMAIN fs
      BY <3>1 DEF FilesAndUploadsOK
    <3> QED
      BY <3>1, <3>2 DEF Seen, FilesGrow
  <2> QED
    BY <2>1 DEF QAsOK
<1> QED
  BY <1>1, <1>2

NewUpload(F) == [files |-> F, broken |-> FALSE]

\* An upload of files that are of no other.
LEMMA UploadAppended ==
  ASSUME NEW n, NEW qs, NEW fs, NEW us, QAsOK(n, qs, fs, us), FilesAndUploadsOK(fs, us),
         NEW F, F \subseteq DOMAIN fs, \A u \in DOMAIN us : us[u].files \intersect F = {}
  PROVE  LET vs == Append(us, NewUpload(F))
         IN  /\ FilesAndUploadsOK(fs, vs) /\ QAsOK(n, qs, fs, vs)
             /\ DOMAIN us \subseteq DOMAIN vs /\ \A u \in DOMAIN us : vs[u] = us[u]
             /\ Len(us) + 1 \in DOMAIN vs /\ Len(us) + 1 \notin DOMAIN us /\ vs[Len(us) + 1].files = F
             /\ \A u \in DOMAIN vs \ DOMAIN us : vs[u].files = F
             /\ \A q \in DOMAIN qs : qs[q].upload # Len(us) + 1
<1> DEFINE vs == Append(us, NewUpload(F))
           m == Len(us) + 1
<1>1. us \in Seq(Upload) /\ fs \in Seq(FileRow)
  BY DEF FilesAndUploadsOK
<1>2. NewUpload(F) \in Upload /\ NewUpload(F).files = F
  <2>1. Len(fs) \in Nat /\ DOMAIN fs = 1 .. Len(fs)
    BY <1>1
  <2>2. DOMAIN fs \subseteq Nat
    BY <2>1
  <2>3. F \in SUBSET Nat
    BY <2>2
  <2> QED
    BY <2>3 DEF NewUpload, Upload
<1>3. PICK w : w = NewUpload(F)
  OBVIOUS
<1>4. /\ vs \in Seq(Upload) /\ DOMAIN us = 1 .. Len(us) /\ DOMAIN vs = 1 .. m /\ vs[m] = w /\ Len(us) \in Nat
      /\ \A u \in DOMAIN us : vs[u] = us[u]
  BY <1>1, <1>2, <1>3
<1>5. w.files = F
  BY <1>2, <1>3
<1>6. DOMAIN us \subseteq DOMAIN vs /\ m \in DOMAIN vs /\ m \notin DOMAIN us /\ m \in Nat
      /\ \A u \in DOMAIN vs \ DOMAIN us : u = m
  BY <1>4
<1> HIDE DEF vs, m
<1>7. FilesAndUploadsOK(fs, vs)
  <2>1. \A u \in DOMAIN vs : vs[u].files \subseteq DOMAIN fs
    BY <1>4, <1>5, <1>6 DEF FilesAndUploadsOK
  <2>2. ASSUME NEW u \in DOMAIN vs, NEW v \in DOMAIN vs, u # v
        PROVE  vs[u].files \intersect vs[v].files = {}
    <3>1. CASE u \in DOMAIN us /\ v \in DOMAIN us
      BY <1>4, <2>2, <3>1 DEF FilesAndUploadsOK
    <3>2. CASE u \notin DOMAIN us
      <4>1. v \in DOMAIN us /\ u = m
        BY <1>6, <2>2, <3>2
      <4> QED
        BY <1>4, <1>5, <4>1
    <3>3. CASE v \notin DOMAIN us
      <4>1. u \in DOMAIN us /\ v = m
        BY <1>6, <2>2, <3>3
      <4> QED
        BY <1>4, <1>5, <4>1
    <3> QED
      BY <3>1, <3>2, <3>3
  <2>3. \A f \in DOMAIN fs : fs[f].upload # None =>
          fs[f].upload \in DOMAIN vs /\ f \in vs[fs[f].upload].files
    BY <1>4, <1>6 DEF FilesAndUploadsOK
  <2> QED
    BY <1>1, <1>4, <2>1, <2>2, <2>3 DEF FilesAndUploadsOK
<1>8. QAsOK(n, qs, fs, vs)
  BY <1>4, <1>6 DEF QAsOK, Seen
<1>9. \A q \in DOMAIN qs : qs[q].upload # m
  <2>1. m # None
    BY <1>6, NoneIsNoNumber
  <2> QED
    BY <1>6, <2>1 DEF QAsOK
<1>10. \A u \in DOMAIN vs \ DOMAIN us : vs[u].files = F
  BY <1>4, <1>5, <1>6
<1>11. /\ FilesAndUploadsOK(fs, vs) /\ QAsOK(n, qs, fs, vs)
       /\ DOMAIN us \subseteq DOMAIN vs /\ \A u \in DOMAIN us : vs[u] = us[u]
       /\ m \in DOMAIN vs /\ m \notin DOMAIN us /\ vs[m].files = F
       /\ \A u \in DOMAIN vs \ DOMAIN us : vs[u].files = F
       /\ \A q \in DOMAIN qs : qs[q].upload # m
  BY <1>4, <1>5, <1>6, <1>7, <1>8, <1>9, <1>10
<1> QED
  BY <1>11 DEF vs, m

\* The files in hand: those parsed before, and the one that is new on disk.
Fresh(s, g) == \A i \in DOMAIN g : g[i] \notin DOMAIN files \/ \E j \in DOMAIN calls[s].got : g[i] = calls[s].got[j]

LEMMA FreshFiles ==
  ASSUME IInv, NEW s \in Slot, calls[s].step = "parse", NEW g, Fresh(s, g)
  PROVE  /\ \A i \in DOMAIN g, u \in DOMAIN uploads : g[i] \notin uploads[u].files
         /\ \A t \in Slot \ {s} : calls[t].step = "parse" =>
              \A i \in DOMAIN g, j \in DOMAIN calls[t].got : g[i] # calls[t].got[j]
<1>1. ParseOK(calls[s], qas, files, uploads) /\ FilesAndUploadsOK(files, uploads)
  BY Facts DEF OneOK
<1>2. ASSUME NEW i \in DOMAIN g, NEW u \in DOMAIN uploads
      PROVE  g[i] \notin uploads[u].files
  <2>1. uploads[u].files \subseteq DOMAIN files
    BY <1>1 DEF FilesAndUploadsOK
  <2> QED
    BY <1>1, <2>1 DEF Fresh, ParseOK
<1>3. ASSUME NEW t \in Slot \ {s}, calls[t].step = "parse", NEW i \in DOMAIN g, NEW j \in DOMAIN calls[t].got
      PROVE  g[i] # calls[t].got[j]
  <2>1. ParseOK(calls[t], qas, files, uploads) /\ Apart(calls[s], calls[t])
    BY Facts DEF OneOK, IInv
  <2>2. calls[t].got \in Seq(DOMAIN files)
    BY <1>3, <2>1 DEF ParseOK
  <2>3. calls[t].got[j] \in DOMAIN files
    BY <1>3, <2>2
  <2> QED
    BY <1>3, <2>1, <2>3 DEF Fresh, Apart
<1> QED
  BY <1>2, <1>3

LEMMA ParsedStep ==
  ASSUME IInv, NEW s \in Slot, calls[s].step = "parse", calls[s].todo # <<>>,
         NEW g \in Seq(DOMAIN files'), FilesGrow(files, files'), Fresh(s, g),
         Parsed(s, g), UNCHANGED <<clock, chats, qas>>, faults' \in 0 .. MaxFaults
  PROVE  IInv'
<1>1. PICK c, rest : c = calls[s] /\ rest = Tail(c.todo)
  OBVIOUS
<1>2. /\ c.step = "parse" /\ CallOK(c) /\ IsCall(c) /\ Serving(c) /\ c.reply = <<>> /\ ~c.failed
      /\ c.todo \in Seq(BOOLEAN) /\ c.todo # <<>> /\ c.req.op \in {"Upload", "FileUpload"}
      /\ calls[s].step \notin {"idle", "done", "qa"} /\ c.failed \in BOOLEAN
  <2>1. ParseOK(calls[s], qas, files, uploads) /\ IsCall(calls[s]) /\ CallOK(calls[s])
    BY Facts DEF OneOK
  <2>2. calls[s].req.op \in {"Upload", "FileUpload"}
    BY IsServing DEF StepFits
  <2>3. calls[s].step \notin {"idle", "done", "qa"}
    OBVIOUS
  <2> QED
    BY <1>1, <2>1, <2>2, <2>3, IsServing DEF ParseOK, Serving
<1>3. /\ clock \in Nat /\ ChatsOK(clock, chats) /\ QAsOK(clock, qas, files, uploads)
      /\ FilesAndUploadsOK(files, uploads) /\ Calls
  BY Facts
<1>4. FilesAndUploadsOK(files', uploads) /\ QAsOK(clock, qas, files', uploads)
  BY <1>3, FilesGrown
<1>5. /\ \A i \in DOMAIN g, u \in DOMAIN uploads : g[i] \notin uploads[u].files
      /\ \A t \in Slot \ {s} : calls[t].step = "parse" =>
           \A i \in DOMAIN g, j \in DOMAIN calls[t].got : g[i] # calls[t].got[j]
  BY FreshFiles
<1>6. ASSUME UNCHANGED uploads PROVE TablesNext /\ Evolve({}, {})
  <2>1. TablesNext
    BY <1>3, <1>4, <1>6 DEF TablesNext
  <2>2. Evolve({}, {})
    BY <1>6 DEF Evolve, Evolves, FilesGrow
  <2> QED
    BY <2>1, <2>2
<1>7. CASE Continue(s, "parse", g, rest) /\ UNCHANGED uploads
  <2>1. PICK step, d : step = "parse" /\ d = GoneOn(c, step, c.reply, c.failed, g, rest)
    OBVIOUS
  <2>2. Becomes(s, d)
    <3>1. Continue(s, step, g, rest)
      BY <1>7, <2>1
    <3> QED
      BY <1>1, <1>2, <1>3, <2>1, <3>1, ContinueIs
  <2>3. /\ d.req = c.req /\ d.step = step /\ d.reply = c.reply /\ d.failed = c.failed /\ d.got = g
        /\ d.todo = rest /\ IsCall(d)
    <3>1. d = CallIs(c.req, step, c.reply, c.failed, g, rest, c.start)
      BY <2>1 DEF GoneOn
    <3> QED
      BY ONLY <3>1, Fields DEF IsCall
  <2>4. CallOK(d)
    BY <1>2, <2>1, <2>3 DEF CallOK, StepFits, IsSuccess
  <2>5. rest \in Seq(BOOLEAN)
    BY <1>1, <1>2, TailIs, Zenon
  <2>6. ParseOK(d, qas, files', uploads)
    BY <1>2, <1>5, <2>3, <2>5 DEF ParseOK
  <2>7. OneOK(d, chats', qas', files', uploads')
    <3>1. qas' = qas /\ uploads' = uploads
      BY <1>7
    <3> QED
      BY <2>1, <2>3, <2>4, <2>6, <3>1 DEF OneOK, UploadOK, FilesOK, DeleteOK, IsSuccess
  <2>8. \A t \in Slot \ {s} : Apart(d, calls[t]) /\ Apart(calls[t], d)
    BY <1>5, <2>1, <2>3 DEF Apart
  <2>9. Others(s, {}, {})
    BY DEF Others
  <2> QED
    BY <1>6, <1>7, <2>2, <2>7, <2>8, <2>9, StepKeeps
<1>8. CASE Return(s, <<500>>) /\ UNCHANGED uploads
  <2>1. <<500>> \in Seq(Nat) /\ <<500>> # <<>> /\ Head(<<500>>) \notin 200 .. 299
    BY ErrorsAre
  <2> QED
    BY <1>2, <1>6, <1>8, <2>1, ReturnStep
<1>9. CASE c.req.op = "FileUpload" /\ SucceedWith(s, g) /\ UNCHANGED uploads
  BY <1>1, <1>2, <1>6, <1>9, SucceedWithStep
<1>10. CASE /\ c.req.op = "Upload" /\ g # <<>>
            /\ Continue(s, "rows", HandleWith(Len(uploads) + 1, ToSet(g)), g)
            /\ uploads' = Append(uploads, NewUpload(ToSet(g)))
  <2>1. PICK F : F = ToSet(g)
    OBVIOUS
  <2>2. /\ \A i \in DOMAIN g : g[i] \in F
        /\ \A f \in F : \E i \in DOMAIN g : g[i] = f
    BY <2>1 DEF ToSet
  <2>3. F \subseteq DOMAIN files' /\ \A u \in DOMAIN uploads : uploads[u].files \intersect F = {}
    BY <1>5, <2>2
  <2>4. /\ FilesAndUploadsOK(files', uploads') /\ QAsOK(clock, qas, files', uploads')
        /\ DOMAIN uploads \subseteq DOMAIN uploads' /\ \A u \in DOMAIN uploads : uploads'[u] = uploads[u]
        /\ Len(uploads) + 1 \in DOMAIN uploads' /\ Len(uploads) + 1 \notin DOMAIN uploads
        /\ uploads'[Len(uploads) + 1].files = F
        /\ \A u \in DOMAIN uploads' \ DOMAIN uploads : uploads'[u].files = F
        /\ \A q \in DOMAIN qas : qas[q].upload # Len(uploads) + 1
    <3>1. LET vs == Append(uploads, NewUpload(F))
          IN  /\ FilesAndUploadsOK(files', vs) /\ QAsOK(clock, qas, files', vs)
              /\ DOMAIN uploads \subseteq DOMAIN vs /\ \A u \in DOMAIN uploads : vs[u] = uploads[u]
              /\ Len(uploads) + 1 \in DOMAIN vs /\ Len(uploads) + 1 \notin DOMAIN uploads
              /\ vs[Len(uploads) + 1].files = F
              /\ \A u \in DOMAIN vs \ DOMAIN uploads : vs[u].files = F
              /\ \A q \in DOMAIN qas : qas[q].upload # Len(uploads) + 1
      BY <1>4, <2>3, UploadAppended
    <3> QED
      BY <1>10, <2>1, <3>1, Zenon
  <2>5. TablesNext
    BY <1>3, <2>4 DEF TablesNext
  <2>6. Evolve({}, F)
    BY <2>4 DEF Evolve, Evolves, FilesGrow
  <2>7. Others(s, {}, F)
    BY <1>5, <2>2 DEF Others
  <2>8. PICK step, n, h, d : /\ step = "rows" /\ n = Len(uploads) + 1 /\ h = HandleWith(n, F)
                             /\ d = GoneOn(c, step, c.reply, c.failed, h, g)
    OBVIOUS
  <2>9. Becomes(s, d)
    <3>1. Continue(s, step, h, g)
      BY <1>10, <2>1, <2>8
    <3> QED
      BY <1>1, <1>2, <1>3, <2>8, <3>1, ContinueIs
  <2>10. /\ d.req = c.req /\ d.step = step /\ d.reply = c.reply /\ d.failed = c.failed /\ d.got = h
         /\ d.todo = g /\ IsCall(d)
    <3>1. d = CallIs(c.req, step, c.reply, c.failed, h, g, c.start)
      BY <2>8 DEF GoneOn
    <3> QED
      BY ONLY <3>1, Fields DEF IsCall
  <2>11. CallOK(d)
    BY <1>2, <1>10, <2>8, <2>10 DEF CallOK, StepFits, IsSuccess
  <2>12. n \in Nat /\ Handle(d) /\ d.got.upload = n /\ d.got.files = F
    <3>1. n \in Nat
      BY <1>3, <2>8 DEF FilesAndUploadsOK
    <3> QED
      BY <2>8, <2>10, <3>1 DEF Handle, HandleWith
  <2>13. g \in Seq(F)
    BY <2>2
  <2>14. UploadOK(d, qas, files', uploads')
    <3>1. /\ n \in DOMAIN uploads' /\ uploads'[n].files = F /\ step = "rows"
          /\ \A q \in DOMAIN qas : qas[q].upload # n
      BY <2>4, <2>8
    <3> QED
      BY <1>2, <1>10, <2>2, <2>10, <2>12, <2>13, <3>1 DEF UploadOK, IsSuccess
  <2>15. OneOK(d, chats', qas', files', uploads')
    <3>1. qas' = qas
      OBVIOUS
    <3> QED
      BY <2>8, <2>10, <2>11, <2>14, <3>1 DEF OneOK, ParseOK, FilesOK, DeleteOK, IsSuccess
  <2>16. ASSUME NEW t \in Slot \ {s} PROVE Apart(d, calls[t]) /\ Apart(calls[t], d)
    <3>1. calls[t].step \in {"rows", "qa"} => calls[t].got.upload # n
      <4>1. calls[t].step \in {"rows", "qa"} => calls[t].got.upload \in DOMAIN uploads
        BY InHand
      <4>2. n \notin DOMAIN uploads
        BY <2>4, <2>8
      <4> QED
        BY <4>1, <4>2
    <3> QED
      BY <2>8, <2>10, <2>12, <3>1 DEF Apart
  <2> QED
    BY <2>5, <2>6, <2>7, <2>9, <2>15, <2>16, StepKeeps
<1> QED
  BY <1>1, <1>2, <1>7, <1>8, <1>9, <1>10 DEF Parsed, Req, HandleWith, NewUpload

LEMMA ParseFileStep ==
  ASSUME IInv, NEW s \in Slot, ParseFile(s)
  PROVE  IInv'
<1>1. calls[s].step = "parse" /\ UNCHANGED <<clock, chats, qas>> /\ calls[s].step \notin {"idle", "done"}
  BY DEF ParseFile
<1>2. /\ calls[s].got \in Seq(DOMAIN files) /\ calls[s].todo \in Seq(BOOLEAN)
      /\ files \in Seq(FileRow)
  BY <1>1, Facts DEF OneOK, ParseOK, FilesAndUploadsOK
<1>3. CASE calls[s].todo = <<>> /\ Return(s, <<400>>) /\ UNCHANGED <<files, uploads, faults>>
  <2>1. TablesNext /\ Evolve({}, {})
    BY <1>1, <1>3, SameTables DEF tables
  <2>2. <<400>> \in Seq(Nat) /\ <<400>> # <<>> /\ Head(<<400>>) \notin 200 .. 299
    BY ErrorsAre
  <2>3. faults' \in 0 .. MaxFaults
    BY <1>3, NoMoreFaults
  <2> QED
    BY <1>1, <1>3, <2>1, <2>2, <2>3, ReturnStep
<1>4. CASE /\ calls[s].todo # <<>> /\ WriteFile(Head(calls[s].todo))
           /\ Parsed(s, Append(calls[s].got, Len(files) + 1)) /\ UNCHANGED faults
  <2>1. PICK row : row = [text |-> Head(calls[s].todo), upload |-> None]
    OBVIOUS
  <2>2. row \in FileRow /\ row.upload = None
    <3>1. Head(calls[s].todo) \in BOOLEAN
      BY <1>2, <1>4
    <3> QED
      BY <2>1, <3>1 DEF FileRow
  <2>3. files' = Append(files, row)
    BY <1>4, <2>1 DEF WriteFile
  <2>4. PICK m : m = Len(files) + 1
    OBVIOUS
  <2>5. /\ files' \in Seq(FileRow) /\ DOMAIN files = 1 .. Len(files) /\ DOMAIN files' = 1 .. m
        /\ files'[m] = row /\ Len(files) \in Nat /\ \A f \in DOMAIN files : files'[f] = files[f]
    BY <1>2, <2>2, <2>3, <2>4
  <2>6. /\ DOMAIN files \subseteq DOMAIN files' /\ m \in DOMAIN files' /\ m \notin DOMAIN files
        /\ \A f \in DOMAIN files' \ DOMAIN files : f = m
    BY <2>4, <2>5
  <2>7. FilesGrow(files, files')
    BY <2>2, <2>5, <2>6 DEF FilesGrow
  <2>8. PICK g : g = Append(calls[s].got, m)
    OBVIOUS
  <2>9. g \in Seq(DOMAIN files') /\ Fresh(s, g)
    <3>1. calls[s].got \in Seq(DOMAIN files')
      BY <1>2, <2>6
    <3>2. g \in Seq(DOMAIN files')
      BY <2>6, <2>8, <3>1
    <3>3. ASSUME NEW i \in DOMAIN g PROVE g[i] = m \/ \E j \in DOMAIN calls[s].got : g[i] = calls[s].got[j]
      BY <2>8, <3>1
    <3> QED
      BY <2>6, <3>2, <3>3 DEF Fresh
  <2>10. Parsed(s, g)
    BY <1>4, <2>4, <2>8
  <2>11. faults' \in 0 .. MaxFaults
    BY <1>4, NoMoreFaults
  <2> QED
    BY <1>1, <1>4, <2>7, <2>9, <2>10, <2>11, ParsedStep
<1>5. CASE /\ calls[s].todo # <<>> /\ faults < MaxFaults /\ faults' = faults + 1
           /\ Parsed(s, calls[s].got) /\ UNCHANGED files
  <2>1. FilesGrow(files, files')
    BY <1>2, <1>5 DEF FilesGrow
  <2>2. calls[s].got \in Seq(DOMAIN files') /\ Fresh(s, calls[s].got)
    BY <1>2, <1>5 DEF Fresh
  <2>3. faults' \in 0 .. MaxFaults
    BY <1>5, NoMoreFaults
  <2> QED
    BY <1>1, <1>5, <2>1, <2>2, <2>3, ParsedStep
<1> QED
  BY <1>3, <1>4, <1>5 DEF ParseFile

---------------------------------------------------------------------------
(* A request arrives.                                                      *)

LEMMA OpIsSome ==
  ASSUME NEW r \in Request
  PROVE  r.op # "none"
  BY DEF Request

LEMMA FirstStepFits ==
  ASSUME NEW r
  PROVE  /\ r.op # "none" => StepFits(r.op, FirstStep(r))
         /\ FirstStep(r) \notin {"idle", "done", "rows", "qa", "files", "embed"}
         /\ FirstStep(r) = "record" => r.op = "Ask"
         /\ FirstStep(r) = "parse" => r.op \in {"Upload", "FileUpload"}
<1>1. CASE r.op = "Ask"
  BY <1>1 DEF FirstStep, StepFits
<1>2. CASE r.op # "Ask"
  BY <1>2 DEF FirstStep, StepFits
<1> QED
  BY <1>1, <1>2

Arrived(req, step, start, reply, todo) ==
  [Idle EXCEPT !.req = req, !.step = step, !.start = start, !.reply = reply, !.todo = todo]

LEMMA ArrivedIs ==
  ASSUME NEW req, NEW step, NEW start, NEW reply, NEW todo
  PROVE  Arrived(req, step, start, reply, todo) = CallIs(req, step, reply, FALSE, <<>>, todo, start)
<1> DEFINE e == Arrived(req, step, start, reply, todo)
<1>1. /\ DOMAIN e = {"req", "step", "reply", "failed", "got", "todo", "start"}
      /\ e = [f \in DOMAIN e |-> e[f]]
      /\ e["req"] = req /\ e["step"] = step /\ e["start"] = start /\ e["reply"] = reply /\ e["todo"] = todo
      /\ e["failed"] = FALSE /\ e["got"] = <<>>
  BY DEF Arrived, Idle
<1> HIDE DEF e
<1>2. e = CallIs(req, step, reply, FALSE, <<>>, todo, start)
  BY <1>1 DEF CallIs
<1> QED
  BY <1>2 DEF e

LEMMA RejectionIs ==
  ASSUME NEW r \in Request
  PROVE  Rejection(r) = 422 \/ Rejection(r) = 400
<1> DEFINE untitled == r.op = "UpdateChatTitle" /\ ~r.malformed /\ r.title = ""
<1>1. Rejection(r) = IF untitled THEN 422 ELSE 400
  BY Zenon DEF Rejection
<1> HIDE DEF untitled
<1>2. CASE untitled
  BY <1>1, <1>2, Zenon
<1>3. CASE ~untitled
  BY <1>1, <1>3, Zenon
<1> QED
  BY <1>2, <1>3

LEMMA BeginStep ==
  ASSUME IInv, NEW s \in Slot, NEW r \in Requests, Begin(s, r)
  PROVE  IInv'
<1>1. PICK req, step, start, reply, todo :
        /\ req = Decoded(r) /\ step = FirstStep(r) /\ start = (IF r.op \in Listings THEN Start ELSE None)
        /\ reply = (IF Noticed(r) THEN <<400>> ELSE <<>>)
        /\ todo = (IF r.op \in {"Upload", "FileUpload"} THEN r.files ELSE <<>>)
  OBVIOUS
<1>2. PICK call : call = Arrived(req, step, start, reply, todo)
  OBVIOUS
<1>3. /\ UNCHANGED tables /\ UNCHANGED faults
      /\ calls' = [calls EXCEPT ![s] = IF Rejected(r) THEN Ended(call, <<Rejection(r)>>) ELSE call]
  BY <1>1, <1>2 DEF Begin, Arrived
<1>4. TablesNext /\ Evolve({}, {}) /\ faults' \in 0 .. MaxFaults
  BY <1>3, SameTables, NoMoreFaults
<1>5. PICK fl, got : fl = FALSE /\ got = <<>>
  OBVIOUS
<1>6. /\ call.req = req /\ call.step = step /\ call.reply = reply /\ call.failed = fl /\ call.got = got
      /\ call.todo = todo /\ IsCall(call)
  <2>1. call = CallIs(req, step, reply, fl, got, todo, start)
    BY <1>2, <1>5, ArrivedIs
  <2> QED
    BY ONLY <2>1, Fields DEF IsCall
<1>7. /\ r \in Request /\ req \in Request /\ req.op = r.op /\ r.op # "none"
  <2>1. r \in Request
    BY ApiAssumption
  <2> QED
    BY <1>1, <2>1, DecodedType, OpIsSome
<1>8. /\ StepFits(req.op, step) /\ step \notin {"idle", "done", "rows", "qa", "files", "embed"}
      /\ step = "record" => req.op = "Ask"
      /\ step = "parse" => req.op \in {"Upload", "FileUpload"}
  <2>1. step = FirstStep(r)
    BY <1>1
  <2> QED
    BY <1>7, <2>1, FirstStepFits
<1>9. CASE Rejected(r)
  <2>1. reply = <<>>
    BY <1>1, <1>9 DEF Noticed
  <2>2. PICK st : st = <<Rejection(r)>>
    OBVIOUS
  <2>3. st \in Seq(Nat) /\ st # <<>> /\ Head(st) \notin 200 .. 299
    <3>1. CASE Rejection(r) = 422
      BY <2>2, <3>1
    <3>2. CASE Rejection(r) = 400
      BY <2>2, <3>2
    <3>3. Rejection(r) = 422 \/ Rejection(r) = 400
      BY <1>7, RejectionIs
    <3> QED
      BY <3>1, <3>2, <3>3
  <2>4. PICK d : d = GoneOn(call, "done", st, fl, got, todo)
    OBVIOUS
  <2>5. Becomes(s, d)
    <3>1. reply \o st = st
      BY <2>1, <2>3
    <3>2. Ended(call, st) = GoneOn(call, "done", call.reply \o st, call.failed, call.got, call.todo)
      BY <1>6, EndedIs
    <3>3. Ended(call, st) = d
      BY <1>6, <2>4, <3>1, <3>2
    <3> QED
      BY <1>3, <1>9, <2>2, <3>3 DEF Becomes
  <2>6. d.req = req /\ d.step = "done" /\ d.reply = st /\ d.failed = fl /\ IsCall(d)
    <3>1. PICK step2 : step2 = "done"
      OBVIOUS
    <3>2. d = CallIs(req, step2, st, fl, got, todo, call.start)
      BY <1>6, <2>4, <3>1 DEF GoneOn
    <3>3. d.req = req /\ d.step = step2 /\ d.reply = st /\ d.failed = fl /\ IsCall(d)
      BY ONLY <3>2, Fields DEF IsCall
    <3> QED
      BY <3>1, <3>3
  <2>7. ~IsSuccess(d)
    BY <2>3, <2>6 DEF IsSuccess
  <2>8. CallOK(d)
    <3>1. StepFits(d.req.op, d.step)
      BY <1>7, <2>6 DEF StepFits
    <3>2. d.req \in Request \union {Idle.req} /\ d.reply \in Seq(Nat) /\ d.reply # <<>> /\ d.failed \in BOOLEAN
      BY <1>5, <1>7, <2>3, <2>6
    <3> QED
      BY <2>6, <2>7, <3>1, <3>2 DEF CallOK
  <2>9. OneOK(d, chats', qas', files', uploads')
    BY <2>6, <2>7, <2>8 DEF OneOK, ParseOK, UploadOK, FilesOK, DeleteOK
  <2> QED
    BY <1>4, <2>5, <2>6, <2>9, PlainStep
<1>10. CASE ~Rejected(r)
  <2>1. Becomes(s, call)
    BY <1>3, <1>10 DEF Becomes
  <2>2. reply \in Seq(Nat) /\ (reply # <<>> => Head(reply) \notin 200 .. 299)
    <3>1. CASE reply = <<400>>
      BY <3>1
    <3>2. CASE reply = <<>>
      BY <3>2
    <3> QED
      BY <1>1, <3>1, <3>2
  <2>3. CallOK(call)
    <3>1. fl \in BOOLEAN /\ ~fl
      BY <1>5
    <3> QED
      BY <1>6, <1>7, <1>8, <2>2, <3>1 DEF CallOK
  <2>4. ASSUME step = "parse"
        PROVE  /\ got \in Seq(DOMAIN files) /\ DOMAIN got = {} /\ todo \in Seq(BOOLEAN) /\ reply = <<>> /\ ~fl
    <3>1. r.op \in {"Upload", "FileUpload"}
      BY <1>7, <1>8, <2>4
    <3>2. todo = r.files
      BY <1>1, <3>1
    <3>3. todo \in Seq(BOOLEAN)
      BY <1>7, <3>1, <3>2, RequestFields
    <3>4. ~Noticed(r)
      BY <1>10, <3>1 DEF Noticed, Rejected, GoesOn
    <3>5. got \in Seq(DOMAIN files) /\ DOMAIN got = {} /\ ~fl
      BY <1>5
    <3> QED
      BY <1>1, <3>3, <3>4, <3>5
  <2>5. ParseOK(call, qas, files, uploads)
    BY <1>6, <2>4 DEF ParseOK
  <2>6. OneOK(call, chats, qas, files, uploads)
    BY <1>6, <1>8, <2>3, <2>5 DEF OneOK, UploadOK, FilesOK, DeleteOK, IsSuccess
  <2>7. OneOK(call, chats', qas', files', uploads')
    BY <1>3, <2>6 DEF tables
  <2>8. \A t \in Slot \ {s} : Apart(call, calls[t]) /\ Apart(calls[t], call)
    BY <1>6, <1>8, <2>4 DEF Apart
  <2>9. Others(s, {}, {})
    BY DEF Others
  <2> QED
    BY <1>4, <2>1, <2>7, <2>8, <2>9, StepKeeps
<1> QED
  BY <1>9, <1>10

---------------------------------------------------------------------------
(* The theorems about the tables.                                          *)

LEMMA InitHolds == Init => IInv
<1> SUFFICES ASSUME Init PROVE IInv
  OBVIOUS
<1>1. PICK t \in InitialTables : /\ clock = t.clock /\ chats = t.chats /\ qas = t.qas
                                 /\ files = t.files /\ uploads = t.uploads
  BY DEF Init
<1>2. Sound(t)
  BY ApiAssumption
<1>3. Sound(Tables)
  <2>1. /\ Tables.clock = t.clock /\ Tables.chats = t.chats /\ Tables.qas = t.qas
        /\ Tables.files = t.files /\ Tables.uploads = t.uploads
    BY <1>1 DEF Tables
  <2> QED
    BY <1>2, <2>1 DEF Sound
<1>4. calls = [s \in Slot |-> calls[s]] /\ \A s \in Slot : calls[s] = Idle
  BY DEF Init
<1>5. /\ Idle.req.op = "none" /\ Idle.step = "idle" /\ Idle.reply = <<>> /\ Idle.failed = FALSE
      /\ Idle.got = <<>> /\ IsCall(Idle)
  BY DEF Idle, IsCall, CallIs
<1>6. CallOK(Idle)
  <2>1. Idle.req \in Request \union {Idle.req}
    OBVIOUS
  <2>2. PICK op, step, fl : op = "none" /\ step = "idle" /\ fl = FALSE
    OBVIOUS
  <2>3. StepFits(op, step) /\ step # "done" /\ fl \in BOOLEAN
    BY <2>2 DEF StepFits
  <2>4. StepFits(Idle.req.op, Idle.step) /\ Idle.step # "done" /\ Idle.failed \in BOOLEAN
    BY <1>5, <2>2, <2>3
  <2>5. Idle.reply \in Seq(Nat) /\ ~Idle.failed
    BY <1>5
  <2> QED
    BY <1>5, <2>1, <2>4, <2>5 DEF CallOK, IsSuccess
<1>7. \A s \in Slot : OneOK(Idle, chats, qas, files, uploads)
  BY <1>5, <1>6 DEF OneOK, ParseOK, UploadOK, FilesOK, DeleteOK, IsSuccess
<1>8. Apart(Idle, Idle)
  BY <1>5 DEF Apart
<1>9. faults \in 0 .. MaxFaults
  BY ApiAssumption DEF Init
<1> QED
  BY <1>3, <1>4, <1>7, <1>8, <1>9 DEF IInv

LEMMA NextKeeps == IInv /\ [Next]_vars => IInv'
<1> SUFFICES ASSUME IInv, [Next]_vars PROVE IInv'
  OBVIOUS
<1>1. CASE UNCHANGED vars
  <2>1. UNCHANGED tables /\ UNCHANGED <<calls, faults>>
    BY <1>1 DEF vars
  <2> QED
    BY <2>1, SameTables, NoCallStep
<1>2. CASE \E s \in Slot, r \in Requests : Begin(s, r)
  BY <1>2, BeginStep
<1>3. ASSUME NEW s \in Slot, Serve(s) PROVE IInv'
  <2>1. CASE CreateChat(s)
    BY <2>1, CreateChatStep
  <2>2. CASE ListOfChats(s) \/ ListOfQAs(s) \/ Statistic(s) \/ Poll(s)
    BY <2>2, ListSteps
  <2>3. CASE Delete(s)
    BY <2>3, DeleteStep
  <2>4. CASE UpdateChatTitle(s)
    BY <2>4, UpdateChatTitleStep
  <2>5. CASE Move(s)
    BY <2>5, MoveStep
  <2>6. CASE ListUserChats(s) \/ ListQAsOfNext(s) \/ Count(s) \/ ListPage(s)
    BY <2>6, WalkSteps
  <2>7. CASE DeleteRows(s)
    BY <2>7, DeleteRowsStep
  <2>8. CASE History(s)
    BY <2>8, HistoryStep
  <2>9. CASE Record(s)
    BY <2>9, RecordStep
  <2>10. CASE ParseFile(s)
    BY <2>10, ParseFileStep
  <2>11. CASE DiskFails(s)
    BY <2>11, DiskFailsStep
  <2>12. CASE WriteUploadFiles(s)
    BY <2>12, WriteUploadFilesStep
  <2>13. CASE WriteUploadQA(s)
    BY <2>13, WriteUploadQAStep
  <2>14. CASE FindUpload(s)
    BY <2>14, FindUploadStep
  <2>15. CASE FindFiles(s)
    BY <2>15, FindFilesStep
  <2>16. CASE Embed(s)
    BY <2>16, EmbedStep
  <2>17. CASE calls[s].step \notin OwnErrors /\ Fails(s)
    BY <2>17, FailsStep
  <2> QED
    BY <1>3, <2>1, <2>2, <2>3, <2>4, <2>5, <2>6, <2>7, <2>8, <2>9, <2>10, <2>11, <2>12, <2>13, <2>14,
       <2>15, <2>16, <2>17 DEF Serve
<1>4. CASE \E s \in Slot : Serve(s) \/ Convert(s)
  BY <1>3, <1>4, ConvertStep
<1>5. CASE \E q \in DOMAIN qas : Consume(q)
  BY <1>5, ConsumeStep
<1>6. CASE Tick
  BY <1>6, TickStep
<1> QED
  BY <1>1, <1>2, <1>4, <1>5, <1>6 DEF Next

LEMMA IInvSound ==
  ASSUME IInv
  PROVE  TablesAreSound /\ SuccessMeansDone
<1>1. TypeOK
  <2>1. ASSUME NEW s \in Slot
        PROVE  /\ calls[s].req \in Request \union {Idle.req} /\ calls[s].reply \in Seq(Nat)
               /\ calls[s].reply # <<>> => calls[s].step # "idle"
    <3>1. CallOK(calls[s])
      BY Facts
    <3> QED
      BY <3>1 DEF CallOK
  <2> QED
    BY <2>1 DEF TypeOK, IInv, Tables
<1>2. UploadsAreWhole
  <2>1. ASSUME NEW s \in Slot, Req(s).op = "AskFile", calls[s].step \in {"embed", "record"},
               calls[s].got.upload # 0, ~uploads[calls[s].got.upload].broken
        PROVE  calls[s].got.files = uploads[calls[s].got.upload].files
    <3>1. FilesOK(calls[s], qas, files, uploads)
      BY Facts DEF OneOK
    <3> QED
      BY <2>1, <3>1 DEF FilesOK, Req
  <2> QED
    BY <2>1 DEF UploadsAreWhole
<1>3. SuccessMeansDone
  <2>1. ASSUME NEW s \in Slot, Accepted(s)
        PROVE  /\ calls[s].failed => Req(s).op = "Ask"
               /\ Req(s).op = "DeleteChat" => ~Live(Req(s).chat)
               /\ Req(s).op = "Upload" =>
                    /\ \A f \in calls[s].got.files : files[f].upload = calls[s].got.upload
                    /\ \E q \in DOMAIN qas : qas[q].upload = calls[s].got.upload /\ qas[q].chat = Req(s).chat
    <3>1. CallOK(calls[s]) /\ UploadOK(calls[s], qas, files, uploads) /\ DeleteOK(calls[s], chats)
      BY Facts DEF OneOK
    <3>2. IsSuccess(calls[s])
      BY <2>1 DEF Accepted, IsSuccess
    <3>3. calls[s].failed => Req(s).op = "Ask"
      BY <3>1, <3>2 DEF CallOK, Req, IsSuccess
    <3>4. Req(s).op = "DeleteChat" => ~Live(Req(s).chat)
      BY <3>1, <3>2 DEF DeleteOK, Live, Req
    <3>5. Req(s).op = "Upload" =>
                    /\ \A f \in calls[s].got.files : files[f].upload = calls[s].got.upload
                    /\ \E q \in DOMAIN qas : qas[q].upload = calls[s].got.upload /\ qas[q].chat = Req(s).chat
      BY <3>1, <3>2 DEF UploadOK, Complete, Req
    <3> QED
      BY <3>3, <3>4, <3>5
  <2> QED
    BY <2>1 DEF SuccessMeansDone
<1> QED
  BY <1>1, <1>2, <1>3 DEF TablesAreSound

\* The tables stay well-formed whatever requests interleave: no file is of two uploads,
\* none without a row is of an upload that a question can find unless a row of it failed,
\* and the question has all files of the upload it found (backend/service/file.go).
THEOREM TablesStaySound == Spec => []TablesAreSound
<1>1. IInv => TablesAreSound
  BY IInvSound
<1> QED
  BY <1>1, InitHolds, NextKeeps, PTL DEF Spec

\* A status of success means that no statement failed, but for a history that was not
\* read, that a deleted chat is gone, and that an upload has the rows of its files and of
\* its QA (backend/handler/chat.go, completion.go, file.go).
THEOREM SuccessIsTrue == Spec => []SuccessMeansDone
<1>1. IInv => SuccessMeansDone
  BY IInvSound
<1> QED
  BY <1>1, InitHolds, NextKeeps, PTL DEF Spec
---------------------------------------------------------------------------
(* Pages of an order.                                                      *)

LEMMA MinOf ==
  ASSUME NEW m \in Nat, NEW n \in Nat
  PROVE  Min({m, n}) = IF m <= n THEN m ELSE n
<1> DEFINE least == IF m <= n THEN m ELSE n
<1>1. least \in {m, n} /\ \A y \in {m, n} : least <= y
  OBVIOUS
<1>2. \A x \in {m, n} : (\A y \in {m, n} : x <= y) => x = least
  OBVIOUS
<1> HIDE DEF least
<1>3. Min({m, n}) = least
  BY <1>1, <1>2 DEF Min
<1> QED
  BY <1>3 DEF least

\* A page ends within the rows, and has those at its places.
LEMMA PageOfOrder ==
  ASSUME NEW M, IsFiniteSet(M), NEW at, NEW s \in Sorted(M, at), NEW off \in Nat, NEW lim \in Nat \ {0},
         NEW page, page = First(lim, SubSeq(s, off + 1, Len(s)))
  PROVE  /\ page \in Seq(M)
         /\ page # <<>> => off + Len(page) <= Cardinality(M)
         /\ \A j \in 1 .. Cardinality(M) : off < j /\ j <= off + lim => s[j] \in ToSet(page)
         /\ Len(page) < lim => Cardinality(M) < off + lim
<1>1. Cardinality(M) \in Nat
  BY FS_CardinalityType
<1>2. PICK n \in Nat : n = Cardinality(M)
  BY <1>1
<1>3. s \in Seq(M) /\ Len(s) = n
  <2>1. s \in [1 .. n -> M]
    BY <1>2 DEF Sorted
  <2> QED
    BY <2>1, SequenceIs
<1>4. PICK r : r = SubSeq(s, off + 1, n)
  OBVIOUS
<1>5. /\ r \in Seq(M) /\ Len(r) = (IF off < n THEN n - off ELSE 0)
      /\ \A i \in 1 .. Len(r) : r[i] = s[off + i]
  BY <1>3, <1>4
<1>6. PICK m \in Nat : m = Len(r) /\ (off < n => m = n - off) /\ (~(off < n) => m = 0)
  <2>1. Len(r) \in Nat
    BY <1>5
  <2> QED
    BY <1>5, <2>1
<1>7. PICK k \in Nat : k = Min({lim, m}) /\ (lim <= m => k = lim) /\ (~(lim <= m) => k = m)
  BY MinOf
<1>8. page = SubSeq(r, 1, k)
  BY <1>3, <1>4, <1>6, <1>7 DEF First
<1>9. page \in Seq(M) /\ Len(page) = k /\ \A i \in 1 .. k : page[i] = r[i]
  <2>1. k <= m
    BY <1>6, <1>7
  <2>2. r \in Seq(M) /\ Len(r) = m
    BY <1>5, <1>6
  <2> QED
    BY <1>8, <2>1, <2>2
<1>10. page # <<>> => off + Len(page) <= n
  <2>1. CASE k = 0
    BY <1>9, <2>1
  <2>2. CASE k # 0
    BY <1>6, <1>7, <1>9, <2>2
  <2> QED
    BY <2>1, <2>2
<1>11. ASSUME NEW j \in 1 .. n, off < j, j <= off + lim PROVE s[j] \in ToSet(page)
  <2>1. j - off \in 1 .. k /\ j - off \in 1 .. m /\ j = off + (j - off)
    <3>1. j \in Nat /\ off < n /\ j <= n
      BY <1>11
    <3>2. m = n - off
      BY <1>6, <3>1
    <3>3. j - off \in 1 .. m /\ j - off <= lim /\ j = off + (j - off)
      BY <1>11, <3>1, <3>2
    <3>4. j - off <= k
      BY <1>7, <3>1, <3>3
    <3> QED
      BY <3>3, <3>4
  <2>2. page[j - off] = s[j] /\ j - off \in DOMAIN page
    BY <1>5, <1>6, <1>9, <2>1
  <2> QED
    BY <2>2 DEF ToSet
<1>12. Len(page) < lim => n < off + lim
  BY <1>6, <1>7, <1>9
<1> QED
  BY <1>2, <1>9, <1>10, <1>11, <1>12

\* The place of an element in an order is the number of those not after it, if no two
\* come at the same time.
LEMMA PlaceInOrder ==
  ASSUME NEW M, IsFiniteSet(M), NEW at \in [M -> Int], NEW s \in Sorted(M, at),
         \A p, q \in M : at[p] = at[q] => p = q, NEW j \in 1 .. Cardinality(M)
  PROVE  Cardinality({p \in M : at[p] <= at[s[j]]}) = j
<1> DEFINE B == {p \in M : at[p] <= at[s[j]]}
           f == [i \in 1 .. j |-> s[i]]
<1>1. Cardinality(M) \in Nat
  BY FS_CardinalityType
<1>2. /\ DOMAIN s = 1 .. Cardinality(M) /\ \A i \in DOMAIN s : s[i] \in M
      /\ \A i, k \in DOMAIN s : i < k => s[i] # s[k] /\ at[s[i]] <= at[s[k]]
      /\ \A x \in M : \E i \in DOMAIN s : s[i] = x
  BY DEF Sorted
<1>3. \A i \in 1 .. j : i \in DOMAIN s /\ s[i] \in B
  <2>1. ASSUME NEW i \in 1 .. j PROVE i \in DOMAIN s /\ s[i] \in B
    <3>1. i \in DOMAIN s /\ j \in DOMAIN s /\ (i < j \/ i = j)
      BY <1>1, <1>2
    <3>2. at[s[i]] <= at[s[j]]
      BY <1>2, <3>1
    <3> QED
      BY <1>2, <3>1, <3>2
  <2> QED
    BY <2>1
<1>4. \A x \in B : \E i \in 1 .. j : s[i] = x
  <2>1. ASSUME NEW x \in B PROVE \E i \in 1 .. j : s[i] = x
    <3>1. PICK i \in DOMAIN s : s[i] = x
      BY <1>2
    <3>2. CASE i > j
      <4>1. at[s[j]] <= at[s[i]] /\ s[j] # s[i] /\ j \in DOMAIN s
        BY <1>2, <3>2
      <4>2. at[s[i]] \in Int /\ at[s[j]] \in Int /\ at[s[i]] <= at[s[j]]
        BY <1>2, <3>1, <4>1
      <4>3. at[s[i]] = at[s[j]]
        BY <4>1, <4>2
      <4> QED
        BY <1>2, <3>1, <4>1, <4>3
    <3>3. CASE ~(i > j)
      BY <1>1, <1>2, <3>1, <3>3
    <3> QED
      BY <3>2, <3>3
  <2> QED
    BY <2>1
<1>5. \A i, k \in 1 .. j : s[i] = s[k] => i = k
  <2>1. \A i, k \in 1 .. j : i \in DOMAIN s /\ k \in DOMAIN s /\ (i < k \/ k < i \/ i = k)
    BY <1>1, <1>2
  <2> QED
    BY <1>2, <2>1
<1> HIDE DEF B
<1>6. f \in Bijection(1 .. j, B)
  <2>1. f \in [1 .. j -> B]
    BY <1>3
  <2>2. \A i, k \in 1 .. j : f[i] = f[k] => i = k
    BY <1>5
  <2>3. \A x \in B : \E i \in 1 .. j : f[i] = x
    BY <1>4
  <2> HIDE DEF f
  <2> QED
    BY <2>1, <2>2, <2>3 DEF Bijection, Injection, Surjection, IsInjective
<1>7. ExistsBijection(1 .. j, B)
  BY <1>6 DEF ExistsBijection
<1>8. IsFiniteSet(1 .. j) /\ Cardinality(1 .. j) = j
  BY <1>1, FS_Interval
<1>9. Cardinality(B) = j
  BY <1>7, <1>8, FS_Bijection
<1> QED
  BY <1>9 DEF B

---------------------------------------------------------------------------
(* The walk through the pages.                                             *)

Hit(r, x) == (r.from # None => x.at >= 24 * r.from) /\ (r.to # None => x.at < 24 * (r.to + 1))

Found(r, qs) == {q \in DOMAIN qs : qs[q].row = "there" /\ Hit(r, qs[q])}

\* The rows a request finds that do not come after q.
UpTo(r, qs, q) == {p \in Found(r, qs) : -qs[p].at <= -qs[q].at}

\* No row was deleted since the call came, and the times of those of its days differ.
Undisturbed(c, qs) ==
  /\ {q \in DOMAIN qs : qs[q].row = "deleted"} = c.start.gone.qas
  /\ \A p, q \in DOMAIN qs : Hit(c.req, qs[p]) /\ Hit(c.req, qs[q]) /\ qs[p].at = qs[q].at => p = q

\* No row was inserted since.
NoNews(c, qs) ==
  \A q \in DOMAIN qs : qs[q].row = "asked" \/ q \in c.start.rows \union c.start.gone.qas

Met(c, q) == \E i \in DOMAIN c.got : q \in ToSet(c.got[i].qas)

PageGot == [total : Nat, offset : Nat, qas : Seq(Nat)]

StartOK(c, qs) ==
  /\ \A q \in c.start.rows : q \in DOMAIN qs /\ qs[q].row # "asked" /\ q \notin c.start.gone.qas
  /\ \A q \in c.start.gone.qas : q \in DOMAIN qs /\ qs[q].row = "deleted"

\* A total counts at least the rows that are still there of those that were when the call came.
TotalOK(c, qs) ==
  c.step = "page" =>
    /\ Head(c.todo) \in Nat
    /\ c.req.to # None => Cardinality(Found(c.req, qs) \intersect c.start.rows) <= Head(c.todo)

WithinOK(c, qs) ==
  c.req.to # None /\ NoNews(c, qs) =>
    \A i \in DOMAIN c.got : c.got[i].qas # <<>> => c.got[i].offset + Len(c.got[i].qas) <= c.got[i].total

\* A row not met yet is behind the offset of the next page.
MetOK(c, qs) ==
  /\ c.step \in {"count", "page"} /\ Undisturbed(c, qs) =>
       \A q \in c.start.rows : Hit(c.req, qs[q]) =>
         Met(c, q) \/ c.req.limit * Len(c.got) < Cardinality(UpTo(c.req, qs, q))
  /\ IsSuccess(c) /\ Undisturbed(c, qs) =>
       \A q \in c.start.rows : Hit(c.req, qs[q]) => Met(c, q)

WalkOK(c, qs) ==
  c.req.op = "ListQAs" =>
    c.got \in Seq(PageGot) /\ StartOK(c, qs) /\ TotalOK(c, qs) /\ WithinOK(c, qs) /\ MetOK(c, qs)

\* Of the same chat, session and time.
Alike(x, y) ==
  /\ x.at = y.at /\ x.happened = y.happened /\ x.upload = y.upload
  /\ x.chat = y.chat /\ x.session = y.session

\* QAs stay where they are, as what they are, a row that is deleted stays so, and an answer.
QAsGoOn(qs, qs2) ==
  \A q \in DOMAIN qs :
    /\ q \in DOMAIN qs2 /\ Alike(qs2[q], qs[q]) /\ (qs[q].answered => qs2[q].answered)
    /\ qs[q].row = "deleted" => qs2[q].row = "deleted"
    /\ qs[q].row = "there" => qs2[q].row \in {"there", "deleted"}

LEMMA RowIs ==
  ASSUME NEW qs \in Seq(QARow), NEW q \in DOMAIN qs
  PROVE  qs[q].row \in {"asked", "there", "deleted"} /\ qs[q].at \in Nat
<1>1. qs[q] \in QARow
  OBVIOUS
<1> QED
  BY <1>1 DEF QARow

LEMMA FoundFinite ==
  ASSUME NEW qs \in Seq(QARow), NEW r
  PROVE  IsFiniteSet(Found(r, qs)) /\ IsFiniteSet(DOMAIN qs)
<1>1. DOMAIN qs = 1 .. Len(qs) /\ Len(qs) \in Nat
  OBVIOUS
<1>2. IsFiniteSet(1 .. Len(qs))
  BY <1>1, FS_Interval
<1>3. Found(r, qs) \subseteq 1 .. Len(qs)
  BY <1>1 DEF Found
<1> QED
  BY <1>1, <1>2, <1>3, FS_Subset

LEMMA WalkStays ==
  ASSUME NEW c, NEW qs \in Seq(QARow), NEW qs2 \in Seq(QARow), QAsGoOn(qs, qs2), WalkOK(c, qs),
         c.req \in Request
  PROVE  WalkOK(c, qs2)
<1> SUFFICES ASSUME c.req.op = "ListQAs"
             PROVE  c.got \in Seq(PageGot) /\ StartOK(c, qs2) /\ TotalOK(c, qs2) /\ WithinOK(c, qs2)
                    /\ MetOK(c, qs2)
  BY DEF WalkOK
<1>1. c.got \in Seq(PageGot) /\ StartOK(c, qs) /\ TotalOK(c, qs) /\ WithinOK(c, qs) /\ MetOK(c, qs)
  BY DEF WalkOK
<1>2. \A q \in DOMAIN qs : Hit(c.req, qs2[q]) <=> Hit(c.req, qs[q])
  BY DEF QAsGoOn, Alike, Hit
<1>3. StartOK(c, qs2)
  <2>1. ASSUME NEW q \in c.start.rows
        PROVE  q \in DOMAIN qs2 /\ qs2[q].row # "asked" /\ q \notin c.start.gone.qas
    <3>1. q \in DOMAIN qs /\ qs[q].row # "asked" /\ q \notin c.start.gone.qas
      BY <1>1 DEF StartOK
    <3>2. qs[q].row \in {"asked", "there", "deleted"}
      BY <3>1, RowIs
    <3> QED
      BY <3>1, <3>2 DEF QAsGoOn, Alike
  <2> QED
    BY <1>1, <2>1 DEF StartOK, QAsGoOn, Alike
<1>4. TotalOK(c, qs2)
  <2>1. Found(c.req, qs2) \intersect c.start.rows \subseteq Found(c.req, qs) \intersect c.start.rows
    <3>1. ASSUME NEW q \in Found(c.req, qs2) \intersect c.start.rows PROVE q \in Found(c.req, qs)
      <4>1. q \in DOMAIN qs /\ qs[q].row # "asked" /\ qs2[q].row = "there" /\ Hit(c.req, qs2[q])
        BY <1>1 DEF StartOK, Found
      <4>2. qs[q].row \in {"asked", "there", "deleted"}
        BY <4>1, RowIs
      <4> QED
        BY <1>2, <4>1, <4>2 DEF QAsGoOn, Alike, Found
    <3> QED
      BY <3>1
  <2> DEFINE A == Found(c.req, qs) \intersect c.start.rows
             B == Found(c.req, qs2) \intersect c.start.rows
  <2>2. IsFiniteSet(A)
    BY FoundFinite, FS_Subset
  <2>3. B \in SUBSET A
    BY <2>1
  <2> HIDE DEF A, B
  <2>4. Cardinality(B) <= Cardinality(A) /\ Cardinality(A) \in Nat /\ Cardinality(B) \in Nat
    BY <2>2, <2>3, FS_Subset, FS_CardinalityType
  <2>5. ASSUME c.step = "page"
        PROVE  Head(c.todo) \in Nat /\ (c.req.to # None => Cardinality(B) <= Head(c.todo))
    <3>1. Head(c.todo) \in Nat /\ (c.req.to # None => Cardinality(A) <= Head(c.todo))
      BY <1>1, <2>5 DEF TotalOK, A
    <3> QED
      BY <2>4, <3>1
  <2> QED
    BY <2>5 DEF TotalOK, B
<1>5. WithinOK(c, qs2)
  <2>1. ASSUME NoNews(c, qs2) PROVE NoNews(c, qs)
    <3>1. ASSUME NEW q \in DOMAIN qs PROVE qs[q].row = "asked" \/ q \in c.start.rows \union c.start.gone.qas
      <4>1. qs[q].row \in {"asked", "there", "deleted"}
        BY RowIs
      <4>2. q \in DOMAIN qs2 /\ (qs[q].row # "asked" => qs2[q].row # "asked")
        BY <4>1 DEF QAsGoOn, Alike
      <4> QED
        BY <2>1, <4>2 DEF NoNews
    <3> QED
      BY <3>1 DEF NoNews
  <2> QED
    BY <1>1, <2>1 DEF WithinOK
<1>6. ASSUME Undisturbed(c, qs2)
      PROVE  /\ Undisturbed(c, qs)
             /\ \A q \in c.start.rows : Hit(c.req, qs2[q]) =>
                  Hit(c.req, qs[q]) /\ UpTo(c.req, qs, q) \subseteq UpTo(c.req, qs2, q)
  <2>1. {q \in DOMAIN qs : qs[q].row = "deleted"} = c.start.gone.qas
    <3>1. \A q \in DOMAIN qs : qs[q].row = "deleted" => q \in DOMAIN qs2 /\ qs2[q].row = "deleted"
      BY DEF QAsGoOn, Alike
    <3>2. \A q \in c.start.gone.qas : q \in DOMAIN qs /\ qs[q].row = "deleted"
      BY <1>1 DEF StartOK
    <3>3. {q \in DOMAIN qs2 : qs2[q].row = "deleted"} = c.start.gone.qas
      BY <1>6 DEF Undisturbed
    <3> QED
      BY <3>1, <3>2, <3>3
  <2>2. Undisturbed(c, qs)
    BY <1>2, <1>6, <2>1 DEF Undisturbed, QAsGoOn, Alike
  <2>3. \A p \in Found(c.req, qs) : p \in Found(c.req, qs2) /\ qs2[p].at = qs[p].at /\ p \in DOMAIN qs
    <3>1. ASSUME NEW p \in Found(c.req, qs) PROVE qs2[p].row = "there"
      <4>1. p \in DOMAIN qs /\ qs[p].row = "there"
        BY DEF Found
      <4>2. p \notin c.start.gone.qas
        BY <2>1, <4>1
      <4>3. p \in DOMAIN qs2 /\ qs2[p].row # "deleted"
        BY <1>6, <4>1, <4>2 DEF Undisturbed, QAsGoOn, Alike
      <4> QED
        BY <4>1, <4>3 DEF QAsGoOn, Alike
    <3> QED
      BY <1>2, <3>1 DEF Found, QAsGoOn, Alike
  <2>4. ASSUME NEW q \in c.start.rows, Hit(c.req, qs2[q])
        PROVE  Hit(c.req, qs[q]) /\ UpTo(c.req, qs, q) \subseteq UpTo(c.req, qs2, q)
    <3>1. q \in DOMAIN qs /\ qs2[q].at = qs[q].at
      BY <1>1 DEF StartOK, QAsGoOn, Alike
    <3> QED
      BY <1>2, <2>3, <2>4, <3>1 DEF UpTo
  <2> QED
    BY <2>2, <2>4
<1>7. MetOK(c, qs2)
  <2>1. ASSUME c.step \in {"count", "page"}, Undisturbed(c, qs2), NEW q \in c.start.rows, Hit(c.req, qs2[q])
        PROVE  Met(c, q) \/ c.req.limit * Len(c.got) < Cardinality(UpTo(c.req, qs2, q))
    <3>1. Met(c, q) \/ c.req.limit * Len(c.got) < Cardinality(UpTo(c.req, qs, q))
      BY <1>1, <1>6, <2>1 DEF MetOK
    <3>2. UpTo(c.req, qs, q) \in SUBSET UpTo(c.req, qs2, q)
      BY <1>6, <2>1
    <3>3. IsFiniteSet(UpTo(c.req, qs2, q))
      <4>1. UpTo(c.req, qs2, q) \in SUBSET Found(c.req, qs2)
        BY DEF UpTo
      <4> QED
        BY <4>1, FoundFinite, FS_Subset
    <3>4. /\ Cardinality(UpTo(c.req, qs, q)) <= Cardinality(UpTo(c.req, qs2, q))
          /\ Cardinality(UpTo(c.req, qs, q)) \in Nat /\ Cardinality(UpTo(c.req, qs2, q)) \in Nat
      BY <3>2, <3>3, FS_Subset, FS_CardinalityType
    <3>5. PICK n : n = c.req.limit * Len(c.got)
      OBVIOUS
    <3>6. n \in Nat
      <4>1. c.req.limit \in Nat /\ Len(c.got) \in Nat
        BY <1>1, RequestFields
      <4> QED
        BY <3>5, <4>1
    <3> QED
      BY <3>1, <3>4, <3>5, <3>6
  <2>2. ASSUME IsSuccess(c), Undisturbed(c, qs2), NEW q \in c.start.rows, Hit(c.req, qs2[q])
        PROVE  Met(c, q)
    BY <1>1, <1>6, <2>2 DEF MetOK
  <2> QED
    BY <2>1, <2>2 DEF MetOK
<1> QED
  BY <1>1, <1>3, <1>4, <1>5, <1>7

---------------------------------------------------------------------------
(* The steps of the walk.                                                  *)

\* An appended page is met after all that was.
LEMMA PageAppended ==
  ASSUME NEW c, NEW d, c.got \in Seq(PageGot), NEW p \in PageGot, d.got = Append(c.got, p)
  PROVE  /\ d.got \in Seq(PageGot) /\ Len(d.got) = Len(c.got) + 1
         /\ \A i \in DOMAIN c.got : d.got[i] = c.got[i]
         /\ \A i \in DOMAIN d.got : i \in DOMAIN c.got \/ d.got[i] = p
         /\ \A q : Met(c, q) \/ q \in ToSet(p.qas) => Met(d, q)
<1>1. /\ d.got \in Seq(PageGot) /\ Len(d.got) = Len(c.got) + 1 /\ Len(c.got) \in Nat
      /\ DOMAIN c.got = 1 .. Len(c.got) /\ DOMAIN d.got = 1 .. Len(c.got) + 1
      /\ \A i \in DOMAIN c.got : d.got[i] = c.got[i]
      /\ d.got[Len(c.got) + 1] = p
  OBVIOUS
<1>2. \A i \in DOMAIN d.got : i \in DOMAIN c.got \/ d.got[i] = p
  BY <1>1
<1>3. \A i \in DOMAIN c.got : i \in DOMAIN d.got
  BY <1>1
<1>4. Len(c.got) + 1 \in DOMAIN d.got
  BY <1>1
<1>5. ASSUME NEW q, Met(c, q) \/ q \in ToSet(p.qas) PROVE Met(d, q)
  <2>1. CASE Met(c, q)
    BY <1>1, <1>3, <2>1 DEF Met
  <2>2. CASE q \in ToSet(p.qas)
    BY <1>1, <1>4, <2>2 DEF Met
  <2> QED
    BY <1>5, <2>1, <2>2
<1> QED
  BY <1>1, <1>2, <1>5

LEMMA NextOffset ==
  ASSUME NEW m \in Nat, NEW k \in Nat
  PROVE  m * k \in Nat /\ m * (k + 1) = m * k + m
  OBVIOUS

LEMMA Elements ==
  ASSUME NEW A, NEW B, A \subseteq B, NEW s \in Seq(A)
  PROVE  s \in Seq(B)
<1>1. \A i \in 1 .. Len(s) : s[i] \in B
  OBVIOUS
<1>2. s = [i \in 1 .. Len(s) |-> s[i]] /\ Len(s) \in Nat
  OBVIOUS
<1>3. s \in [1 .. Len(s) -> B]
  BY <1>1, <1>2
<1> QED
  BY <1>2, <1>3, SequenceIs

\* The rows of a page, and what is met with it.
LEMMA PageRead ==
  ASSUME NEW c, c.req \in Request, c.req.op = "ListQAs", WalkOK(c, qas), c.step = "page", qas \in Seq(QARow),
         NEW off, off = c.req.limit * Len(c.got),
         NEW page \in Page(c.req.from, c.req.to, off, c.req.limit),
         NEW p, p = [total |-> Head(c.todo), offset |-> off, qas |-> page],
         NEW d, d.req = c.req, d.start = c.start, d.got = Append(c.got, p),
         IF Len(page) < c.req.limit THEN d.step = "done" ELSE d.step = "count"
  PROVE  WalkOK(d, qas)
<1> DEFINE M == Found(c.req, qas)
           at == [q \in M |-> -qas[q].at]
           n == Cardinality(M)
           lim == c.req.limit
<1>1. /\ c.got \in Seq(PageGot) /\ StartOK(c, qas) /\ TotalOK(c, qas) /\ WithinOK(c, qas) /\ MetOK(c, qas)
      /\ lim \in Nat \ {0} /\ Len(c.got) \in Nat
  BY RequestFields DEF WalkOK
<1>2. off \in Nat /\ lim * (Len(c.got) + 1) = off + lim
  <2>1. off = lim * Len(c.got)
    OBVIOUS
  <2> HIDE DEF lim
  <2> QED
    BY <1>1, <2>1, NextOffset
<1>3. IsFiniteSet(M) /\ n \in Nat /\ M \subseteq DOMAIN qas
  BY FoundFinite, FS_CardinalityType DEF Found
<1>4. at \in [M -> Int]
  <2>1. ASSUME NEW q \in M PROVE -qas[q].at \in Int
    BY <1>3, RowIs
  <2> QED
    BY <2>1
<1>5. PICK s \in Sorted(M, at) : page = First(lim, SubSeq(s, off + 1, Len(s)))
  <2>1. M = {q \in Rows : From(c.req.from, q) /\ To(c.req.to, q)}
    BY DEF Found, Hit, Rows, There, From, To
  <2>2. Descending(M) = Sorted(M, at)
    <3>1. Orders(M, at) = Sorted(M, at)
      <4> HIDE DEF M, at
      <4> QED
        BY <1>3, <1>4, OrdersAre
    <3> QED
      BY <3>1 DEF Descending
  <2> HIDE DEF M, at
  <2> QED
    BY <2>1, <2>2 DEF Page
<1> HIDE DEF M, at, n, lim
<1>6. /\ page \in Seq(M)
      /\ page # <<>> => off + Len(page) <= n
      /\ \A j \in 1 .. n : off < j /\ j <= off + lim => s[j] \in ToSet(page)
      /\ Len(page) < lim => n < off + lim
  <2>1. lim \in Nat \ {0} /\ off \in Nat /\ IsFiniteSet(M) /\ n = Cardinality(M)
    BY <1>1, <1>2, <1>3 DEF n
  <2>2. s \in Sorted(M, at) /\ page = First(lim, SubSeq(s, off + 1, Len(s)))
    BY <1>5
  <2>3. /\ page \in Seq(M)
        /\ page # <<>> => off + Len(page) <= Cardinality(M)
        /\ \A j \in 1 .. Cardinality(M) : off < j /\ j <= off + lim => s[j] \in ToSet(page)
        /\ Len(page) < lim => Cardinality(M) < off + lim
    BY ONLY <2>1, <2>2, PageOfOrder
  <2> QED
    BY <2>1, <2>3
<1>7. p.total = Head(c.todo) /\ p.offset = off /\ p.qas = page /\ p \in PageGot
  <2>1. Head(c.todo) \in Nat
    BY <1>1 DEF TotalOK
  <2>2. page \in Seq(Nat)
    <3>1. M \subseteq Nat
      BY <1>3
    <3> QED
      BY <1>6, <3>1, Elements
  <2> QED
    BY <1>2, <2>1, <2>2 DEF PageGot
<1>8. /\ d.got \in Seq(PageGot) /\ Len(d.got) = Len(c.got) + 1
      /\ \A i \in DOMAIN c.got : d.got[i] = c.got[i]
      /\ \A i \in DOMAIN d.got : i \in DOMAIN c.got \/ d.got[i] = p
      /\ \A q : Met(c, q) \/ q \in ToSet(page) => Met(d, q)
  <2>1. c.got \in Seq(PageGot) /\ p \in PageGot /\ d.got = Append(c.got, p) /\ p.qas = page
    BY <1>1, <1>7
  <2> QED
    BY ONLY <2>1, PageAppended
<1>9. StartOK(d, qas)
  BY <1>1 DEF StartOK
<1>10. TotalOK(d, qas)
  BY DEF TotalOK
<1>11. WithinOK(d, qas)
  <2>1. SUFFICES ASSUME c.req.to # None, NoNews(c, qas), NEW i \in DOMAIN d.got, d.got[i].qas # <<>>
                 PROVE  d.got[i].offset + Len(d.got[i].qas) <= d.got[i].total
    BY DEF WithinOK, NoNews
  <2>2. CASE i \in DOMAIN c.got
    BY <1>1, <1>8, <2>1, <2>2 DEF WithinOK
  <2>3. CASE d.got[i] = p
    <3>1. M = M \intersect c.start.rows
      <4>1. ASSUME NEW q \in M PROVE q \in c.start.rows
        <5>1. q \in DOMAIN qas /\ qas[q].row = "there"
          BY DEF M, Found
        <5>2. q \notin c.start.gone.qas
          BY <1>1, <5>1 DEF StartOK
        <5> QED
          BY <2>1, <5>1, <5>2 DEF NoNews
      <4> QED
        BY <4>1
    <3>2. n <= Head(c.todo) /\ Head(c.todo) \in Nat
      BY <1>1, <2>1, <3>1 DEF TotalOK, M, n
    <3>3. off + Len(page) <= n /\ Len(page) \in Nat
      BY <1>6, <1>7, <2>1, <2>3
    <3> QED
      BY <1>2, <1>3, <1>7, <2>3, <3>2, <3>3
  <2> QED
    BY <1>8, <2>2, <2>3
<1>12. ASSUME Undisturbed(c, qas), NEW q \in c.start.rows, Hit(c.req, qas[q]), ~Met(d, q)
       PROVE  /\ off + lim < Cardinality(UpTo(c.req, qas, q))
              /\ Cardinality(UpTo(c.req, qas, q)) <= n
  <2>1. q \in DOMAIN qas /\ qas[q].row # "asked" /\ q \notin c.start.gone.qas
    BY <1>1 DEF StartOK
  <2>2. qas[q].row = "there"
    <3>1. qas[q].row # "deleted"
      BY <1>12, <2>1 DEF Undisturbed
    <3> QED
      BY <2>1, <3>1, RowIs
  <2>3. q \in M
    BY <1>12, <2>1, <2>2 DEF M, Found
  <2>4. PICK j \in 1 .. n : s[j] = q
    BY <2>3 DEF Sorted, n
  <2>5. \A x, y \in M : at[x] = at[y] => x = y
    <3>1. ASSUME NEW x \in M, NEW y \in M, at[x] = at[y] PROVE x = y
      <4>1. x \in DOMAIN qas /\ y \in DOMAIN qas /\ Hit(c.req, qas[x]) /\ Hit(c.req, qas[y])
        BY DEF M, Found
      <4>2. -qas[x].at = -qas[y].at
        BY <3>1 DEF at
      <4>3. qas[x].at \in Nat /\ qas[y].at \in Nat
        BY <4>1, RowIs
      <4>4. qas[x].at = qas[y].at
        BY <4>2, <4>3
      <4> QED
        BY <1>12, <4>1, <4>4 DEF Undisturbed
    <3> QED
      BY <3>1
  <2>6. Cardinality({x \in M : at[x] <= at[s[j]]}) = j
    BY <1>3, <1>4, <2>5, PlaceInOrder DEF n
  <2>7. UpTo(c.req, qas, q) = {x \in M : at[x] <= at[s[j]]}
    BY <2>3, <2>4 DEF UpTo, M, at
  <2>8. Cardinality(UpTo(c.req, qas, q)) = j
    BY <2>6, <2>7
  <2>9. ~Met(c, q) /\ q \notin ToSet(page)
    BY <1>8, <1>12
  <2>10. off < j
    BY <1>1, <1>12, <2>8, <2>9 DEF MetOK, lim
  <2>11. ~(j <= off + lim)
    BY <1>6, <2>4, <2>9, <2>10
  <2> QED
    BY <1>1, <1>2, <1>3, <2>8, <2>11
<1>13. MetOK(d, qas)
  <2>1. ASSUME d.step \in {"count", "page"}, Undisturbed(c, qas), NEW q \in c.start.rows, Hit(c.req, qas[q])
        PROVE  Met(d, q) \/ lim * Len(d.got) < Cardinality(UpTo(c.req, qas, q))
    BY <1>2, <1>8, <1>12, <2>1
  <2>2. ASSUME IsSuccess(d), Undisturbed(c, qas), NEW q \in c.start.rows, Hit(c.req, qas[q])
        PROVE  Met(d, q)
    <3>1. Len(page) < lim
      BY <2>2 DEF IsSuccess, lim
    <3>2. n < off + lim
      BY <1>6, <3>1
    <3>3. UpTo(c.req, qas, q) \in SUBSET M
      BY DEF UpTo, M
    <3>4. Cardinality(UpTo(c.req, qas, q)) \in Nat
      BY <1>3, <3>3, FS_Subset, FS_CardinalityType
    <3> QED
      BY <1>1, <1>2, <1>3, <1>12, <2>2, <3>2, <3>4
  <2> QED
    BY <2>1, <2>2 DEF MetOK, Undisturbed, lim
<1> QED
  BY <1>8, <1>9, <1>10, <1>11, <1>13 DEF WalkOK

LEMMA CountRead ==
  ASSUME NEW c, c.req \in Request, c.req.op = "ListQAs", WalkOK(c, qas), c.step = "count", qas \in Seq(QARow),
         NEW n, n = CountQAs(c.req.from, c.req.to),
         NEW d, d.req = c.req, d.start = c.start, d.got = c.got, d.step = "page", d.todo = <<n>>
  PROVE  WalkOK(d, qas)
<1>1. c.got \in Seq(PageGot) /\ StartOK(c, qas) /\ WithinOK(c, qas) /\ MetOK(c, qas)
  BY DEF WalkOK
<1>2. IsFiniteSet(Found(c.req, qas)) /\ Cardinality(Found(c.req, qas)) \in Nat
  BY FoundFinite, FS_CardinalityType
<1>3. Found(c.req, qas) = {q \in Rows : From(c.req.from, q) /\ To(c.req.to, q)}
  BY DEF Found, Hit, Rows, There, From, To
<1>4. n \in Nat /\ (c.req.to # None => n = Cardinality(Found(c.req, qas)))
  <2>1. CASE c.req.to = None
    BY <2>1 DEF CountQAs
  <2>2. CASE c.req.to # None
    BY <1>2, <1>3, <2>2 DEF CountQAs
  <2> QED
    BY <2>1, <2>2
<1>5. TotalOK(d, qas)
  <2>1. Found(c.req, qas) \intersect c.start.rows \in SUBSET Found(c.req, qas)
    OBVIOUS
  <2>2. Cardinality(Found(c.req, qas) \intersect c.start.rows) <= Cardinality(Found(c.req, qas))
    BY <1>2, <2>1, FS_Subset
  <2>3. Head(d.todo) = n
    OBVIOUS
  <2>4. c.req.to # None => Cardinality(Found(c.req, qas) \intersect c.start.rows) <= n
    BY <1>4, <2>2
  <2> QED
    BY <1>4, <2>3, <2>4 DEF TotalOK
<1>6. StartOK(d, qas) /\ WithinOK(d, qas)
  BY <1>1 DEF StartOK, WithinOK, NoNews
<1>7. MetOK(d, qas)
  BY <1>1 DEF MetOK, Undisturbed, Met, IsSuccess
<1> QED
  BY <1>1, <1>5, <1>6, <1>7 DEF WalkOK

\* A call that has ended without success.
LEMMA WalkEnds ==
  ASSUME NEW c, WalkOK(c, qas), NEW d, d.req = c.req, d.start = c.start, d.got = c.got, d.step = "done", ~IsSuccess(d)
  PROVE  WalkOK(d, qas)
<1> SUFFICES ASSUME c.req.op = "ListQAs" PROVE WalkOK(d, qas)
  BY DEF WalkOK
<1>1. c.got \in Seq(PageGot) /\ StartOK(c, qas) /\ WithinOK(c, qas)
  BY DEF WalkOK
<1>2. StartOK(d, qas) /\ WithinOK(d, qas) /\ TotalOK(d, qas) /\ MetOK(d, qas)
  BY <1>1 DEF StartOK, WithinOK, NoNews, TotalOK, MetOK
<1> QED
  BY <1>1, <1>2 DEF WalkOK

\* A call that has come: what is there is behind the first offset, which is 0.
LEMMA WalkBegins ==
  ASSUME NEW d, d.req \in Request, d.start = Start, d.got = <<>>, d.step \in {"count", "done"}, ~IsSuccess(d),
         qas \in Seq(QARow)
  PROVE  WalkOK(d, qas)
<1> SUFFICES ASSUME d.req.op = "ListQAs" PROVE WalkOK(d, qas)
  BY DEF WalkOK
<1>1. /\ d.start.rows = {q \in DOMAIN qas : qas[q].row = "there"}
      /\ d.start.gone.qas = {q \in DOMAIN qas : qas[q].row = "deleted"}
  BY DEF Start, Rows, There
<1>2. d.got \in Seq(PageGot) /\ Len(d.got) = 0 /\ DOMAIN d.got = {}
  OBVIOUS
<1>3. StartOK(d, qas) /\ TotalOK(d, qas) /\ WithinOK(d, qas)
  BY <1>1, <1>2 DEF StartOK, TotalOK, WithinOK
<1>4. ASSUME NEW q \in d.start.rows, Hit(d.req, qas[q])
      PROVE  d.req.limit * Len(d.got) < Cardinality(UpTo(d.req, qas, q))
  <2>1. q \in DOMAIN qas /\ qas[q].at \in Nat
    BY <1>1, RowIs
  <2>2. q \in UpTo(d.req, qas, q)
    BY <1>1, <1>4, <2>1 DEF UpTo, Found
  <2>3. UpTo(d.req, qas, q) \in SUBSET Found(d.req, qas)
    BY DEF UpTo
  <2>4. IsFiniteSet(UpTo(d.req, qas, q))
    BY <2>3, FoundFinite, FS_Subset
  <2>5. Cardinality(UpTo(d.req, qas, q)) \in Nat /\ Cardinality(UpTo(d.req, qas, q)) # 0
    BY <2>2, <2>4, FS_CardinalityType, FS_EmptySet
  <2>6. d.req.limit * Len(d.got) = 0
    <3>1. d.req.limit \in Nat
      BY RequestFields
    <3> QED
      BY <1>2, <3>1
  <2> QED
    BY <2>5, <2>6
<1>5. MetOK(d, qas)
  BY <1>4 DEF MetOK
<1> QED
  BY <1>2, <1>3, <1>5 DEF WalkOK

---------------------------------------------------------------------------
(* Every step leaves a walk that goes on.                                  *)

LEMMA QAsStay == QAsGoOn(qas, qas)
  BY DEF QAsGoOn, Alike

LEMMA RowGoesOn ==
  ASSUME NEW x \in QARow, NEW y,
         y \in {[x EXCEPT !.row = "there"], [x EXCEPT !.row = "deleted"], [x EXCEPT !.answered = TRUE]}
  PROVE  /\ Alike(y, x) /\ (x.answered => y.answered)
         /\ y = [x EXCEPT !.row = "there"] => y.row = "there"
         /\ y = [x EXCEPT !.row = "deleted"] => y.row = "deleted"
         /\ y = [x EXCEPT !.answered = TRUE] => y.row = x.row
  BY DEF QARow, Alike

LEMMA QAsAppended ==
  ASSUME qas \in Seq(QARow), NEW x, qas' = Append(qas, x)
  PROVE  QAsGoOn(qas, qas')
<1>1. \A q \in DOMAIN qas : q \in DOMAIN qas' /\ qas'[q] = qas[q]
  OBVIOUS
<1> QED
  BY <1>1 DEF QAsGoOn, Alike

LEMMA DeleteRowsGoesOn ==
  ASSUME qas \in Seq(QARow), NEW s \in Slot, DeleteRows(s)
  PROVE  QAsGoOn(qas, qas')
<1>1. /\ DOMAIN qas' = DOMAIN qas
      /\ \A q \in DOMAIN qas : qas'[q] = qas[q] \/ (There(q) /\ qas'[q] = [qas[q] EXCEPT !.row = "deleted"])
  BY DEF DeleteRows, DeleteQAs
<1>2. ASSUME NEW q \in DOMAIN qas
      PROVE  /\ q \in DOMAIN qas' /\ Alike(qas'[q], qas[q]) /\ (qas[q].answered => qas'[q].answered)
             /\ qas[q].row = "deleted" => qas'[q].row = "deleted"
             /\ qas[q].row = "there" => qas'[q].row \in {"there", "deleted"}
  <2>1. qas[q] \in QARow
    OBVIOUS
  <2>2. CASE qas'[q] = qas[q]
    BY <1>1, <2>2 DEF Alike
  <2>3. CASE There(q) /\ qas'[q] = [qas[q] EXCEPT !.row = "deleted"]
    <3>1. PICK x, y : x = qas[q] /\ y = qas'[q]
      OBVIOUS
    <3>2. x \in QARow /\ y = [x EXCEPT !.row = "deleted"]
      BY <2>1, <2>3, <3>1
    <3>3. Alike(y, x) /\ (x.answered => y.answered) /\ y.row = "deleted"
      BY <3>2, RowGoesOn
    <3> QED
      BY <1>1, <2>3, <3>1, <3>3 DEF There
  <2> QED
    BY <1>1, <2>2, <2>3
<1> QED
  BY <1>2 DEF QAsGoOn

LEMMA ConsumeGoesOn ==
  ASSUME qas \in Seq(QARow), NEW q \in DOMAIN qas, Consume(q)
  PROVE  QAsGoOn(qas, qas')
<1>1. qas[q] \in QARow
  OBVIOUS
<1>2. PICK x, y : /\ y = qas[q] /\ qas' = [qas EXCEPT ![q] = x]
                  /\ \/ y.row = "asked" /\ x = [y EXCEPT !.row = "there"]
                     \/ x = [y EXCEPT !.answered = TRUE]
  BY DEF Consume
<1>3. Alike(x, y) /\ (y.answered => x.answered) /\ (y.row # "asked" => x.row = y.row)
  BY <1>1, <1>2, RowGoesOn
<1>4. DOMAIN qas' = DOMAIN qas /\ qas'[q] = x /\ \A p \in DOMAIN qas \ {q} : qas'[p] = qas[p]
  BY <1>2
<1>5. \A p \in DOMAIN qas : p # q => Alike(qas'[p], qas[p])
  BY <1>4 DEF Alike
<1> QED
  BY <1>2, <1>3, <1>4, <1>5 DEF QAsGoOn

\* No step of a call changes its request, or another call.
SameRequest(s) ==
  /\ calls'[s].req = calls[s].req
  /\ \A t \in Slot \ {s} : calls'[t] = calls[t]

LEMMA FormsKeepRequests ==
  ASSUME NEW s \in Slot, Calls, IsCall(calls[s])
  PROVE  /\ \A st : Return(s, st) => SameRequest(s)
         /\ \A got : SucceedWith(s, got) => SameRequest(s)
         /\ \A step, got, todo : Continue(s, step, got, todo) => SameRequest(s)
         /\ \A st : EndsFailed(s, st) => SameRequest(s)
<1>1. ASSUME NEW step, NEW reply, NEW failed, NEW got, NEW todo,
             Becomes(s, GoneOn(calls[s], step, reply, failed, got, todo))
      PROVE  SameRequest(s)
  <2>1. PICK d : d = GoneOn(calls[s], step, reply, failed, got, todo)
    OBVIOUS
  <2>2. d.req = calls[s].req
    BY <2>1, Fields DEF GoneOn
  <2>3. calls' = [calls EXCEPT ![s] = d]
    BY <1>1, <2>1 DEF Becomes
  <2> QED
    BY <2>2, <2>3, SetCall DEF SameRequest
<1>2. ASSUME NEW st, Return(s, st) PROVE SameRequest(s)
  BY <1>1, <1>2, ReturnIs
<1>3. ASSUME NEW got, SucceedWith(s, got) PROVE SameRequest(s)
  BY <1>1, <1>3, SucceedWithIs
<1>4. ASSUME NEW step, NEW got, NEW todo, Continue(s, step, got, todo) PROVE SameRequest(s)
  BY <1>1, <1>4, ContinueIs
<1>5. ASSUME NEW st, EndsFailed(s, st) PROVE SameRequest(s)
  BY <1>1, <1>5, FailsIs
<1> QED
  BY <1>2, <1>3, <1>4, <1>5

LEMMA RawForms ==
  ASSUME NEW s \in Slot, Calls, IsCall(calls[s]), NEW v, NEW w
  PROVE  /\ calls' = [calls EXCEPT ![s].step = v, ![s].failed = w] => SameRequest(s)
         /\ calls' = [calls EXCEPT ![s].step = v, ![s].reply = w] => SameRequest(s)
<1> DEFINE a == [calls[s] EXCEPT !.step = v, !.failed = w]
           b == [calls[s] EXCEPT !.step = v, !.reply = w]
<1>1. a.req = calls[s].req /\ b.req = calls[s].req
  BY DEF IsCall, CallIs
<1>2. calls' = [calls EXCEPT ![s].step = v, ![s].failed = w] => calls' = [calls EXCEPT ![s] = a]
  BY DEF Calls
<1>3. calls' = [calls EXCEPT ![s].step = v, ![s].reply = w] => calls' = [calls EXCEPT ![s] = b]
  BY DEF Calls
<1> HIDE DEF a, b
<1>4. ASSUME NEW e, e.req = calls[s].req, calls' = [calls EXCEPT ![s] = e] PROVE SameRequest(s)
  BY <1>4, SetCall DEF SameRequest
<1> QED
  BY <1>1, <1>2, <1>3, <1>4

LEMMA ServeKeepsRequests ==
  ASSUME IInv, NEW s \in Slot, Serve(s) \/ Convert(s)
  PROVE  SameRequest(s)
<1>1. Calls /\ IsCall(calls[s])
  BY Facts
<1>2. ASSUME Succeed(s) PROVE SameRequest(s)
  BY <1>1, <1>2, FormsKeepRequests DEF Succeed
<1>3. CASE CreateChat(s) \/ Delete(s) \/ UpdateChatTitle(s) \/ DeleteRows(s) \/ Record(s) \/ Poll(s)
  <2>1. Succeed(s) \/ \E st : Return(s, st)
    BY <1>3 DEF CreateChat, Delete, UpdateChatTitle, DeleteRows, Record, Poll
  <2> QED
    BY <1>1, <1>2, <2>1, FormsKeepRequests
<1>4. CASE ListOfChats(s) \/ ListOfQAs(s) \/ Statistic(s) \/ Move(s) \/ ListUserChats(s) \/ Count(s) \/ FindFiles(s)
           \/ Convert(s)
  <2>1. \/ Succeed(s) \/ (\E st : Return(s, st)) \/ (\E got : SucceedWith(s, got))
        \/ \E step, got, todo : Continue(s, step, got, todo)
    BY <1>4 DEF ListOfChats, ListOfQAs, Statistic, Move, ListUserChats, Count, FindFiles, Convert
  <2> QED
    BY <1>1, <1>2, <2>1, FormsKeepRequests
<1>5. CASE ListQAsOfNext(s)
  <2>1. (\E got : SucceedWith(s, got)) \/ \E step, got, todo : Continue(s, step, got, todo)
    BY <1>5 DEF ListQAsOfNext
  <2> QED
    BY <1>1, <2>1, FormsKeepRequests
<1>6. CASE ListPage(s)
  <2>1. (\E got : SucceedWith(s, got)) \/ \E step, got, todo : Continue(s, step, got, todo)
    BY <1>6 DEF ListPage
  <2> QED
    BY <1>1, <2>1, FormsKeepRequests
<1>7. CASE History(s)
  <2>1. \/ \E step, got, todo : Continue(s, step, got, todo)
        \/ \E v, w : calls' = [calls EXCEPT ![s].step = v, ![s].failed = w]
    BY <1>7 DEF History
  <2> QED
    BY <1>1, <2>1, FormsKeepRequests, RawForms
<1>8. CASE ParseFile(s)
  <2>1. (\E st : Return(s, st)) \/ \E got : Parsed(s, got)
    BY <1>8 DEF ParseFile
  <2>2. ASSUME NEW got, Parsed(s, got)
        PROVE  \/ (\E st : Return(s, st)) \/ (\E g : SucceedWith(s, g))
               \/ \E step, g, todo : Continue(s, step, g, todo)
    BY <2>2 DEF Parsed
  <2> QED
    BY <1>1, <2>1, <2>2, FormsKeepRequests
<1>9. CASE DiskFails(s) \/ WriteUploadQA(s) \/ Fails(s)
  <2>1. Succeed(s) \/ \E st : EndsFailed(s, st)
    BY <1>9 DEF DiskFails, WriteUploadQA, Fails, EndsFailed
  <2> QED
    BY <1>1, <1>2, <2>1, FormsKeepRequests
<1>10. CASE WriteUploadFiles(s)
  <2>1. PICK c : c = calls[s]
    OBVIOUS
  <2>2. \/ calls' = [calls EXCEPT ![s].todo = Tail(@), ![s].step = IF Len(c.todo) = 1 THEN "qa" ELSE "rows"]
        \/ calls' = [calls EXCEPT ![s].step = "qa", ![s].failed = TRUE, ![s].reply = Append(@, 500)]
    BY <1>10, <2>1 DEF WriteUploadFiles
  <2>3. ASSUME NEW e, e.req = c.req, calls' = [calls EXCEPT ![s] = e] PROVE SameRequest(s)
    BY <1>1, <2>1, <2>3, SetCall DEF SameRequest
  <2>4. CASE calls' = [calls EXCEPT ![s].todo = Tail(@), ![s].step = IF Len(c.todo) = 1 THEN "qa" ELSE "rows"]
    <3>1. PICK step, rest, e : /\ step = (IF Len(c.todo) = 1 THEN "qa" ELSE "rows") /\ rest = Tail(c.todo)
                               /\ e = [c EXCEPT !.todo = rest, !.step = step]
      OBVIOUS
    <3>2. calls' = [calls EXCEPT ![s] = [c EXCEPT !.todo = rest, !.step = step]]
      BY <1>1, <2>1, <2>4, <3>1 DEF Calls
    <3>3. IsCall(c)
      BY <1>1, <2>1
    <3>4. e = GoneOn(c, step, c.reply, c.failed, c.got, rest)
      BY ONLY <3>1, <3>3, SetTodoStep
    <3>5. e.req = c.req
      BY ONLY <3>4, Fields DEF GoneOn
    <3>6. calls' = [calls EXCEPT ![s] = e]
      BY <3>1, <3>2, Zenon
    <3> QED
      BY <2>3, <3>5, <3>6
  <2>5. CASE calls' = [calls EXCEPT ![s].step = "qa", ![s].failed = TRUE, ![s].reply = Append(@, 500)]
    <3>1. PICK step, fl, reply, e : /\ step = "qa" /\ fl = TRUE /\ reply = Append(c.reply, 500)
                                    /\ e = [c EXCEPT !.step = step, !.failed = fl, !.reply = reply]
      OBVIOUS
    <3>2. calls' = [calls EXCEPT ![s] = [c EXCEPT !.step = step, !.failed = fl, !.reply = reply]]
      BY <1>1, <2>1, <2>5, <3>1 DEF Calls
    <3>3. IsCall(c)
      BY <1>1, <2>1
    <3>4. e = GoneOn(c, step, reply, fl, c.got, c.todo)
      <4>1. e = [c EXCEPT !.step = step, !.failed = fl, !.reply = reply]
        BY <3>1
      <4> QED
        BY ONLY <3>3, <4>1, SetStepFailedReply
    <3>5. e.req = c.req
      BY ONLY <3>4, Fields DEF GoneOn
    <3>6. calls' = [calls EXCEPT ![s] = e]
      BY <3>1, <3>2, Zenon
    <3> QED
      BY <2>3, <3>5, <3>6
  <2> QED
    BY <2>2, <2>4, <2>5
<1>11. CASE FindUpload(s)
  <2>1. (\E st : Return(s, st)) \/ \E step, got, todo : Continue(s, step, got, todo)
    BY <1>11 DEF FindUpload
  <2> QED
    BY <1>1, <2>1, FormsKeepRequests
<1>12. CASE Embed(s)
  <2>1. (\E st : Return(s, st)) \/ \E v, w : calls' = [calls EXCEPT ![s].step = v, ![s].reply = w]
    BY <1>12 DEF Embed
  <2> QED
    BY <1>1, <2>1, FormsKeepRequests, RawForms
<1> QED
  BY <1>3, <1>4, <1>5, <1>6, <1>7, <1>8, <1>9, <1>10, <1>11, <1>12 DEF Serve

\* What a step does to the QAs.
LEMMA ServeGoesOn ==
  ASSUME IInv, NEW s \in Slot, Serve(s) \/ Convert(s)
  PROVE  QAsGoOn(qas, qas')
<1>1. qas \in Seq(QARow)
  BY Facts DEF QAsOK
<1>2. ASSUME UNCHANGED qas PROVE QAsGoOn(qas, qas')
  BY <1>2, QAsStay
<1>3. CASE DeleteRows(s)
  BY <1>1, <1>3, DeleteRowsGoesOn
<1>4. CASE Record(s) \/ WriteUploadQA(s)
  <2>1. UNCHANGED qas \/ \E x : qas' = Append(qas, x)
    BY <1>4 DEF Record, WriteUploadQA, QuestionCreated, UploadQA
  <2> QED
    BY <1>1, <1>2, <2>1, QAsAppended
<1>5. CASE CreateChat(s) \/ Delete(s) \/ UpdateChatTitle(s) \/ Move(s)
  BY <1>2, <1>5 DEF CreateChat, Delete, UpdateChatTitle, Move
<1>6. CASE ListOfChats(s) \/ ListOfQAs(s) \/ Statistic(s) \/ ListUserChats(s) \/ ListQAsOfNext(s) \/ Count(s)
           \/ ListPage(s) \/ FindFiles(s) \/ Poll(s) \/ Convert(s)
  <2>1. Read(s)
    BY <1>6 DEF ListOfChats, ListOfQAs, Statistic, ListUserChats, ListQAsOfNext, Count, ListPage, FindFiles, Poll, Convert
  <2> QED
    BY <1>2, <2>1 DEF Read, tables
<1>7. CASE History(s) \/ DiskFails(s) \/ FindUpload(s) \/ Embed(s) \/ Fails(s)
  <2>1. UNCHANGED tables
    BY <1>7 DEF History, DiskFails, FindUpload, Embed, Fails
  <2> QED
    BY <1>2, <2>1 DEF tables
<1>8. CASE ParseFile(s) \/ WriteUploadFiles(s)
  <2>1. UNCHANGED qas
    BY <1>8 DEF ParseFile, WriteUploadFiles
  <2> QED
    BY <1>2, <2>1
<1> QED
  BY <1>3, <1>4, <1>5, <1>6, <1>7, <1>8 DEF Serve

\* A request of pages takes only the steps of the walk.
LEMMA WalkTakes ==
  ASSUME IInv, NEW s \in Slot, Serve(s) \/ Convert(s), calls[s].req.op = "ListQAs"
  PROVE  Count(s) \/ ListPage(s) \/ (Fails(s) /\ calls[s].step \notin {"idle", "done"})
<1>1. StepFits(calls[s].req.op, calls[s].step)
  BY Facts DEF CallOK
<1>2. calls[s].step \notin {"list", "qas", "move", "history", "record", "parse", "rows", "qa", "upload", "files",
                            "embed", "poll"}
  BY <1>1 DEF StepFits
<1>3. ~CreateChat(s) /\ ~ListOfChats(s) /\ ~ListOfQAs(s) /\ ~Delete(s) /\ ~UpdateChatTitle(s)
  BY DEF CreateChat, ListOfChats, ListOfQAs, Delete, UpdateChatTitle, At, Req
<1>4. ~Move(s) /\ ~DeleteRows(s) /\ ~Statistic(s) /\ ~History(s) /\ ~Record(s) /\ ~DiskFails(s)
  BY DEF Move, DeleteRows, Statistic, History, Record, DiskFails, At, Req
<1>5. ~ListUserChats(s) /\ ~ListQAsOfNext(s) /\ ~ParseFile(s) /\ ~WriteUploadFiles(s) /\ ~WriteUploadQA(s)
  BY <1>2 DEF ListUserChats, ListQAsOfNext, ParseFile, WriteUploadFiles, WriteUploadQA
<1>6. ~FindUpload(s) /\ ~FindFiles(s) /\ ~Embed(s) /\ ~Poll(s) /\ ~Convert(s)
  BY <1>2 DEF FindUpload, FindFiles, Embed, Poll, Convert
<1>7. calls[s].step \notin OwnErrors => calls[s].step \notin {"idle", "done"}
  BY DEF OwnErrors
<1> QED
  BY <1>3, <1>4, <1>5, <1>6, <1>7 DEF Serve

WalksOK == \A s \in Slot : WalkOK(calls[s], qas)

\* The call of the step.
LEMMA WalkStep ==
  ASSUME IInv, WalksOK, NEW s \in Slot, Count(s) \/ ListPage(s) \/ (Fails(s) /\ calls[s].step \notin {"idle", "done"}),
         calls[s].req.op = "ListQAs"
  PROVE  WalkOK(calls'[s], qas)
<1>1. Calls /\ IsCall(calls[s]) /\ CallOK(calls[s]) /\ qas \in Seq(QARow)
  BY Facts DEF QAsOK
<1>2. PICK c : c = calls[s]
  OBVIOUS
<1>3. c.req \in Request /\ c.req.op = "ListQAs" /\ WalkOK(c, qas)
  <2>1. calls[s].req \in Request \union {Idle.req} /\ Idle.req.op = "none"
    BY <1>1 DEF CallOK, Idle
  <2> QED
    BY <1>2, <2>1 DEF WalksOK
<1>4. ASSUME NEW step, NEW reply, NEW failed, NEW got, NEW todo,
             Becomes(s, GoneOn(c, step, reply, failed, got, todo))
      PROVE  /\ calls'[s].req = c.req /\ calls'[s].start = c.start /\ calls'[s].step = step
             /\ calls'[s].reply = reply /\ calls'[s].got = got /\ calls'[s].todo = todo
  <2>1. PICK d : d = GoneOn(c, step, reply, failed, got, todo)
    OBVIOUS
  <2>2. /\ d.req = c.req /\ d.start = c.start /\ d.step = step /\ d.reply = reply /\ d.got = got /\ d.todo = todo
    BY ONLY <2>1, Fields DEF GoneOn
  <2>3. calls' = [calls EXCEPT ![s] = d]
    BY <1>4, <2>1 DEF Becomes
  <2>4. calls'[s] = d
    BY <1>1, <2>3, SetCall
  <2> QED
    BY <2>2, <2>4
<1>5. CASE Count(s)
  <2>1. PICK n, todo, step : n = CountQAs(c.req.from, c.req.to) /\ todo = <<n>> /\ step = "page"
    OBVIOUS
  <2>2. c.step = "count" /\ Continue(s, step, c.got, todo)
    BY <1>2, <1>5, <2>1 DEF Count, At, Req
  <2>3. Becomes(s, GoneOn(c, step, c.reply, c.failed, c.got, todo))
    BY <1>1, <1>2, <2>2, ContinueIs
  <2>4. /\ calls'[s].req = c.req /\ calls'[s].start = c.start /\ calls'[s].step = step
        /\ calls'[s].got = c.got /\ calls'[s].todo = todo
    BY <1>4, <2>3
  <2> QED
    BY <1>1, <1>3, <2>1, <2>2, <2>4, CountRead
<1>6. CASE ListPage(s)
  <2>1. PICK off : off = c.req.limit * Len(c.got)
    OBVIOUS
  <2>2. Offset(s) = off /\ c.step = "page"
    BY <1>2, <1>6, <2>1 DEF ListPage, At, Offset, Req
  <2>3. PICK page \in Page(c.req.from, c.req.to, off, c.req.limit) :
          LET got == Append(c.got, [total |-> Head(c.todo), offset |-> off, qas |-> page])
          IN  IF Len(page) < c.req.limit THEN SucceedWith(s, got) ELSE Continue(s, "count", got, <<>>)
    BY <1>2, <1>6, <2>2 DEF ListPage, Req
  <2>4. PICK p, got : p = [total |-> Head(c.todo), offset |-> off, qas |-> page] /\ got = Append(c.got, p)
    OBVIOUS
  <2>5. /\ calls'[s].req = c.req /\ calls'[s].start = c.start /\ calls'[s].got = got
        /\ IF Len(page) < c.req.limit THEN calls'[s].step = "done" ELSE calls'[s].step = "count"
    <3>1. CASE Len(page) < c.req.limit
      <4>1. SucceedWith(s, got)
        BY <2>3, <2>4, <3>1
      <4>2. Becomes(s, GoneOn(c, "done", c.reply \o <<Status(c.req.op)>>, c.failed, got, c.todo))
        BY <1>1, <1>2, <4>1, SucceedWithIs
      <4> QED
        BY <1>4, <3>1, <4>2
    <3>2. CASE ~(Len(page) < c.req.limit)
      <4>1. Continue(s, "count", got, <<>>)
        BY <2>3, <2>4, <3>2
      <4>2. Becomes(s, GoneOn(c, "count", c.reply, c.failed, got, <<>>))
        BY <1>1, <1>2, <4>1, ContinueIs
      <4> QED
        BY <1>4, <3>2, <4>2
    <3> QED
      BY <3>1, <3>2
  <2> QED
    BY <1>1, <1>3, <2>1, <2>2, <2>4, <2>5, PageRead
<1>7. CASE Fails(s) /\ calls[s].step \notin {"idle", "done"}
  <2>1. PICK st : st = <<500>>
    OBVIOUS
  <2>2. EndsFailed(s, st)
    BY <1>2, <1>3, <1>7, <2>1 DEF Fails, EndsFailed, WithError, GoesOn, Req
  <2>3. PICK fl, reply : fl = TRUE /\ reply = c.reply \o st
    OBVIOUS
  <2>4. Becomes(s, GoneOn(c, "done", reply, fl, c.got, c.todo))
    BY <1>1, <1>2, <2>2, <2>3, FailsIs
  <2>5. /\ calls'[s].req = c.req /\ calls'[s].start = c.start /\ calls'[s].got = c.got
        /\ calls'[s].step = "done" /\ calls'[s].reply = reply
    BY <1>4, <2>4
  <2>6. c.reply \in Seq(Nat) /\ (c.reply # <<>> => Head(c.reply) \notin 200 .. 299)
    BY <1>1, <1>2, <1>7 DEF CallOK
  <2>7. st \in Seq(Nat) /\ st # <<>> /\ Head(st) \notin 200 .. 299
    BY <2>1
  <2>8. Head(reply) \notin 200 .. 299
    BY <2>3, <2>6, <2>7, HeadOf
  <2> QED
    BY <1>3, <2>5, <2>8, WalkEnds DEF IsSuccess
<1> QED
  BY <1>5, <1>6, <1>7

\* A call that comes.
LEMMA WalkComes ==
  ASSUME IInv, IInv', NEW s \in Slot, NEW r \in Requests, Begin(s, r)
  PROVE  WalkOK(calls'[s], qas) /\ \A t \in Slot \ {s} : calls'[t] = calls[t]
<1>1. Calls /\ qas \in Seq(QARow)
  BY Facts DEF QAsOK
<1>2. PICK req, step, start, reply, todo :
        /\ req = Decoded(r) /\ step = FirstStep(r) /\ start = (IF r.op \in Listings THEN Start ELSE None)
        /\ reply = (IF Noticed(r) THEN <<400>> ELSE <<>>)
        /\ todo = (IF r.op \in {"Upload", "FileUpload"} THEN r.files ELSE <<>>)
  OBVIOUS
<1>3. PICK call : call = Arrived(req, step, start, reply, todo)
  OBVIOUS
<1>4. PICK d : d = IF Rejected(r) THEN Ended(call, <<Rejection(r)>>) ELSE call
  OBVIOUS
<1>5. calls'[s] = d /\ \A t \in Slot \ {s} : calls'[t] = calls[t]
  <2>1. calls' = [calls EXCEPT ![s] = d]
    BY <1>2, <1>3, <1>4 DEF Begin, Arrived
  <2> QED
    BY <1>1, <2>1, SetCall
<1>6. PICK fl, none : fl = FALSE /\ none = <<>>
  OBVIOUS
<1>7. call = CallIs(req, step, reply, fl, none, todo, start)
  BY <1>3, <1>6, ArrivedIs
<1>8. /\ call.req = req /\ call.step = step /\ call.reply = reply /\ call.got = none /\ call.start = start
      /\ IsCall(call)
  BY ONLY <1>7, Fields DEF IsCall
<1>9. r \in Request /\ req \in Request /\ req.op = r.op
  <2>1. r \in Request
    BY ApiAssumption
  <2> QED
    BY <1>2, <2>1, DecodedType
<1>10. CASE r.op # "ListQAs"
  <2>1. d.req = req
    <3>1. PICK st : st = <<Rejection(r)>>
      OBVIOUS
    <3>2. PICK e : e = GoneOn(call, "done", call.reply \o st, call.failed, call.got, call.todo)
      OBVIOUS
    <3>3. e.req = call.req
      BY ONLY <3>2, Fields DEF GoneOn
    <3>4. Ended(call, st) = e
      BY <1>8, <3>2, EndedIs
    <3> QED
      BY <1>4, <1>8, <3>1, <3>3, <3>4
  <2> QED
    BY <1>5, <1>9, <1>10, <2>1 DEF WalkOK
<1>11. CASE r.op = "ListQAs"
  <2>1. step = "count" /\ start = Start
    BY <1>2, <1>11 DEF FirstStep, Listings
  <2>2. CASE ~Rejected(r)
    <3>1. d = call
      BY <1>4, <2>2
    <3>2. ~IsSuccess(d)
      BY <1>8, <2>1, <3>1 DEF IsSuccess
    <3> QED
      BY <1>1, <1>5, <1>6, <1>8, <1>9, <2>1, <3>1, <3>2, WalkBegins
  <2>3. CASE Rejected(r)
    <3>1. PICK st, done : st = <<Rejection(r)>> /\ done = "done"
      OBVIOUS
    <3>2. PICK e, both : both = call.reply \o st
                         /\ e = GoneOn(call, done, both, call.failed, call.got, call.todo)
      OBVIOUS
    <3>3. d = e
      BY <1>4, <1>8, <2>3, <3>1, <3>2, EndedIs
    <3>4. e.req = call.req /\ e.step = done /\ e.reply = both /\ e.got = call.got /\ e.start = call.start
      <4>1. e = GoneOn(call, done, both, call.failed, call.got, call.todo)
        BY <3>2
      <4> QED
        BY ONLY <4>1, Fields DEF GoneOn
    <3>5. call.reply = <<>>
      BY <1>2, <1>8, <2>3 DEF Noticed
    <3>6. st \in Seq(Nat) /\ Head(st) \notin 200 .. 299
      <4>1. CASE Rejection(r) = 422
        BY <3>1, <4>1
      <4>2. CASE Rejection(r) = 400
        BY <3>1, <4>2
      <4> QED
        BY <1>9, <4>1, <4>2, RejectionIs
    <3>7. both = st
      BY <3>2, <3>5, <3>6
    <3>8. ~IsSuccess(d)
      BY <3>3, <3>4, <3>6, <3>7 DEF IsSuccess
    <3>9. d.req \in Request /\ d.start = Start /\ d.got = <<>> /\ d.step \in {"count", "done"}
      BY <1>6, <1>8, <1>9, <2>1, <3>1, <3>3, <3>4
    <3> QED
      BY <1>1, <1>5, <3>8, <3>9, WalkBegins
  <2> QED
    BY <2>2, <2>3
<1> QED
  BY <1>5, <1>10, <1>11

LEMMA WalksGoOn == IInv /\ IInv' /\ WalksOK /\ [Next]_vars => WalksOK'
<1> SUFFICES ASSUME IInv, IInv', WalksOK, [Next]_vars PROVE WalksOK'
  OBVIOUS
<1>1. qas \in Seq(QARow) /\ qas' \in Seq(QARow)
  <2>1. Sound(Tables) /\ Sound(Tables)'
    BY DEF IInv
  <2> QED
    BY <2>1 DEF Sound, Tables
<1>2. ASSUME NEW c, WalkOK(c, qas), c.req \in Request \union {Idle.req}, QAsGoOn(qas, qas')
      PROVE  WalkOK(c, qas')
  <2>1. CASE c.req \in Request
    BY <1>1, <1>2, <2>1, WalkStays
  <2>2. CASE c.req = Idle.req
    BY <2>2 DEF WalkOK, Idle
  <2> QED
    BY <1>2, <2>1, <2>2
<1>3. \A s \in Slot : calls[s].req \in Request \union {Idle.req} /\ calls'[s].req \in Request \union {Idle.req}
  BY DEF IInv, OneOK, CallOK
<1>4. ASSUME QAsGoOn(qas, qas'), \A s \in Slot : WalkOK(calls'[s], qas) PROVE WalksOK'
  BY <1>2, <1>3, <1>4 DEF WalksOK
<1>5. ASSUME UNCHANGED calls, QAsGoOn(qas, qas') PROVE WalksOK'
  BY <1>4, <1>5 DEF WalksOK
<1>6. CASE UNCHANGED vars
  <2>1. UNCHANGED <<calls, qas>>
    BY <1>6 DEF vars, tables
  <2> QED
    BY <1>5, <2>1, QAsStay
<1>7. CASE \E s \in Slot, r \in Requests : Begin(s, r)
  <2>1. PICK s \in Slot, r \in Requests : Begin(s, r)
    BY <1>7
  <2>2. UNCHANGED qas
    BY <2>1 DEF Begin, tables
  <2>3. WalkOK(calls'[s], qas) /\ \A t \in Slot \ {s} : calls'[t] = calls[t]
    BY <2>1, WalkComes
  <2>4. \A t \in Slot : WalkOK(calls'[t], qas)
    BY <2>3 DEF WalksOK
  <2> QED
    BY <1>4, <2>2, <2>4, QAsStay
<1>8. CASE \E s \in Slot : Serve(s) \/ Convert(s)
  <2>1. PICK s \in Slot : Serve(s) \/ Convert(s)
    BY <1>8
  <2>2. SameRequest(s) /\ QAsGoOn(qas, qas')
    BY <2>1, ServeKeepsRequests, ServeGoesOn
  <2>3. WalkOK(calls'[s], qas)
    <3>1. CASE calls[s].req.op = "ListQAs"
      BY <2>1, <3>1, WalkTakes, WalkStep
    <3>2. CASE calls[s].req.op # "ListQAs"
      BY <2>2, <3>2 DEF SameRequest, WalkOK
    <3> QED
      BY <3>1, <3>2
  <2>4. \A t \in Slot : WalkOK(calls'[t], qas)
    BY <2>2, <2>3 DEF WalksOK, SameRequest
  <2> QED
    BY <1>4, <2>2, <2>4
<1>9. CASE \E q \in DOMAIN qas : Consume(q)
  <2>1. UNCHANGED calls /\ QAsGoOn(qas, qas')
    BY <1>1, <1>9, ConsumeGoesOn DEF Consume
  <2> QED
    BY <1>5, <2>1
<1>10. CASE Tick
  <2>1. UNCHANGED <<calls, qas>>
    BY <1>10 DEF Tick
  <2> QED
    BY <1>5, <2>1, QAsStay
<1> QED
  BY <1>6, <1>7, <1>8, <1>9, <1>10 DEF Next

LEMMA InitWalks == Init => WalksOK
<1> SUFFICES ASSUME Init, NEW s \in Slot PROVE WalkOK(calls[s], qas)
  BY DEF WalksOK
<1>1. calls[s] = Idle
  BY DEF Init
<1> QED
  BY <1>1 DEF WalkOK, Idle

LEMMA WalksAreRegular ==
  ASSUME IInv, WalksOK
  PROVE  PagesAreRegular
<1>1. ASSUME NEW s \in Slot, NEW q PROVE Hit(Req(s), qas[q]) <=> From(Req(s).from, q) /\ To(Req(s).to, q)
  BY DEF Hit, From, To
<1>2. WalkMissesNothing
  <2>1. SUFFICES ASSUME NEW s \in Slot, Done(s, "ListQAs"),
                        {q \in DOMAIN qas : qas[q].row = "deleted"} = calls[s].start.gone.qas,
                        \A p, q \in Window(s) : qas[p].at = qas[q].at => p = q,
                        NEW q \in calls[s].start.rows \intersect Window(s)
                 PROVE  \E i \in DOMAIN calls[s].got : q \in ToSet(calls[s].got[i].qas)
    BY DEF WalkMissesNothing
  <2>2. MetOK(calls[s], qas) /\ IsSuccess(calls[s])
    BY <2>1 DEF WalksOK, WalkOK, Done, Accepted, IsSuccess, Req
  <2>3. Undisturbed(calls[s], qas)
    BY <1>1, <2>1 DEF Undisturbed, Window, Req
  <2>4. Hit(calls[s].req, qas[q])
    BY <1>1, <2>1 DEF Window, Req
  <2>5. Met(calls[s], q)
    BY <2>1, <2>2, <2>3, <2>4 DEF MetOK
  <2> QED
    BY <2>5 DEF Met
<1>3. PageWithinTotal
  <2>1. SUFFICES ASSUME NEW s \in Slot, Req(s).op = "ListQAs", Req(s).to # None,
                        \A q \in DOMAIN qas : qas[q].row = "asked"
                           \/ q \in calls[s].start.rows \union calls[s].start.gone.qas,
                        NEW i \in DOMAIN calls[s].got, calls[s].got[i].qas # <<>>
                 PROVE  calls[s].got[i].offset + Len(calls[s].got[i].qas) <= calls[s].got[i].total
    BY DEF PageWithinTotal
  <2>2. WithinOK(calls[s], qas) /\ NoNews(calls[s], qas)
    BY <2>1 DEF WalksOK, WalkOK, NoNews, Req
  <2> QED
    BY <2>1, <2>2 DEF WithinOK, Req
<1> QED
  BY <1>2, <1>3 DEF PagesAreRegular

\* A walk through the pages of the QAs of some days meets all that were there when it began,
\* and no page reaches past its total, however many rows the consumer inserts meanwhile: a new
\* row is before those that are left or behind them, and only moves them back (backend/service/qa.go).
THEOREM PagesRegular == Spec => []PagesAreRegular
<1>1. Init => IInv /\ WalksOK
  BY InitHolds, InitWalks
<1>2. IInv /\ WalksOK /\ [Next]_vars => (IInv /\ WalksOK)'
  BY NextKeeps, WalksGoOn
<1>3. IInv /\ WalksOK => PagesAreRegular
  BY WalksAreRegular
<1> QED
  BY <1>1, <1>2, <1>3, PTL DEF Spec
---------------------------------------------------------------------------
(* What a request reads by several statements.                             *)

Regular == Listings \ {"ListQAs"}

\* The rows of the chat that were there when the call came, and are.
Kept(c, qs, chat) ==
  {q \in c.start.rows : qs[q].row = "there" /\ qs[q].chat = chat /\ (c.req.op = "ListChatQAs" =>
     qs[q].session = c.req.session)}

InOrder(c, qs, list) ==
  \A i, j \in DOMAIN list :
    i < j /\ (qs[list[i]].upload = None <=> qs[list[j]].upload = None) =>
      IF c.req.op = "ListChatQAs" THEN qs[list[i]].happened <= qs[list[j]].happened
      ELSE qs[list[i]].happened >= qs[list[j]].happened

\* A list of the QAs of a chat has those that are there all the time.
ListOK(c, qs, chat, list) ==
  /\ ToSet(list) \subseteq DOMAIN qs /\ ToSet(list) \intersect c.start.gone.qas = {}
  /\ Kept(c, qs, chat) \subseteq ToSet(list) /\ InOrder(c, qs, list)

ListGot == [chat : Nat, qas : Seq(Nat)]

ListsOK(c, qs) ==
  c.req.op \in Regular \ {"Ask"} =>
    /\ c.got \in Seq(ListGot)
    /\ \A i \in DOMAIN c.got : c.req.op # "ListChats" => ListOK(c, qs, c.got[i].chat, c.got[i].qas)

\* What was there and gone when the call came was, and is gone.
BeginOK(c, cs, qs) ==
  c.req.op \in Regular =>
    /\ StartOK(c, qs)
    /\ \A q \in c.start.answered : q \in c.start.rows /\ qs[q].answered
    /\ c.start.chats \subseteq DOMAIN cs
    /\ \A x \in c.start.gone.chats : x \in DOMAIN cs /\ cs[x].deleted
    /\ c.step \in {"list", "move", "statement", "history"} => c.got = <<>>
    /\ c.step = "history" => c.req.mode # "single"

\* The chats of the reply: those whose QAs were read, and those that are left.
Shown(c) == {c.got[i].chat : i \in DOMAIN c.got} \union (IF c.step = "qas" THEN ToSet(c.todo) ELSE {})

Belongs(c, cs, x) == IF c.req.op = "ListChats" THEN cs[x].session = c.req.session ELSE cs[x].user = c.req.user

\* The chats that were the call's from the start, or became, but for the chats that others move.
ShownOK(c, cs, moved) ==
  /\ c.step = "qas" => c.todo \in Seq(Nat) /\ c.todo # <<>>
  /\ c.req.op = "Login" /\ c.step = "list" =>
       c.req.chat \in DOMAIN cs /\ (Belongs(c, cs, c.req.chat) \/ c.req.chat \in moved)
  /\ c.req.op \in {"GetUserChats", "Login", "ListChats"} /\ (c.step = "qas" \/ IsSuccess(c)) =>
       /\ Shown(c) \subseteq DOMAIN cs /\ Shown(c) \intersect c.start.gone.chats = {}
       /\ \A x \in Shown(c) : Belongs(c, cs, x) \/ x \in moved
       /\ \A x \in (IF c.req.op = "Login" THEN {c.req.chat} ELSE c.start.chats) :
            x \in DOMAIN cs /\ ~cs[x].deleted /\ x \notin moved /\ Belongs(c, cs, x) => x \in Shown(c)
       /\ c.req.op = "Login" =>
            c.req.chat \in DOMAIN cs /\ (Belongs(c, cs, c.req.chat) \/ c.req.chat \in moved)

Messages == [qa : Nat, part : {"question", "references", "answer"}]

Told(c) == {c.got[i].qa : i \in DOMAIN c.got}

\* The messages of a QA stand together, the question first for v1 and last for v2.
TogetherOK(c) ==
  \A i, j \in DOMAIN c.got : i < j /\ c.got[i].qa = c.got[j].qa =>
    /\ \A k \in i .. j : c.got[k].qa = c.got[i].qa
    /\ IF c.req.mode = "history" THEN c.got[i].part # "answer" /\ c.got[j].part # "question"
       ELSE c.got[i].part = "answer" /\ c.got[j].part = "question"

\* The QAs that are told, the earliest first for v1 and last for v2.
ToldOK(c, qs) ==
  /\ \A i, j \in DOMAIN c.got : i < j /\ c.got[i].qa # c.got[j].qa =>
       IF c.req.mode = "history" THEN qs[c.got[i].qa].happened <= qs[c.got[j].qa].happened
       ELSE qs[c.got[j].qa].happened <= qs[c.got[i].qa].happened
  /\ \A q \in Told(c) :
       /\ q \in DOMAIN qs /\ qs[q].chat = c.req.chat /\ qs[q].answered
       /\ \A part \in {"question", "answer"} : \E i \in DOMAIN c.got : c.got[i] = Message(q, part)

Known(c, qs) == {q \in c.start.answered : qs[q].row = "there" /\ qs[q].chat = c.req.chat}

\* None is missing that a history shows.
WholeOK(c, qs) ==
  c.req.mode # "single" /\ ~c.failed /\ (c.step = "record" \/ IsSuccess(c)) =>
    IF c.req.mode = "history" THEN {q \in Known(c, qs) : qs[q].session = c.req.session} \subseteq Told(c)
    ELSE Cardinality(Told(c)) >= Min({HistoryLimit, Cardinality(Known(c, qs))})

TaleOK(c, qs) ==
  c.req.op = "Ask" => c.got \in Seq(Messages) /\ TogetherOK(c) /\ ToldOK(c, qs) /\ WholeOK(c, qs)

ReadOK(c, cs, qs, moved) ==
  BeginOK(c, cs, qs) /\ ListsOK(c, qs) /\ ShownOK(c, cs, moved) /\ TaleOK(c, qs)

\* The chats that other calls give to somebody.
Moved(s) == {calls[t].req.chat : t \in {u \in Slot \ {s} : calls[u].req.op = "Login"}}

ReadsOK == \A s \in Slot : ReadOK(calls[s], chats, qas, Moved(s))


---------------------------------------------------------------------------
(* What is listed.                                                         *)

\* An order has every element once.
LEMMA OrderHas ==
  ASSUME NEW S, IsFiniteSet(S), NEW at \in [S -> Int], NEW list \in Orders(S, at)
  PROVE  /\ list \in Seq(S) /\ Len(list) = Cardinality(S) /\ ToSet(list) = S
         /\ \A i, j \in DOMAIN list : i < j => list[i] # list[j] /\ at[list[i]] <= at[list[j]]
<1>1. list \in Sorted(S, at)
  BY OrdersAre
<1>2. Cardinality(S) \in Nat
  BY FS_CardinalityType
<1>3. list \in Seq(S) /\ Len(list) = Cardinality(S)
  BY <1>1, <1>2, SequenceIs DEF Sorted
<1>4. ToSet(list) = S
  BY <1>1, <1>3 DEF Sorted, ToSet
<1> QED
  BY <1>1, <1>3, <1>4 DEF Sorted

LEMMA SomeOf ==
  ASSUME NEW T, NEW rows \in Seq(T), NEW S, S \subseteq DOMAIN rows
  PROVE  IsFiniteSet(S)
<1>1. PICK n \in Nat : DOMAIN rows = 1 .. n
  OBVIOUS
<1>2. IsFiniteSet(1 .. n)
  BY FS_Interval
<1> QED
  BY <1>1, <1>2, FS_Subset

LEMMA SeqOfMore ==
  ASSUME NEW S, NEW T, S \subseteq T, NEW list \in Seq(S)
  PROVE  list \in Seq(T)
<1>1. Len(list) \in Nat /\ list \in [1 .. Len(list) -> S]
  OBVIOUS
<1>2. list \in [1 .. Len(list) -> T]
  BY <1>1
<1> QED
  BY <1>1, <1>2, SequenceIs

LEMMA RowsFinite ==
  ASSUME NEW qs \in Seq(QARow), NEW S, S \subseteq DOMAIN qs
  PROVE  IsFiniteSet(S) /\ [q \in S |-> qs[q].at] \in [S -> Int] /\ [q \in S |-> -qs[q].at] \in [S -> Int]
<1>1. IsFiniteSet(S)
  BY SomeOf
<1>2. \A q \in S : qs[q].at \in Nat
  BY RowIs
<1> QED
  BY <1>1, <1>2

LEMMA DescendingHas ==
  ASSUME qas \in Seq(QARow), NEW S, S \subseteq DOMAIN qas, NEW list \in Descending(S)
  PROVE  /\ list \in Seq(S) /\ Len(list) = Cardinality(S) /\ ToSet(list) = S
         /\ \A i, j \in DOMAIN list : i < j => list[i] # list[j] /\ qas[list[i]].at >= qas[list[j]].at
<1> DEFINE at == [q \in S |-> -qas[q].at]
<1>1. IsFiniteSet(S) /\ at \in [S -> Int] /\ list \in Orders(S, at)
  BY RowsFinite DEF Descending
<1>2. /\ list \in Seq(S) /\ Len(list) = Cardinality(S) /\ ToSet(list) = S
      /\ \A i, j \in DOMAIN list : i < j => list[i] # list[j] /\ at[list[i]] <= at[list[j]]
  <2> HIDE DEF at
  <2> QED
    BY <1>1, OrderHas
<1>3. \A i \in DOMAIN list : list[i] \in S /\ at[list[i]] = -qas[list[i]].at /\ qas[list[i]].at \in Nat
  BY <1>2, RowIs
<1> HIDE DEF at
<1> QED
  BY <1>2, <1>3

LEMMA AscendingHas ==
  ASSUME qas \in Seq(QARow), NEW S, S \subseteq DOMAIN qas, NEW list \in Ascending(S)
  PROVE  /\ list \in Seq(S) /\ Len(list) = Cardinality(S) /\ ToSet(list) = S
         /\ \A i, j \in DOMAIN list : i < j => list[i] # list[j] /\ qas[list[i]].at <= qas[list[j]].at
<1> DEFINE at == [q \in S |-> qas[q].at]
<1>1. IsFiniteSet(S) /\ at \in [S -> Int] /\ list \in Orders(S, at)
  BY RowsFinite DEF Ascending
<1>2. /\ list \in Seq(S) /\ Len(list) = Cardinality(S) /\ ToSet(list) = S
      /\ \A i, j \in DOMAIN list : i < j => list[i] # list[j] /\ at[list[i]] <= at[list[j]]
  <2> HIDE DEF at
  <2> QED
    BY <1>1, OrderHas
<1>3. \A i \in DOMAIN list : list[i] \in S /\ at[list[i]] = qas[list[i]].at
  BY <1>2
<1> HIDE DEF at
<1> QED
  BY <1>2, <1>3

LEMMA ChatsDescendingHas ==
  ASSUME chats \in Seq(ChatRow), NEW S, S \subseteq DOMAIN chats, NEW list \in ChatsDescending(S)
  PROVE  list \in Seq(S) /\ ToSet(list) = S
<1> DEFINE at == [c \in S |-> -chats[c].at]
<1>1. IsFiniteSet(S)
  BY SomeOf
<1>2. \A c \in S : chats[c].at \in Nat
  <2>1. \A c \in S : chats[c] \in ChatRow
    OBVIOUS
  <2> QED
    BY <2>1 DEF ChatRow
<1>3. at \in [S -> Int] /\ list \in Orders(S, at)
  BY <1>2 DEF ChatsDescending
<1> HIDE DEF at
<1> QED
  BY <1>1, <1>3, OrderHas

\* Of rows whose times were written by the same process, those of a later time happened later.
LEMMA TimesAre ==
  ASSUME NEW n, NEW qs, NEW fs, NEW us, QAsOK(n, qs, fs, us), NEW p \in DOMAIN qs, NEW q \in DOMAIN qs,
         qs[p].upload = None <=> qs[q].upload = None
  PROVE  qs[p].at <= qs[q].at <=> qs[p].happened <= qs[q].happened
<1>1. qs[p] \in QARow /\ qs[q] \in QARow
  BY DEF QAsOK
<1>2. qs[p].happened \in Nat /\ qs[q].happened \in Nat
  BY <1>1 DEF QARow
<1>3. CASE qs[p].upload = None
  BY <1>2, <1>3 DEF QAsOK, Zone
<1>4. CASE qs[p].upload # None
  BY <1>2, <1>4 DEF QAsOK
<1> QED
  BY <1>3, <1>4

\* A list of QAs that is read now.
LEMMA ListRead ==
  ASSUME IInv, NEW c, BeginOK(c, chats, qas), c.req.op \in Regular \ {"Ask"},
         NEW chat \in Nat, NEW list,
         IF c.req.op = "ListChatQAs" THEN list \in ListChatQAs(c.req.session, chat) ELSE list \in ListChatIdQAs(chat)
  PROVE  ListOK(c, qas, chat, list) /\ list \in Seq(Nat)
<1> DEFINE S == IF c.req.op = "ListChatQAs" THEN {q \in Rows : qas[q].session = c.req.session /\ qas[q].chat = chat}
                ELSE {q \in Rows : qas[q].chat = chat}
<1>1. QAsOK(clock, qas, files, uploads) /\ qas \in Seq(QARow)
  BY Facts DEF QAsOK
<1>2. S \subseteq DOMAIN qas /\ \A q \in S : qas[q].row = "there" /\ qas[q].chat = chat
  BY DEF Rows, There
<1>3. IF c.req.op = "ListChatQAs" THEN list \in Ascending(S) ELSE list \in Descending(S)
  BY DEF ListChatQAs, ListChatIdQAs
<1>4. Kept(c, qas, chat) \subseteq S
  BY DEF Kept, Rows, There, BeginOK, StartOK
<1> HIDE DEF S
<1>5. /\ list \in Seq(S) /\ ToSet(list) = S
      /\ \A i, j \in DOMAIN list : i < j =>
           IF c.req.op = "ListChatQAs" THEN qas[list[i]].at <= qas[list[j]].at ELSE qas[list[j]].at <= qas[list[i]].at
  <2>1. CASE c.req.op = "ListChatQAs"
    BY <1>1, <1>2, <1>3, <2>1, AscendingHas
  <2>2. CASE c.req.op # "ListChatQAs"
    <3>1. /\ list \in Seq(S) /\ ToSet(list) = S
          /\ \A i, j \in DOMAIN list : i < j => qas[list[i]].at >= qas[list[j]].at
      BY <1>1, <1>2, <1>3, <2>2, DescendingHas
    <3>2. \A i \in DOMAIN list : qas[list[i]].at \in Nat
      BY <1>1, <1>2, <3>1, RowIs
    <3> QED
      BY <2>2, <3>1, <3>2
  <2> QED
    BY <2>1, <2>2
<1>6. InOrder(c, qas, list)
  <2>1. SUFFICES ASSUME NEW i \in DOMAIN list, NEW j \in DOMAIN list, i < j,
                        qas[list[i]].upload = None <=> qas[list[j]].upload = None
                 PROVE  IF c.req.op = "ListChatQAs" THEN qas[list[i]].happened <= qas[list[j]].happened
                        ELSE qas[list[i]].happened >= qas[list[j]].happened
    BY DEF InOrder
  <2>2. PICK p, q : p = list[i] /\ q = list[j]
    OBVIOUS
  <2>3. p \in DOMAIN qas /\ q \in DOMAIN qas
    BY <1>2, <1>5, <2>2
  <2>4. IF c.req.op = "ListChatQAs" THEN qas[p].at <= qas[q].at ELSE qas[q].at <= qas[p].at
    BY <1>5, <2>1, <2>2
  <2>5. qas[p].upload = None <=> qas[q].upload = None
    BY <2>1, <2>2
  <2>6. /\ qas[p].at <= qas[q].at <=> qas[p].happened <= qas[q].happened
        /\ qas[q].at <= qas[p].at <=> qas[q].happened <= qas[p].happened
    BY <1>1, <2>3, <2>5, TimesAre
  <2>7. qas[p].happened \in Nat /\ qas[q].happened \in Nat
    <3>1. qas[p] \in QARow /\ qas[q] \in QARow
      BY <1>1, <2>3
    <3> QED
      BY <3>1 DEF QARow
  <2> QED
    BY <2>2, <2>4, <2>6, <2>7
<1>7. S \intersect c.start.gone.qas = {}
  BY <1>2 DEF BeginOK, StartOK
<1>8. list \in Seq(Nat)
  <2>1. S \subseteq Nat
    BY <1>1, <1>2
  <2> QED
    BY <1>5, <2>1, SeqOfMore
<1> QED
  BY <1>2, <1>4, <1>5, <1>6, <1>7, <1>8 DEF ListOK


---------------------------------------------------------------------------
(* A history, put together from the messages of each QA.                   *)

\* The order of the numbers.
LessThan == {s \in Nat \X Nat : s[1] < s[2]}

\* The order of the natural numbers is well founded.
LEMMA LessThanWellFounded == IsWellFoundedOn(LessThan, Nat)
  BY NatLessThanWellFounded DEF OpToRel, LessThan

\* A set of numbers that has 0, and with a number the next one, has them all.
LEMMA AllNumbers ==
  ASSUME NEW P, 0 \in P, \A n \in Nat : n \in P => n + 1 \in P
  PROVE  Nat \subseteq P
<1> DEFINE Bad == {n \in Nat : n \notin P}
<1>1. SUFFICES ASSUME Bad # {} PROVE FALSE
  OBVIOUS
<1>2. PICK n \in Bad : \A m \in Bad : ~ (<<m, n>> \in LessThan)
  BY <1>1, LessThanWellFounded, WFMin
<1>3. n \in Nat /\ n # 0
  BY <1>2
<1>4. n - 1 \in Nat /\ <<n - 1, n>> \in LessThan
  BY <1>3 DEF LessThan
<1>5. n - 1 \in P
  BY <1>2, <1>4
<1>6. (n - 1) + 1 \in P
  BY <1>4, <1>5
<1> QED
  BY <1>2, <1>3, <1>6

\* f[i] is the concatenation of the first i sequences.
FlattenTo(f, seqs, k) ==
  \A i \in 1 .. k : f[i] = IF i = 1 THEN seqs[i] ELSE f[i - 1] \o seqs[i]

\* The concatenation of sequences is a recursion that has a solution.
LEMMA FlattenExists ==
  ASSUME NEW seqs, NEW n \in Nat
  PROVE  \E f : FlattenTo(f, seqs, n)
<1> DEFINE P == {k \in Nat : \E f : FlattenTo(f, seqs, k)}
<1>1. 0 \in P
  BY DEF FlattenTo
<1>2. ASSUME NEW k \in Nat, k \in P PROVE k + 1 \in P
  <2>1. PICK f : FlattenTo(f, seqs, k)
    BY <1>2
  <2> DEFINE g == [i \in 1 .. k + 1 |-> IF i \in 1 .. k THEN f[i]
                                        ELSE IF i = 1 THEN seqs[i] ELSE f[i - 1] \o seqs[i]]
  <2>2. ASSUME NEW i \in 1 .. k + 1
        PROVE  g[i] = IF i = 1 THEN seqs[i] ELSE g[i - 1] \o seqs[i]
    <3>1. i # 1 => i - 1 \in 1 .. k /\ i - 1 \in 1 .. k + 1
      OBVIOUS
    <3>2. i # 1 => g[i - 1] = f[i - 1]
      BY <3>1
    <3>3. i \in 1 .. k => g[i] = f[i] /\ f[i] = IF i = 1 THEN seqs[i] ELSE f[i - 1] \o seqs[i]
      BY <2>1 DEF FlattenTo
    <3>4. i \notin 1 .. k => g[i] = IF i = 1 THEN seqs[i] ELSE f[i - 1] \o seqs[i]
      OBVIOUS
    <3> HIDE DEF g
    <3> QED
      BY <3>2, <3>3, <3>4
  <2> HIDE DEF g
  <2>3. FlattenTo(g, seqs, k + 1)
    BY <2>2 DEF FlattenTo
  <2> QED
    BY <2>3
<1> HIDE DEF P
<1>3. n \in P
  BY <1>1, <1>2, AllNumbers
<1> QED
  BY <1>3 DEF P

\* A sequence of sequences is flattened by it.
LEMMA FlattenIs ==
  ASSUME NEW seqs, NEW n \in Nat, n # 0, Len(seqs) = n
  PROVE  \E f : FlattenTo(f, seqs, n) /\ FlattenSeq(seqs) = f[n]
<1> DEFINE Rec(h) == [i \in 1 .. Len(seqs) |-> IF i = 1 THEN seqs[i] ELSE h[i - 1] \o seqs[i]]
           iter == CHOOSE h : h = Rec(h)
<1>1. FlattenSeq(seqs) = iter[Len(seqs)]
  BY DEF FlattenSeq
<1>2. PICK g : FlattenTo(g, seqs, n)
  BY FlattenExists
<1> DEFINE f == [i \in 1 .. n |-> g[i]]
<1>3. f = Rec(f)
  <2>1. ASSUME NEW i \in 1 .. n PROVE f[i] = Rec(f)[i]
    <3>1. f[i] = g[i] /\ (i # 1 => f[i - 1] = g[i - 1])
      OBVIOUS
    <3> HIDE DEF f
    <3> QED
      BY <1>2, <3>1 DEF FlattenTo
  <2>2. f = [i \in 1 .. n |-> f[i]]
    OBVIOUS
  <2> HIDE DEF f
  <2> QED
    BY <2>1, <2>2
<1> HIDE DEF f
<1>4. iter = Rec(iter)
  BY <1>3
<1>5. FlattenTo(iter, seqs, n)
  <2>1. ASSUME NEW i \in 1 .. n PROVE iter[i] = Rec(iter)[i]
    BY <1>4
  <2> HIDE DEF iter
  <2> QED
    BY <2>1 DEF FlattenTo
<1> HIDE DEF iter
<1> QED
  BY <1>1, <1>5

\* The places of a concatenation h of the first n sequences: which sequence it comes from, and where in it.
PlacesIn(D, h, seqs, n, b, p) ==
  /\ \A k \in D : b[k] \in 1 .. n /\ p[k] \in DOMAIN seqs[b[k]] /\ h[k] = seqs[b[k]][p[k]]
  /\ \A k, l \in D : k < l => b[k] < b[l] \/ (b[k] = b[l] /\ p[k] < p[l])
  /\ \A i \in 1 .. n : \A m \in DOMAIN seqs[i] : \E k \in D : b[k] = i /\ p[k] = m

Places(h, seqs, n, b, p) == PlacesIn(DOMAIN h, h, seqs, n, b, p)

LEMMA FirstPlaces ==
  ASSUME NEW S, NEW seqs, seqs[1] \in Seq(S)
  PROVE  \E b, p : Places(seqs[1], seqs, 1, b, p)
<1> DEFINE h == seqs[1]
           b == [k \in DOMAIN h |-> 1]
           p == [k \in DOMAIN h |-> k]
<1>1. DOMAIN h \subseteq Nat
  OBVIOUS
<1>2. Places(h, seqs, 1, b, p)
  BY <1>1 DEF Places, PlacesIn
<1> QED
  BY <1>2

LEMMA NextPlaces ==
  ASSUME NEW S, NEW seqs, NEW n \in Nat, NEW h \in Seq(S), NEW b, NEW p, Places(h, seqs, n, b, p),
         seqs[n + 1] \in Seq(S)
  PROVE  h \o seqs[n + 1] \in Seq(S) /\ \E b2, p2 : Places(h \o seqs[n + 1], seqs, n + 1, b2, p2)
<1>1. PICK t, w : t \in Seq(S) /\ w \in Seq(S) /\ t = seqs[n + 1] /\ w = h \o seqs[n + 1]
  <2>1. PICK t : t = seqs[n + 1]
    OBVIOUS
  <2>2. h \o t \in Seq(S) /\ t \in Seq(S)
    BY <2>1
  <2> QED
    BY <2>1, <2>2
<1>2. PICK x \in Nat, y \in Nat : x = Len(h) /\ y = Len(t) /\ DOMAIN h = 1 .. x /\ DOMAIN t = 1 .. y
  OBVIOUS
<1>9. /\ \A k \in 1 .. x : b[k] \in 1 .. n /\ p[k] \in DOMAIN seqs[b[k]] /\ h[k] = seqs[b[k]][p[k]]
      /\ \A k, l \in 1 .. x : k < l => b[k] < b[l] \/ (b[k] = b[l] /\ p[k] < p[l])
      /\ \A i \in 1 .. n : \A m \in DOMAIN seqs[i] : \E k \in 1 .. x : b[k] = i /\ p[k] = m
  <2>1. PlacesIn(1 .. x, h, seqs, n, b, p)
    BY <1>2 DEF Places
  <2> QED
    BY <2>1 DEF PlacesIn
<1>3. /\ DOMAIN w = 1 .. x + y /\ \A k \in 1 .. x : w[k] = h[k]
      /\ \A k \in 1 .. y : w[x + k] = t[k]
  BY <1>1, <1>2
<1> DEFINE b2 == [k \in 1 .. x + y |-> IF k <= x THEN b[k] ELSE n + 1]
           p2 == [k \in 1 .. x + y |-> IF k <= x THEN p[k] ELSE k - x]
<1>4. /\ \A k \in 1 .. x : b2[k] = b[k] /\ p2[k] = p[k] /\ k \in 1 .. x + y
      /\ \A k \in 1 .. x + y : k > x => b2[k] = n + 1 /\ p2[k] = k - x /\ k - x \in 1 .. y
  OBVIOUS
<1> HIDE DEF b2, p2
<1>5. ASSUME NEW k \in 1 .. x + y
      PROVE  b2[k] \in 1 .. n + 1 /\ p2[k] \in DOMAIN seqs[b2[k]] /\ w[k] = seqs[b2[k]][p2[k]]
  <2>1. CASE k <= x
    <3>1. k \in 1 .. x /\ b2[k] = b[k] /\ p2[k] = p[k] /\ w[k] = h[k]
      BY <1>3, <1>4, <2>1
    <3>2. b[k] \in 1 .. n /\ p[k] \in DOMAIN seqs[b[k]] /\ h[k] = seqs[b[k]][p[k]]
      BY <1>9, <3>1
    <3> QED
      BY <3>1, <3>2
  <2>2. CASE k > x
    <3>1. b2[k] = n + 1 /\ p2[k] = k - x /\ k - x \in 1 .. y /\ k = x + (k - x)
      BY <1>4, <2>2
    <3>2. w[k] = t[k - x]
      BY <1>3, <3>1
    <3> QED
      BY <1>1, <1>2, <3>1, <3>2
  <2> QED
    BY <1>2, <2>1, <2>2
<1>6. ASSUME NEW k \in 1 .. x + y, NEW l \in 1 .. x + y, k < l
      PROVE  b2[k] < b2[l] \/ (b2[k] = b2[l] /\ p2[k] < p2[l])
  <2>1. CASE l <= x
    <3>1. k \in 1 .. x /\ l \in 1 .. x
      BY <1>6, <2>1
    <3> QED
      BY <1>4, <1>6, <1>9, <3>1
  <2>2. CASE k <= x /\ l > x
    <3>1. k \in 1 .. x
      BY <2>2
    <3>2. b[k] \in 1 .. n
      BY <1>9, <3>1
    <3> QED
      BY <1>4, <2>2, <3>1, <3>2
  <2>3. CASE k > x
    BY <1>4, <1>6, <2>3
  <2> QED
    BY <1>2, <2>1, <2>2, <2>3
<1>7. ASSUME NEW i \in 1 .. n + 1, NEW m \in DOMAIN seqs[i]
      PROVE  \E k \in 1 .. x + y : b2[k] = i /\ p2[k] = m
  <2>1. CASE i = n + 1
    <3>1. m \in 1 .. y
      BY <1>1, <1>2, <2>1
    <3>2. x + m \in 1 .. x + y /\ x + m > x /\ (x + m) - x = m
      BY <3>1
    <3> QED
      BY <1>4, <2>1, <3>2
  <2>2. CASE i # n + 1
    <3>1. i \in 1 .. n
      BY <2>2
    <3>2. PICK k \in 1 .. x : b[k] = i /\ p[k] = m
      BY <1>9, <3>1
    <3> QED
      BY <1>4, <3>2
  <2> QED
    BY <2>1, <2>2
<1>8. Places(w, seqs, n + 1, b2, p2)
  <2>1. PlacesIn(1 .. x + y, w, seqs, n + 1, b2, p2)
    BY <1>5, <1>6, <1>7 DEF PlacesIn
  <2> QED
    BY <1>3, <2>1 DEF Places
<1> QED
  BY <1>1, <1>8

\* A concatenation goes through its sequences one after the other.
LEMMA FlattenPlaces ==
  ASSUME NEW S, NEW seqs \in Seq(Seq(S))
  PROVE  FlattenSeq(seqs) \in Seq(S) /\ \E b, p : Places(FlattenSeq(seqs), seqs, Len(seqs), b, p)
<1>0. PICK n \in Nat : n = Len(seqs) /\ DOMAIN seqs = 1 .. n /\ \A i \in 1 .. n : seqs[i] \in Seq(S)
  OBVIOUS
<1>1. CASE n = 0
  <2>1. seqs = <<>> /\ FlattenSeq(seqs) = <<>>
    BY <1>0, <1>1 DEF FlattenSeq
  <2>2. PICK none : none = <<>>
    OBVIOUS
  <2>3. none \in Seq(S) /\ DOMAIN none = {}
    BY <2>2
  <2>5. PlacesIn({}, none, seqs, 0, none, none)
    BY DEF PlacesIn
  <2>6. Places(none, seqs, 0, none, none)
    BY <2>3, <2>5 DEF Places
  <2>4. FlattenSeq(seqs) = none /\ Len(seqs) = 0
    BY <1>0, <1>1, <2>1, <2>2
  <2> QED
    BY <2>3, <2>4, <2>6
<1>2. CASE n # 0
  <2>1. PICK f : FlattenTo(f, seqs, n) /\ FlattenSeq(seqs) = f[n]
    BY <1>0, <1>2, FlattenIs
  <2> DEFINE P == {k \in Nat : k + 1 <= n => f[k + 1] \in Seq(S) /\ \E b, p : Places(f[k + 1], seqs, k + 1, b, p)}
  <2>2. 0 \in P
    <3>1. f[1] = seqs[1] /\ seqs[1] \in Seq(S)
      BY <1>0, <1>2, <2>1 DEF FlattenTo
    <3> QED
      BY <3>1, FirstPlaces
  <2>3. ASSUME NEW k \in Nat, k \in P PROVE k + 1 \in P
    <3>1. SUFFICES ASSUME (k + 1) + 1 <= n
                   PROVE  f[(k + 1) + 1] \in Seq(S) /\ \E b, p : Places(f[(k + 1) + 1], seqs, (k + 1) + 1, b, p)
      OBVIOUS
    <3>2. PICK b, p : f[k + 1] \in Seq(S) /\ Places(f[k + 1], seqs, k + 1, b, p)
      BY <1>0, <2>3, <3>1
    <3>3. PICK m \in Nat : m = k + 1 /\ m + 1 \in 1 .. n /\ m + 1 # 1 /\ (m + 1) - 1 = m
      BY <1>0, <3>1
    <3>4. f[m + 1] = f[m] \o seqs[m + 1] /\ seqs[m + 1] \in Seq(S)
      BY <1>0, <2>1, <3>3 DEF FlattenTo
    <3>5. f[m] \in Seq(S) /\ Places(f[m], seqs, m, b, p)
      BY <3>2, <3>3
    <3>6. f[m] \o seqs[m + 1] \in Seq(S) /\ \E b2, p2 : Places(f[m] \o seqs[m + 1], seqs, m + 1, b2, p2)
      BY <3>4, <3>5, NextPlaces
    <3> QED
      BY <3>3, <3>4, <3>6
  <2> HIDE DEF P
  <2>4. n - 1 \in P
    <3>1. n - 1 \in Nat
      BY <1>0, <1>2
    <3>2. Nat \subseteq P
      BY <2>2, <2>3, AllNumbers
    <3> QED
      BY <3>1, <3>2
  <2>5. (n - 1) + 1 = n
    BY <1>0
  <2> QED
    BY <1>0, <2>1, <2>4, <2>5 DEF P
<1> QED
  BY <1>1, <1>2


\* The messages h tell the QAs of the list: those of a QA stand together, as parts allows, and
\* those of an earlier one come first.
TellsIn(D, h, list, parts) ==
  /\ \A i, j \in D : i < j /\ h[i].qa = h[j].qa =>
       <<h[i].part, h[j].part>> \in parts /\ \A k \in i .. j : h[k].qa = h[i].qa
  /\ \A i, j \in D : i < j /\ h[i].qa # h[j].qa =>
       \E x, y \in DOMAIN list : x < y /\ h[i].qa = list[x] /\ h[j].qa = list[y]
  /\ \A i \in D : h[i].qa \in ToSet(list)
  /\ \A q \in ToSet(list) : \A part \in {"question", "answer"} : \E i \in D : h[i] = Message(q, part)

Tells(h, list, parts) == h \in Seq(Messages) /\ TellsIn(DOMAIN h, h, list, parts)

\* The messages of the QA q.
BlockOf(block, q, parts) ==
  /\ block \in Seq(Messages)
  /\ \A m \in DOMAIN block : block[m].qa = q
  /\ \A m, n \in DOMAIN block : m < n => <<block[m].part, block[n].part>> \in parts
  /\ \A part \in {"question", "answer"} : \E m \in DOMAIN block : block[m] = Message(q, part)

LEMMA BlocksTell ==
  ASSUME NEW list \in Seq(Nat), \A i, j \in DOMAIN list : i < j => list[i] # list[j],
         NEW parts, NEW blocks \in Seq(Seq(Messages)), Len(blocks) = Len(list),
         \A i \in DOMAIN list : BlockOf(blocks[i], list[i], parts)
  PROVE  Tells(FlattenSeq(blocks), list, parts)
<1>0. PICK h : h = FlattenSeq(blocks)
  OBVIOUS
<1>1. PICK n \in Nat : h = FlattenSeq(blocks) /\ n = Len(list) /\ DOMAIN list = 1 .. n
  BY <1>0
<1>2. h \in Seq(Messages) /\ DOMAIN h \subseteq Nat
  <2>1. h \in Seq(Messages)
    BY <1>1, FlattenPlaces
  <2> QED
    BY <2>1
<1>3. PICK b, p : PlacesIn(DOMAIN h, h, blocks, n, b, p)
  <2>1. \E b, p : Places(FlattenSeq(blocks), blocks, Len(blocks), b, p)
    BY FlattenPlaces
  <2> QED
    BY <1>1, <2>1 DEF Places
<1>4. ASSUME NEW k \in DOMAIN h
      PROVE  /\ b[k] \in 1 .. n /\ p[k] \in DOMAIN blocks[b[k]] /\ h[k] = blocks[b[k]][p[k]]
             /\ h[k].qa = list[b[k]] /\ DOMAIN blocks[b[k]] \subseteq Nat
  <2>1. b[k] \in 1 .. n /\ p[k] \in DOMAIN blocks[b[k]] /\ h[k] = blocks[b[k]][p[k]]
    BY <1>3 DEF PlacesIn
  <2>2. BlockOf(blocks[b[k]], list[b[k]], parts)
    BY <1>1, <2>1
  <2>3. h[k].qa = list[b[k]] /\ blocks[b[k]] \in Seq(Messages)
    BY <2>1, <2>2 DEF BlockOf
  <2> QED
    BY <2>1, <2>3
<1>5. \A k, l \in DOMAIN h : k < l => b[k] < b[l] \/ (b[k] = b[l] /\ p[k] < p[l])
  BY <1>3 DEF PlacesIn
<1>6. ASSUME NEW i \in DOMAIN h, NEW j \in DOMAIN h, i < j, h[i].qa = h[j].qa
      PROVE  <<h[i].part, h[j].part>> \in parts /\ \A k \in i .. j : h[k].qa = h[i].qa
  <2>1. b[i] = b[j] /\ p[i] < p[j]
    <3>1. b[i] \in 1 .. n /\ b[j] \in 1 .. n /\ list[b[i]] = list[b[j]]
      BY <1>4, <1>6
    <3>2. ~(b[i] < b[j])
      BY <1>1, <3>1
    <3> QED
      BY <1>5, <1>6, <3>2
  <2>2. <<h[i].part, h[j].part>> \in parts
    <3>1. BlockOf(blocks[b[i]], list[b[i]], parts)
      BY <1>1, <1>4
    <3>2. /\ p[i] \in DOMAIN blocks[b[i]] /\ p[j] \in DOMAIN blocks[b[i]]
          /\ h[i] = blocks[b[i]][p[i]] /\ h[j] = blocks[b[i]][p[j]]
      BY <1>4, <2>1
    <3> QED
      BY <2>1, <3>1, <3>2 DEF BlockOf
  <2>3. ASSUME NEW k \in i .. j PROVE h[k].qa = h[i].qa
    <3>1. k \in DOMAIN h /\ i \in Nat /\ j \in Nat /\ k \in Nat /\ i <= k /\ k <= j
      BY <1>2
    <3>2. b[k] \in Nat /\ b[i] \in Nat /\ b[j] \in Nat
      BY <1>4, <3>1
    <3>3. b[i] <= b[k]
      <4>1. CASE i = k
        BY <3>2, <4>1
      <4>2. CASE i < k
        <5>1. b[i] < b[k] \/ b[i] = b[k]
          BY <1>5, <3>1, <4>2
        <5> QED
          BY <3>2, <5>1
      <4> QED
        BY <3>1, <4>1, <4>2
    <3>4. b[k] <= b[j]
      <4>1. CASE k = j
        BY <3>2, <4>1
      <4>2. CASE k < j
        <5>1. b[k] < b[j] \/ b[k] = b[j]
          BY <1>5, <3>1, <4>2
        <5> QED
          BY <3>2, <5>1
      <4> QED
        BY <3>1, <4>1, <4>2
    <3>5. b[k] = b[i]
      BY <2>1, <3>2, <3>3, <3>4
    <3> QED
      BY <1>4, <3>1, <3>5
  <2> QED
    BY <2>2, <2>3
<1>7. ASSUME NEW i \in DOMAIN h, NEW j \in DOMAIN h, i < j, h[i].qa # h[j].qa
      PROVE  \E x, y \in DOMAIN list : x < y /\ h[i].qa = list[x] /\ h[j].qa = list[y]
  <2>1. b[i] # b[j]
    BY <1>4, <1>7
  <2>2. b[i] < b[j]
    BY <1>5, <1>7, <2>1
  <2> QED
    BY <1>1, <1>4, <2>2
<1>8. \A i \in DOMAIN h : h[i].qa \in ToSet(list)
  BY <1>1, <1>4 DEF ToSet
<1>9. ASSUME NEW q \in ToSet(list), NEW part \in {"question", "answer"}
      PROVE  \E i \in DOMAIN h : h[i] = Message(q, part)
  <2>1. PICK x \in 1 .. n : list[x] = q
    BY <1>1 DEF ToSet
  <2>2. PICK m \in DOMAIN blocks[x] : blocks[x][m] = Message(q, part)
    BY <1>1, <2>1 DEF BlockOf
  <2>3. PICK k \in DOMAIN h : b[k] = x /\ p[k] = m
    BY <1>3, <2>1, <2>2 DEF PlacesIn
  <2> QED
    BY <1>4, <2>2, <2>3
<1>10. Tells(h, list, parts)
  BY <1>2, <1>6, <1>7, <1>8, <1>9 DEF Tells, TellsIn
<1> QED
  BY <1>1, <1>10

\* A tale backwards tells the list backwards.
LEMMA ReverseTells ==
  ASSUME NEW h, NEW rev, NEW list \in Seq(Nat), NEW parts, NEW strap, Tells(h, rev, parts),
         rev = [i \in DOMAIN list |-> list[Len(list) + 1 - i]],
         \A x, y : <<x, y>> \in parts => <<y, x>> \in strap
  PROVE  Tells(Reverse(h), list, strap)
<1>0. PICK g : g = Reverse(h)
  OBVIOUS
<1>1. PICK n \in Nat : g = Reverse(h) /\ n = Len(h) /\ DOMAIN h = 1 .. n
  BY <1>0 DEF Tells
<1>12. TellsIn(1 .. n, h, rev, parts)
  BY <1>1 DEF Tells
<1>2. DOMAIN g = 1 .. n /\ \A i \in 1 .. n : g[i] = h[n + 1 - i] /\ n + 1 - i \in 1 .. n
  <2>1. g = [i \in 1 .. n |-> h[(n - i) + 1]]
    BY <1>1 DEF Reverse
  <2>2. \A i \in 1 .. n : (n - i) + 1 = n + 1 - i /\ n + 1 - i \in 1 .. n
    OBVIOUS
  <2> QED
    BY <2>1, <2>2
<1>3. g \in Seq(Messages)
  <2>1. \A i \in 1 .. n : h[i] \in Messages
    BY <1>1 DEF Tells
  <2>2. g \in [1 .. n -> Messages]
    <3>1. g = [i \in 1 .. n |-> g[i]]
      BY <1>1, <1>2 DEF Reverse
    <3> QED
      BY <1>2, <2>1, <3>1
  <2> QED
    BY <2>2, SequenceIs
<1>4. PICK m \in Nat : m = Len(list) /\ DOMAIN list = 1 .. m
  OBVIOUS
<1>5. DOMAIN rev = 1 .. m /\ \A x \in 1 .. m : rev[x] = list[m + 1 - x] /\ m + 1 - x \in 1 .. m
  BY <1>4
<1>6. ToSet(rev) = ToSet(list)
  <2>1. \A x \in 1 .. m : m + 1 - (m + 1 - x) = x
    OBVIOUS
  <2>2. \A x \in 1 .. m : list[x] = rev[m + 1 - x] /\ m + 1 - x \in 1 .. m
    BY <1>5, <2>1
  <2>3. ToSet(rev) = {rev[x] : x \in 1 .. m} /\ ToSet(list) = {list[x] : x \in 1 .. m}
    BY <1>4, <1>5 DEF ToSet
  <2>4. \A x \in 1 .. m : rev[x] \in {list[y] : y \in 1 .. m}
    BY <1>5
  <2>5. \A x \in 1 .. m : list[x] \in {rev[y] : y \in 1 .. m}
    BY <2>2
  <2> QED
    BY <2>3, <2>4, <2>5
<1>7. ASSUME NEW i \in 1 .. n, NEW j \in 1 .. n, i < j, g[i].qa = g[j].qa
      PROVE  <<g[i].part, g[j].part>> \in strap /\ \A k \in i .. j : g[k].qa = g[i].qa
  <2>1. PICK x \in 1 .. n, y \in 1 .. n : x = n + 1 - j /\ y = n + 1 - i
    BY <1>2
  <2>2. x < y /\ g[i] = h[y] /\ g[j] = h[x]
    BY <1>2, <1>7, <2>1
  <2>3. <<h[x].part, h[y].part>> \in parts /\ \A k \in x .. y : h[k].qa = h[x].qa
    BY <1>7, <1>12, <2>2 DEF TellsIn
  <2>4. ASSUME NEW k \in i .. j PROVE g[k].qa = g[i].qa
    <3>1. k \in 1 .. n /\ n + 1 - k \in x .. y
      BY <2>1
    <3> QED
      BY <1>2, <1>7, <2>2, <2>3, <3>1
  <2> QED
    BY <2>2, <2>3, <2>4
<1>8. ASSUME NEW i \in 1 .. n, NEW j \in 1 .. n, i < j, g[i].qa # g[j].qa
      PROVE  \E x, y \in DOMAIN list : x < y /\ g[i].qa = list[x] /\ g[j].qa = list[y]
  <2>1. PICK x \in 1 .. n, y \in 1 .. n : x = n + 1 - j /\ y = n + 1 - i
    BY <1>2
  <2>2. x < y /\ g[i] = h[y] /\ g[j] = h[x] /\ h[x].qa # h[y].qa
    BY <1>2, <1>8, <2>1
  <2>3. \A a, b \in 1 .. n : a < b /\ h[a].qa # h[b].qa =>
          \E u, v \in DOMAIN rev : u < v /\ h[a].qa = rev[u] /\ h[b].qa = rev[v]
    BY <1>12 DEF TellsIn
  <2>4. x < y /\ h[x].qa # h[y].qa
    BY <2>2
  <2>5. PICK u \in DOMAIN rev, v \in DOMAIN rev : u < v /\ h[x].qa = rev[u] /\ h[y].qa = rev[v]
    BY <2>3, <2>4, SMTT(30)
  <2>6. u \in 1 .. m /\ v \in 1 .. m /\ u < v /\ g[j].qa = rev[u] /\ g[i].qa = rev[v]
    BY <1>5, <2>2, <2>5
  <2>7. m + 1 - v < m + 1 - u /\ m + 1 - v \in 1 .. m /\ m + 1 - u \in 1 .. m
    BY <1>5, <2>6
  <2> QED
    BY <1>4, <1>5, <2>6, <2>7
<1>9. \A i \in 1 .. n : g[i].qa \in ToSet(list)
  BY <1>2, <1>6, <1>12 DEF TellsIn
<1>10. ASSUME NEW q \in ToSet(list), NEW part \in {"question", "answer"}
       PROVE  \E i \in 1 .. n : g[i] = Message(q, part)
  <2>1. PICK k \in 1 .. n : h[k] = Message(q, part)
    BY <1>6, <1>12 DEF TellsIn
  <2>2. n + 1 - k \in 1 .. n /\ n + 1 - (n + 1 - k) = k
    OBVIOUS
  <2> QED
    BY <1>2, <2>1, <2>2
<1>11. Tells(g, list, strap)
  <2>1. TellsIn(1 .. n, g, list, strap)
    BY <1>7, <1>8, <1>9, <1>10 DEF TellsIn
  <2> QED
    BY <1>2, <1>3, <2>1 DEF Tells
<1> QED
  BY <1>1, <1>11


\* What a history may show of the chat.
Tellable(chat) == {q \in Rows : qas[q].chat = chat /\ Answered(q)}

LEMMA TellableAre ==
  ASSUME IInv, NEW chat, NEW q \in Tellable(chat)
  PROVE  q \in DOMAIN qas /\ qas[q].row = "there" /\ qas[q].chat = chat /\ qas[q].answered /\ qas[q].upload = None
<1>1. q \in DOMAIN qas /\ qas[q].row = "there" /\ qas[q].chat = chat /\ qas[q].answered
  BY DEF Tellable, Rows, There, Answered
<1>2. qas[q].upload # None => ~qas[q].answered
  BY <1>1, Facts DEF QAsOK
<1> QED
  BY <1>1, <1>2

\* A tale of a list of answered QAs is what the history should be.
LEMMA TaleIs ==
  ASSUME IInv, NEW d, d.req.op = "Ask", NEW list, list \in Seq(Tellable(d.req.chat)),
         \A i, j \in DOMAIN list : i < j =>
           IF d.req.mode = "history" THEN qas[list[i]].at <= qas[list[j]].at
           ELSE qas[list[j]].at <= qas[list[i]].at,
         NEW parts, Tells(d.got, list, parts),
         \A x, y : <<x, y>> \in parts =>
           IF d.req.mode = "history" THEN x # "answer" /\ y # "question" ELSE x = "answer" /\ y = "question",
         WholeOK(d, qas)
  PROVE  TaleOK(d, qas)
<1>0. PICK h : h = d.got
  OBVIOUS
<1>1. PICK v1 \in BOOLEAN : h = d.got /\ (v1 <=> d.req.mode = "history")
  BY <1>0
<1>2. h \in Seq(Messages) /\ TellsIn(DOMAIN h, h, list, parts)
  BY <1>1 DEF Tells
<1>3. TogetherOK(d)
  <2>1. SUFFICES ASSUME NEW i \in DOMAIN h, NEW j \in DOMAIN h, i < j, h[i].qa = h[j].qa
                 PROVE  /\ \A k \in i .. j : h[k].qa = h[i].qa
                        /\ IF v1 THEN h[i].part # "answer" /\ h[j].part # "question"
                           ELSE h[i].part = "answer" /\ h[j].part = "question"
    BY <1>1 DEF TogetherOK
  <2>2. <<h[i].part, h[j].part>> \in parts /\ \A k \in i .. j : h[k].qa = h[i].qa
    BY <1>2, <2>1 DEF TellsIn
  <2> QED
    BY <1>1, <2>2
<1>4. \A q \in ToSet(list) : q \in Tellable(d.req.chat)
  BY DEF ToSet
<1>5. ASSUME NEW i \in DOMAIN h, NEW j \in DOMAIN h, i < j, h[i].qa # h[j].qa
      PROVE  IF v1 THEN qas[h[i].qa].happened <= qas[h[j].qa].happened
             ELSE qas[h[j].qa].happened <= qas[h[i].qa].happened
  <2>1. PICK x \in DOMAIN list, y \in DOMAIN list : x < y /\ h[i].qa = list[x] /\ h[j].qa = list[y]
    BY <1>2, <1>5 DEF TellsIn
  <2>2. PICK p, q : p = list[x] /\ q = list[y]
    OBVIOUS
  <2>3. p \in Tellable(d.req.chat) /\ q \in Tellable(d.req.chat)
    BY <2>2
  <2>4. p \in DOMAIN qas /\ q \in DOMAIN qas /\ qas[p].upload = None /\ qas[q].upload = None
    BY <2>3, TellableAre
  <2>5. QAsOK(clock, qas, files, uploads)
    BY Facts
  <2>6. /\ qas[p].at <= qas[q].at <=> qas[p].happened <= qas[q].happened
        /\ qas[q].at <= qas[p].at <=> qas[q].happened <= qas[p].happened
    BY <2>4, <2>5, TimesAre
  <2>7. IF v1 THEN qas[p].at <= qas[q].at ELSE qas[q].at <= qas[p].at
    BY <1>1, <2>1, <2>2
  <2> QED
    BY <2>1, <2>2, <2>6, <2>7
<1>6. ASSUME NEW q \in Told(d)
      PROVE  /\ q \in DOMAIN qas /\ qas[q].chat = d.req.chat /\ qas[q].answered
             /\ \A part \in {"question", "answer"} : \E i \in DOMAIN h : h[i] = Message(q, part)
  <2>1. q \in ToSet(list)
    BY <1>1, <1>2 DEF Told, TellsIn
  <2>2. q \in DOMAIN qas /\ qas[q].chat = d.req.chat /\ qas[q].answered
    BY <1>4, <2>1, TellableAre
  <2> QED
    BY <1>2, <2>1, <2>2 DEF TellsIn
<1>7. ToldOK(d, qas)
  BY <1>1, <1>5, <1>6 DEF ToldOK
<1> QED
  BY <1>1, <1>2, <1>3, <1>7 DEF TaleOK

LEMMA ToldAre ==
  ASSUME NEW d, NEW list, NEW parts, Tells(d.got, list, parts)
  PROVE  Told(d) = ToSet(list)
<1>1. PICK h : h = d.got
  OBVIOUS
<1>2. TellsIn(DOMAIN h, h, list, parts) /\ Told(d) = {h[i].qa : i \in DOMAIN h}
  BY <1>1 DEF Tells, Told
<1>3. \A i \in DOMAIN h : h[i].qa \in ToSet(list)
  BY <1>2 DEF TellsIn
<1>4. ASSUME NEW q \in ToSet(list) PROVE q \in {h[i].qa : i \in DOMAIN h}
  <2>1. PICK i \in DOMAIN h : h[i] = Message(q, "answer")
    BY <1>2 DEF TellsIn
  <2>2. h[i].qa = q
    BY <2>1 DEF Message
  <2> QED
    BY <2>2
<1> QED
  BY <1>2, <1>3, <1>4

\* The QAs of the start that are there and answered may be told.
LEMMA KnownAre ==
  ASSUME IInv, NEW c, c.req.op = "Ask", BeginOK(c, chats, qas)
  PROVE  Known(c, qas) \subseteq Tellable(c.req.chat)
<1>1. \A q \in c.start.answered : q \in c.start.rows /\ qas[q].answered
  BY DEF BeginOK, Regular, Listings
<1>2. \A q \in c.start.rows : q \in DOMAIN qas
  BY DEF BeginOK, Regular, Listings, StartOK
<1> QED
  BY <1>1, <1>2 DEF Known, Tellable, Rows, There, Answered

\* The first of an order of S: no more than the limit, and of those all that there are.
IsFirst(S, list, limit, head) ==
  /\ head \in Seq(S) /\ DOMAIN head \subseteq DOMAIN list /\ \A i \in DOMAIN head : head[i] = list[i]
  /\ Cardinality(ToSet(head)) = IF limit <= Cardinality(S) THEN limit ELSE Cardinality(S)

LEMMA FirstOf ==
  ASSUME NEW S, IsFiniteSet(S), NEW list \in Seq(S), Len(list) = Cardinality(S),
         \A i, j \in DOMAIN list : i < j => list[i] # list[j], NEW limit \in Nat, NEW head, head = First(limit, list)
  PROVE  IsFirst(S, list, limit, head)
<1>1. PICK n \in Nat : n = Cardinality(S) /\ DOMAIN list = 1 .. n
  BY FS_CardinalityType
<1>2. PICK m \in Nat : m = (IF limit <= n THEN limit ELSE n) /\ m = Min({limit, n})
  BY MinOf
<1>3. head = SubSeq(list, 1, m)
  BY <1>1, <1>2 DEF First
<1>4. m <= n
  BY <1>2
<1>5. /\ head \in Seq(S) /\ Len(head) = m /\ DOMAIN head = 1 .. m
      /\ \A i \in 1 .. m : head[i] = list[i] /\ i \in 1 .. n
  BY <1>1, <1>3, <1>4
<1>6. Cardinality(ToSet(head)) = m
  <2> DEFINE f == [i \in 1 .. m |-> head[i]]
  <2>1. f \in Bijection(1 .. m, ToSet(head))
    <3>1. \A i \in 1 .. m : f[i] = head[i] /\ head[i] \in ToSet(head)
      BY <1>5 DEF ToSet
    <3>2. \A y \in ToSet(head) : \E i \in 1 .. m : f[i] = y
      BY <1>5 DEF ToSet
    <3>3. \A i, j \in 1 .. m : f[i] = f[j] => i = j
      <4>1. ASSUME NEW i \in 1 .. m, NEW j \in 1 .. m, i # j PROVE list[i] # list[j]
        <5>1. i \in DOMAIN list /\ j \in DOMAIN list
          BY <1>1, <1>5
        <5>2. CASE i < j
          BY <5>1, <5>2
        <5>3. CASE j < i
          BY <5>1, <5>3
        <5> QED
          BY <4>1, <5>2, <5>3
      <4> QED
        BY <1>5, <4>1
    <3>4. f \in [1 .. m -> ToSet(head)]
      BY <3>1
    <3> HIDE DEF f
    <3> QED
      BY <3>2, <3>3, <3>4 DEF Bijection, Injection, Surjection, IsInjective
  <2>2. IsFiniteSet(1 .. m) /\ Cardinality(1 .. m) = m
    <3> HIDE DEF f
    <3>1. m \in Int /\ 1 \in Int /\ m \in Nat
      BY <1>2
    <3>2. IsFiniteSet(1 .. m) /\ Cardinality(1 .. m) = IF 1 > m THEN 0 ELSE m - 1 + 1
      BY <3>1, FS_Interval
    <3> QED
      BY <3>1, <3>2
  <2> HIDE DEF f
  <2>3. ExistsBijection(1 .. m, ToSet(head))
    BY <2>1 DEF ExistsBijection
  <2> QED
    BY <2>2, <2>3, FS_Bijection
<1> QED
  BY <1>1, <1>2, <1>5, <1>6 DEF IsFirst

\* v2: the latest QAs of the chat, as many as the limit allows.
LEMMA MultiRead ==
  ASSUME IInv, NEW d, d.req.op = "Ask", d.req.mode # "history", BeginOK(d, chats, qas),
         NEW page \in ListChatIdQAsLimit(d.req.chat, HistoryLimit),
         d.got = FlattenSeq([i \in DOMAIN page |-> <<Message(page[i], "answer"), Message(page[i], "question")>>])
  PROVE  TaleOK(d, qas)
<1>1. PICK S : S = Tellable(d.req.chat) /\ S \subseteq DOMAIN qas
  BY DEF Tellable, Rows
<1>2. qas \in Seq(QARow)
  BY Facts DEF QAsOK
<1>3. PICK list \in Descending(S) : page = First(HistoryLimit, list)
  BY <1>1 DEF ListChatIdQAsLimit, Tellable
<1>4. /\ list \in Seq(S) /\ Len(list) = Cardinality(S) /\ ToSet(list) = S /\ IsFiniteSet(S)
      /\ \A i, j \in DOMAIN list : i < j => list[i] # list[j] /\ qas[list[i]].at >= qas[list[j]].at
  BY <1>1, <1>2, <1>3, DescendingHas, SomeOf
<1>5. HistoryLimit \in Nat
  BY ApiAssumption
<1>6. /\ page \in Seq(S) /\ DOMAIN page \subseteq DOMAIN list /\ \A i \in DOMAIN page : page[i] = list[i]
      /\ Cardinality(ToSet(page)) = IF HistoryLimit <= Cardinality(S) THEN HistoryLimit ELSE Cardinality(S)
  <2>1. \A i, j \in DOMAIN list : i < j => list[i] # list[j]
    BY <1>4
  <2>2. IsFiniteSet(S) /\ list \in Seq(S) /\ Len(list) = Cardinality(S) /\ page = First(HistoryLimit, list)
    BY <1>3, <1>4
  <2>3. IsFirst(S, list, HistoryLimit, page)
    BY ONLY <1>5, <2>1, <2>2, FirstOf
  <2> QED
    BY <2>3 DEF IsFirst
<1>7. /\ page \in Seq(Nat)
      /\ \A i, j \in DOMAIN page : i < j => page[i] # page[j] /\ qas[page[j]].at <= qas[page[i]].at
  <2>1. S \subseteq Nat
    BY <1>1, <1>2
  <2>2. \A x \in S : qas[x].at \in Nat
    BY <1>1, <1>2, RowIs
  <2>3. \A i \in DOMAIN page : page[i] \in S
    BY <1>6
  <2>4. page \in Seq(Nat)
    BY <1>6, <2>1, SeqOfMore
  <2> QED
    BY <1>4, <1>6, <2>2, <2>3, <2>4
<1> DEFINE parts == {<<"answer", "question">>}
           blocks == [i \in DOMAIN page |-> <<Message(page[i], "answer"), Message(page[i], "question")>>]
<1>8. ASSUME NEW q \in Nat
      PROVE  BlockOf(<<Message(q, "answer"), Message(q, "question")>>, q, parts)
  <2>1. PICK x, y : x = Message(q, "answer") /\ y = Message(q, "question")
    OBVIOUS
  <2>2. x \in Messages /\ y \in Messages /\ x.qa = q /\ y.qa = q /\ x.part = "answer" /\ y.part = "question"
    BY <2>1 DEF Message, Messages
  <2>3. BlockOf(<<x, y>>, q, parts)
    BY <2>1, <2>2 DEF BlockOf
  <2> QED
    BY <2>1, <2>3
<1>9. blocks \in Seq(Seq(Messages)) /\ Len(blocks) = Len(page) /\ \A i \in DOMAIN page : BlockOf(blocks[i], page[i], parts)
  <2>1. PICK n \in Nat : n = Len(page) /\ DOMAIN page = 1 .. n
    BY <1>7
  <2>2. \A i \in 1 .. n : page[i] \in Nat
    BY <1>7, <2>1
  <2>3. \A i \in 1 .. n : BlockOf(blocks[i], page[i], parts)
    BY <1>8, <2>1, <2>2
  <2>4. \A i \in 1 .. n : blocks[i] \in Seq(Messages)
    BY <2>3 DEF BlockOf
  <2>5. blocks = [i \in 1 .. n |-> blocks[i]]
    BY <2>1
  <2> HIDE DEF blocks
  <2>6. blocks \in [1 .. n -> Seq(Messages)]
    BY <2>4, <2>5
  <2>7. blocks \in Seq(Seq(Messages)) /\ Len(blocks) = n
    BY <2>6, SequenceIs
  <2> QED
    BY <2>1, <2>3, <2>7
<1>10. d.got = FlattenSeq(blocks)
  OBVIOUS
<1> HIDE DEF blocks
<1>11. Tells(d.got, page, parts)
  BY <1>7, <1>9, <1>10, BlocksTell
<1>12. WholeOK(d, qas)
  <2>1. Told(d) = ToSet(page)
    BY <1>11, ToldAre
  <2>2. Known(d, qas) \subseteq S
    BY <1>1, KnownAre
  <2>3. /\ Cardinality(Known(d, qas)) <= Cardinality(S) /\ Cardinality(Known(d, qas)) \in Nat
        /\ Cardinality(S) \in Nat
    BY <1>4, <2>2, FS_Subset, FS_CardinalityType
  <2>4. Min({HistoryLimit, Cardinality(Known(d, qas))})
          = IF HistoryLimit <= Cardinality(Known(d, qas)) THEN HistoryLimit ELSE Cardinality(Known(d, qas))
    BY <1>5, <2>3, MinOf
  <2>5. Cardinality(Told(d)) >= Min({HistoryLimit, Cardinality(Known(d, qas))})
    BY <1>5, <1>6, <2>1, <2>3, <2>4
  <2> QED
    BY <2>5 DEF WholeOK
<1>13. \A x, y : <<x, y>> \in parts => x = "answer" /\ y = "question"
  OBVIOUS
<1> HIDE DEF parts
<1>14. \A i, j \in DOMAIN page : i < j =>
           IF d.req.mode = "history" THEN qas[page[i]].at <= qas[page[j]].at
           ELSE qas[page[j]].at <= qas[page[i]].at
  BY <1>7
<1>15. page \in Seq(Tellable(d.req.chat))
  BY <1>1, <1>6
<1> QED
  BY <1>11, <1>12, <1>13, <1>14, <1>15, TaleIs


Back == {<<"answer", "references">>, <<"answer", "question">>, <<"references", "question">>}

LEMMA JoinIs ==
  ASSUME NEW S, NEW x \in S, NEW y \in S, NEW z \in S
  PROVE  /\ <<x>> \o <<>> = <<x>> /\ <<x>> \o <<y>> = <<x, y>> /\ <<x, y>> \o <<z>> = <<x, y, z>>
<1>1. ASSUME NEW a \in Seq(S), NEW v \in S, NEW w \in Seq(S), Len(w) = Len(a) + 1,
             \A i \in 1 .. Len(a) : w[i] = a[i], w[Len(a) + 1] = v
      PROVE  a \o <<v>> = w
  <2>1. PICK b : b = <<v>>
    OBVIOUS
  <2>2. b \in Seq(S) /\ Len(b) = 1 /\ b[1] = v
    BY <2>1
  <2>3. PICK c : c = a \o b
    OBVIOUS
  <2>4. PICK n \in Nat : n = Len(a)
    OBVIOUS
  <2>5. /\ c \in Seq(S) /\ Len(c) = n + 1 /\ \A i \in 1 .. n : c[i] = a[i]
        /\ c[n + 1] = b[1]
    <3>1. /\ c \in Seq(S) /\ Len(c) = Len(a) + Len(b)
          /\ \A i \in 1 .. Len(a) + Len(b) : c[i] = IF i <= Len(a) THEN a[i] ELSE b[i - Len(a)]
      BY <2>2, <2>3, ConcatProperties
    <3>2. /\ Len(c) = n + 1 /\ \A i \in 1 .. n + 1 : c[i] = IF i <= n THEN a[i] ELSE b[i - n]
      BY <2>2, <2>4, <3>1
    <3>3. n + 1 \in 1 .. n + 1 /\ ~(n + 1 <= n) /\ n + 1 - n = 1 /\ \A i \in 1 .. n : i \in 1 .. n + 1 /\ i <= n
      OBVIOUS
    <3> QED
      BY <3>1, <3>2, <3>3
  <2>6. \A i \in 1 .. n + 1 : c[i] = w[i]
    <3>1. \A i \in 1 .. n + 1 : i \in 1 .. n \/ i = n + 1
      OBVIOUS
    <3> QED
      BY <1>1, <2>2, <2>4, <2>5, <3>1
  <2>7. c = w
    BY <1>1, <2>4, <2>5, <2>6
  <2> QED
    BY <2>1, <2>3, <2>7
<1>2. <<x>> \o <<>> = <<x>>
  OBVIOUS
<1>3. <<x>> \o <<y>> = <<x, y>>
  <2>1. PICK a, w : a = <<x>> /\ w = <<x, y>>
    OBVIOUS
  <2>2. a \in Seq(S) /\ w \in Seq(S) /\ Len(a) = 1 /\ Len(w) = 2 /\ a[1] = x /\ w[1] = x /\ w[2] = y
    BY <2>1
  <2>4. Len(w) = Len(a) + 1 /\ (\A i \in 1 .. Len(a) : w[i] = a[i]) /\ w[Len(a) + 1] = y
    BY <2>2
  <2>3. a \o <<y>> = w
    BY <1>1, <2>2, <2>4
  <2> QED
    BY <2>1, <2>3
<1>4. <<x, y>> \o <<z>> = <<x, y, z>>
  <2>1. PICK a, w : a = <<x, y>> /\ w = <<x, y, z>>
    OBVIOUS
  <2>2. /\ a \in Seq(S) /\ w \in Seq(S) /\ Len(a) = 2 /\ Len(w) = 3
        /\ a[1] = x /\ a[2] = y /\ w[1] = x /\ w[2] = y /\ w[3] = z
    BY <2>1
  <2>3. Len(w) = Len(a) + 1 /\ (\A i \in 1 .. Len(a) : w[i] = a[i]) /\ w[Len(a) + 1] = z
    <3>1. \A i \in 1 .. 2 : w[i] = a[i]
      <4>1. \A i \in 1 .. 2 : i = 1 \/ i = 2
        OBVIOUS
      <4> QED
        BY <2>2, <4>1
    <3> QED
      BY <2>2, <3>1
  <2>4. a \o <<z>> = w
    BY <1>1, <2>2, <2>3
  <2> QED
    BY <2>1, <2>4
<1> QED
  BY <1>2, <1>3, <1>4

LEMMA BackwardsIs ==
  ASSUME NEW q \in Nat
  PROVE  BlockOf(Backwards(q), q, Back)
<1>1. PICK x, y, z : x = Message(q, "answer") /\ y = Message(q, "references") /\ z = Message(q, "question")
  OBVIOUS
<1>2. /\ x \in Messages /\ y \in Messages /\ z \in Messages /\ x.qa = q /\ y.qa = q /\ z.qa = q
      /\ x.part = "answer" /\ y.part = "references" /\ z.part = "question"
  BY <1>1 DEF Message, Messages
<1>3. CASE qas[q].refs
  <2>1. Backwards(q) = <<x, y, z>>
    <3>1. Backwards(q) = <<x>> \o <<y>> \o <<z>>
      BY <1>1, <1>3, Zenon DEF Backwards
    <3>3. <<x>> \o <<y>> = <<x, y>>
      BY <1>2, JoinIs
    <3>2. <<x>> \o <<y>> \o <<z>> = <<x, y, z>>
      BY <1>2, <3>3, JoinIs
    <3> QED
      BY <3>1, <3>2
  <2>2. BlockOf(<<x, y, z>>, q, Back)
    BY <1>1, <1>2 DEF BlockOf, Back
  <2> QED
    BY <2>1, <2>2
<1>4. CASE ~qas[q].refs
  <2>1. Backwards(q) = <<x, z>>
    <3>1. Backwards(q) = <<x>> \o <<>> \o <<z>>
      BY <1>1, <1>4, Zenon DEF Backwards
    <3>3. <<x>> \o <<>> = <<x>>
      BY <1>2, JoinIs
    <3>2. <<x>> \o <<>> \o <<z>> = <<x, z>>
      BY <1>2, <3>3, JoinIs
    <3> QED
      BY <3>1, <3>2
  <2>2. BlockOf(<<x, z>>, q, Back)
    BY <1>1, <1>2 DEF BlockOf, Back
  <2> QED
    BY <2>1, <2>2
<1> QED
  BY <1>3, <1>4

\* v1: the QAs of the session from the latest row back, and all of it reversed.
LEMMA ChatRead ==
  ASSUME IInv, NEW d, d.req.op = "Ask", d.req.mode = "history", BeginOK(d, chats, qas),
         NEW list \in AnsweredQAs(d.req.session, d.req.chat),
         d.got = Reverse(FlattenSeq([i \in DOMAIN list |-> Backwards(list[Len(list) + 1 - i])]))
  PROVE  TaleOK(d, qas)
<1>1. PICK S : S = {q \in Rows : qas[q].session = d.req.session /\ qas[q].chat = d.req.chat /\ Answered(q)}
               /\ S \subseteq DOMAIN qas
  BY DEF Rows
<1>2. qas \in Seq(QARow) /\ S \subseteq Tellable(d.req.chat)
  <2>1. qas \in Seq(QARow)
    BY Facts DEF QAsOK
  <2> QED
    BY <1>1, <2>1 DEF Tellable
<1>3. list \in Ascending(S)
  BY <1>1 DEF AnsweredQAs
<1>4. /\ list \in Seq(S) /\ ToSet(list) = S
      /\ \A i, j \in DOMAIN list : i < j => list[i] # list[j] /\ qas[list[i]].at <= qas[list[j]].at
  BY <1>1, <1>2, <1>3, AscendingHas
<1>5. list \in Seq(Nat) /\ list \in Seq(Tellable(d.req.chat))
  <2>1. S \subseteq Nat
    BY <1>1, <1>2
  <2> QED
    BY <1>2, <1>4, <2>1, SeqOfMore
<1>6. PICK n \in Nat : n = Len(list) /\ DOMAIN list = 1 .. n
  BY <1>5
<1> DEFINE rev == [i \in DOMAIN list |-> list[Len(list) + 1 - i]]
           blocks == [i \in DOMAIN list |-> Backwards(list[Len(list) + 1 - i])]
           strap == {<<x[2], x[1]>> : x \in Back}
<1>7. /\ rev \in Seq(Nat) /\ Len(rev) = n /\ DOMAIN rev = 1 .. n
      /\ \A i \in 1 .. n : rev[i] = list[n + 1 - i] /\ n + 1 - i \in 1 .. n
  <2>1. \A i \in 1 .. n : n + 1 - i \in 1 .. n /\ list[n + 1 - i] \in Nat
    <3>1. \A i \in 1 .. n : n + 1 - i \in 1 .. n
      OBVIOUS
    <3> QED
      BY <1>5, <1>6, <3>1
  <2>2. rev = [i \in 1 .. n |-> list[n + 1 - i]]
    BY <1>6
  <2> HIDE DEF rev
  <2>3. rev \in [1 .. n -> Nat]
    BY <2>1, <2>2
  <2>4. rev \in Seq(Nat) /\ Len(rev) = n
    BY <2>3, SequenceIs
  <2> QED
    BY <2>1, <2>2, <2>4
<1>8. \A i, j \in DOMAIN rev : i < j => rev[i] # rev[j]
  <2>1. ASSUME NEW i \in 1 .. n, NEW j \in 1 .. n, i < j PROVE rev[i] # rev[j]
    <3>1. n + 1 - j < n + 1 - i /\ n + 1 - j \in 1 .. n /\ n + 1 - i \in 1 .. n
      BY <2>1
    <3>2. list[n + 1 - j] # list[n + 1 - i]
      BY <1>4, <1>6, <3>1
    <3> HIDE DEF rev
    <3> QED
      BY <1>7, <3>2
  <2> HIDE DEF rev
  <2> QED
    BY <1>7, <2>1
<1>9. blocks \in Seq(Seq(Messages)) /\ Len(blocks) = Len(rev) /\ \A i \in DOMAIN rev : BlockOf(blocks[i], rev[i], Back)
  <2>1. \A i \in 1 .. n : blocks[i] = Backwards(rev[i])
    BY <1>6
  <2>2. blocks = [i \in 1 .. n |-> blocks[i]]
    BY <1>6
  <2> HIDE DEF blocks, rev
  <2>3. \A i \in 1 .. n : rev[i] \in Nat
    BY <1>7
  <2>4. \A i \in 1 .. n : BlockOf(blocks[i], rev[i], Back)
    BY <2>1, <2>3, BackwardsIs
  <2>5. \A i \in 1 .. n : blocks[i] \in Seq(Messages)
    BY <2>4 DEF BlockOf
  <2>6. blocks \in [1 .. n -> Seq(Messages)]
    BY <2>2, <2>5
  <2>7. blocks \in Seq(Seq(Messages)) /\ Len(blocks) = n
    BY <2>6, SequenceIs
  <2> QED
    BY <1>7, <2>4, <2>7
<1>10. d.got = Reverse(FlattenSeq(blocks)) /\ rev = [i \in DOMAIN list |-> list[Len(list) + 1 - i]]
  OBVIOUS
<1>11. /\ \A x, y : <<x, y>> \in Back => <<y, x>> \in strap
       /\ \A x, y : <<x, y>> \in strap => x # "answer" /\ y # "question"
  BY DEF Back
<1> HIDE DEF blocks, rev, strap
<1>12. Tells(FlattenSeq(blocks), rev, Back)
  BY <1>7, <1>8, <1>9, BlocksTell
<1>13. Tells(d.got, list, strap)
  BY <1>5, <1>10, <1>11, <1>12, ReverseTells
<1>14. WholeOK(d, qas)
  <2>1. Told(d) = S
    BY <1>4, <1>13, ToldAre
  <2>2. {q \in Known(d, qas) : qas[q].session = d.req.session} \subseteq S
    <3>1. Known(d, qas) \subseteq Tellable(d.req.chat)
      BY KnownAre
    <3> QED
      BY <1>1, <3>1 DEF Tellable
  <2> QED
    BY <2>1, <2>2 DEF WholeOK
<1>15. \A i, j \in DOMAIN list : i < j =>
           IF d.req.mode = "history" THEN qas[list[i]].at <= qas[list[j]].at
           ELSE qas[list[j]].at <= qas[list[i]].at
  BY <1>4
<1>16. \A x, y : <<x, y>> \in strap =>
           IF d.req.mode = "history" THEN x # "answer" /\ y # "question" ELSE x = "answer" /\ y = "question"
  BY <1>11
<1> QED
  BY <1>5, <1>13, <1>14, <1>15, <1>16, TaleIs

---------------------------------------------------------------------------
(* What was read stays true.                                               *)

\* Chats stay, in their sessions and deleted; those of the set M are given away.
ChatsGoOn(cs, cs2, M) ==
  \A x \in DOMAIN cs :
    /\ x \in DOMAIN cs2 /\ cs2[x].session = cs[x].session /\ (cs[x].deleted => cs2[x].deleted)
    /\ cs2[x].user = cs[x].user \/ x \in M

LEMMA BeginStays ==
  ASSUME NEW c, NEW cs, NEW cs2, NEW qs \in Seq(QARow), NEW qs2, NEW M, ChatsGoOn(cs, cs2, M), QAsGoOn(qs, qs2),
         BeginOK(c, cs, qs)
  PROVE  BeginOK(c, cs2, qs2)
<1> SUFFICES ASSUME c.req.op \in Regular
             PROVE  BeginOK(c, cs2, qs2)
  BY DEF BeginOK
<1>1. StartOK(c, qs) /\ StartOK(c, qs2)
  <2>1. StartOK(c, qs)
    BY DEF BeginOK
  <2>2. \A q \in c.start.rows : q \in DOMAIN qs2 /\ qs2[q].row # "asked" /\ q \notin c.start.gone.qas
    <3>1. ASSUME NEW q \in c.start.rows
          PROVE  q \in DOMAIN qs2 /\ qs2[q].row # "asked" /\ q \notin c.start.gone.qas
      <4>1. q \in DOMAIN qs /\ qs[q].row # "asked" /\ q \notin c.start.gone.qas
        BY <2>1 DEF StartOK
      <4>2. qs[q].row \in {"there", "deleted"}
        BY <4>1, RowIs
      <4>3. q \in DOMAIN qs2 /\ qs2[q].row \in {"there", "deleted"}
        BY <4>1, <4>2 DEF QAsGoOn
      <4> QED
        BY <4>1, <4>3
    <3> QED
      BY <3>1
  <2>3. \A q \in c.start.gone.qas : q \in DOMAIN qs2 /\ qs2[q].row = "deleted"
    BY <2>1 DEF StartOK, QAsGoOn
  <2> QED
    BY <2>1, <2>2, <2>3 DEF StartOK
<1>2. \A q \in c.start.answered : q \in c.start.rows /\ qs2[q].answered
  <2>1. \A q \in c.start.answered : q \in c.start.rows /\ q \in DOMAIN qs /\ qs[q].answered
    BY <1>1 DEF BeginOK, StartOK
  <2> QED
    BY <2>1 DEF QAsGoOn
<1>3. c.start.chats \subseteq DOMAIN cs2 /\ \A x \in c.start.gone.chats : x \in DOMAIN cs2 /\ cs2[x].deleted
  BY DEF BeginOK, ChatsGoOn
<1>4. /\ c.step \in {"list", "move", "statement", "history"} => c.got = <<>>
      /\ c.step = "history" => c.req.mode # "single"
  BY DEF BeginOK
<1> QED
  BY <1>1, <1>2, <1>3, <1>4 DEF BeginOK


LEMMA RowStays ==
  ASSUME NEW c, NEW qs \in Seq(QARow), NEW qs2, QAsGoOn(qs, qs2), StartOK(c, qs), NEW q \in c.start.rows
  PROVE  /\ q \in DOMAIN qs /\ q \in DOMAIN qs2 /\ Alike(qs2[q], qs[q])
         /\ qs2[q].row = "there" => qs[q].row = "there"
<1>1. q \in DOMAIN qs /\ qs[q].row # "asked"
  BY DEF StartOK
<1>2. qs[q].row \in {"there", "deleted"}
  BY <1>1, RowIs
<1> QED
  BY <1>1, <1>2 DEF QAsGoOn

LEMMA ListStays ==
  ASSUME NEW c, NEW qs \in Seq(QARow), NEW qs2, QAsGoOn(qs, qs2), StartOK(c, qs), NEW chat, NEW list,
         ListOK(c, qs, chat, list)
  PROVE  ListOK(c, qs2, chat, list)
<1>1. ToSet(list) \subseteq DOMAIN qs2 /\ ToSet(list) \intersect c.start.gone.qas = {}
  BY DEF ListOK, QAsGoOn
<1>2. Kept(c, qs2, chat) \subseteq ToSet(list)
  <2>1. Kept(c, qs2, chat) \subseteq Kept(c, qs, chat)
    <3>1. ASSUME NEW q \in c.start.rows, qs2[q].row = "there", qs2[q].chat = chat,
                 c.req.op = "ListChatQAs" => qs2[q].session = c.req.session
          PROVE  /\ qs[q].row = "there" /\ qs[q].chat = chat
                 /\ c.req.op = "ListChatQAs" => qs[q].session = c.req.session
      BY <3>1, RowStays DEF Alike
    <3> QED
      BY <3>1 DEF Kept
  <2> QED
    BY <2>1 DEF ListOK
<1>3. InOrder(c, qs2, list)
  <2>1. SUFFICES ASSUME NEW i \in DOMAIN list, NEW j \in DOMAIN list, i < j,
                        qs2[list[i]].upload = None <=> qs2[list[j]].upload = None
                 PROVE  IF c.req.op = "ListChatQAs" THEN qs2[list[i]].happened <= qs2[list[j]].happened
                        ELSE qs2[list[i]].happened >= qs2[list[j]].happened
    BY DEF InOrder
  <2>2. list[i] \in DOMAIN qs /\ list[j] \in DOMAIN qs
    BY DEF ListOK, ToSet
  <2>3. /\ qs2[list[i]].upload = qs[list[i]].upload /\ qs2[list[j]].upload = qs[list[j]].upload
        /\ qs2[list[i]].happened = qs[list[i]].happened /\ qs2[list[j]].happened = qs[list[j]].happened
    BY <2>2 DEF QAsGoOn, Alike
  <2>4. InOrder(c, qs, list)
    BY DEF ListOK
  <2>5. IF c.req.op = "ListChatQAs" THEN qs[list[i]].happened <= qs[list[j]].happened
        ELSE qs[list[i]].happened >= qs[list[j]].happened
    BY <2>1, <2>3, <2>4 DEF InOrder
  <2> QED
    BY <2>3, <2>5
<1> QED
  BY <1>1, <1>2, <1>3 DEF ListOK

LEMMA ListsStay ==
  ASSUME NEW c, NEW cs, NEW qs \in Seq(QARow), NEW qs2, QAsGoOn(qs, qs2), BeginOK(c, cs, qs), ListsOK(c, qs)
  PROVE  ListsOK(c, qs2)
<1> SUFFICES ASSUME c.req.op \in Regular \ {"Ask"}
             PROVE  ListsOK(c, qs2)
  BY DEF ListsOK
<1>1. StartOK(c, qs)
  BY DEF BeginOK
<1>2. c.got \in Seq(ListGot)
      /\ \A i \in DOMAIN c.got : c.req.op # "ListChats" => ListOK(c, qs, c.got[i].chat, c.got[i].qas)
  BY DEF ListsOK
<1>3. \A i \in DOMAIN c.got : c.req.op # "ListChats" => ListOK(c, qs2, c.got[i].chat, c.got[i].qas)
  BY <1>1, <1>2, ListStays
<1> QED
  BY <1>2, <1>3 DEF ListsOK

LEMMA ShownStays ==
  ASSUME NEW c, NEW cs, NEW cs2, NEW qs, NEW M, NEW moved, NEW moved2, ChatsGoOn(cs, cs2, M),
         M \subseteq moved2, moved \subseteq moved2, BeginOK(c, cs, qs), ShownOK(c, cs, moved)
  PROVE  ShownOK(c, cs2, moved2)
<1>1. ASSUME NEW x \in DOMAIN cs
      PROVE  /\ x \in DOMAIN cs2 /\ (cs[x].deleted => cs2[x].deleted)
             /\ x \in moved2 \/ (Belongs(c, cs, x) <=> Belongs(c, cs2, x))
  BY DEF ChatsGoOn, Belongs
<1>2. c.step = "qas" => c.todo \in Seq(Nat) /\ c.todo # <<>>
  BY DEF ShownOK
<1>3. ASSUME NEW x \in DOMAIN cs, Belongs(c, cs, x) \/ x \in moved
      PROVE  Belongs(c, cs2, x) \/ x \in moved2
  BY <1>1, <1>3
<1>4. c.req.op = "Login" /\ c.step = "list" =>
       c.req.chat \in DOMAIN cs2 /\ (Belongs(c, cs2, c.req.chat) \/ c.req.chat \in moved2)
  BY <1>1, <1>3 DEF ShownOK
<1>5. ASSUME c.req.op \in {"GetUserChats", "Login", "ListChats"}, c.step = "qas" \/ IsSuccess(c)
      PROVE  /\ Shown(c) \subseteq DOMAIN cs2 /\ Shown(c) \intersect c.start.gone.chats = {}
             /\ \A x \in Shown(c) : Belongs(c, cs2, x) \/ x \in moved2
             /\ \A x \in (IF c.req.op = "Login" THEN {c.req.chat} ELSE c.start.chats) :
                  x \in DOMAIN cs2 /\ ~cs2[x].deleted /\ x \notin moved2 /\ Belongs(c, cs2, x) => x \in Shown(c)
             /\ c.req.op = "Login" =>
                  c.req.chat \in DOMAIN cs2 /\ (Belongs(c, cs2, c.req.chat) \/ c.req.chat \in moved2)
  <2>1. PICK wanted : wanted = IF c.req.op = "Login" THEN {c.req.chat} ELSE c.start.chats
    OBVIOUS
  <2>2. /\ Shown(c) \subseteq DOMAIN cs /\ Shown(c) \intersect c.start.gone.chats = {}
        /\ \A x \in Shown(c) : Belongs(c, cs, x) \/ x \in moved
        /\ \A x \in wanted : x \in DOMAIN cs /\ ~cs[x].deleted /\ x \notin moved /\ Belongs(c, cs, x) => x \in Shown(c)
        /\ c.req.op = "Login" => c.req.chat \in DOMAIN cs /\ (Belongs(c, cs, c.req.chat) \/ c.req.chat \in moved)
    BY <1>5, <2>1 DEF ShownOK
  <2>3. \A x \in wanted : x \in DOMAIN cs
    <3>1. c.req.op # "Login" => c.start.chats \subseteq DOMAIN cs
      BY <1>5 DEF BeginOK, Regular, Listings
    <3> QED
      BY <2>1, <2>2, <3>1
  <2>4. ASSUME NEW x \in wanted, ~cs2[x].deleted, x \notin moved2, Belongs(c, cs2, x)
        PROVE  x \in Shown(c)
    BY <1>1, <2>2, <2>3, <2>4
  <2> QED
    BY <1>1, <1>3, <2>1, <2>2, <2>4
<1> QED
  BY <1>2, <1>4, <1>5 DEF ShownOK

LEMMA TaleStays ==
  ASSUME NEW c, NEW cs, NEW qs \in Seq(QARow), NEW qs2, QAsGoOn(qs, qs2), BeginOK(c, cs, qs), TaleOK(c, qs)
  PROVE  TaleOK(c, qs2)
<1> SUFFICES ASSUME c.req.op = "Ask"
             PROVE  TaleOK(c, qs2)
  BY DEF TaleOK
<1>1. StartOK(c, qs) /\ \A q \in c.start.answered : q \in c.start.rows
  BY DEF BeginOK, Regular, Listings
<1>2. c.got \in Seq(Messages) /\ TogetherOK(c) /\ ToldOK(c, qs) /\ WholeOK(c, qs)
  BY DEF TaleOK
<1>3. ToldOK(c, qs2)
  <2>1. \A i \in DOMAIN c.got : c.got[i].qa \in Told(c)
    BY DEF Told
  <2>2. \A q \in Told(c) :
          /\ q \in DOMAIN qs2 /\ qs2[q].happened = qs[q].happened
          /\ qs2[q].chat = c.req.chat /\ qs2[q].answered
    BY <1>2 DEF ToldOK, QAsGoOn, Alike
  <2>3. \A q \in Told(c) : \A part \in {"question", "answer"} : \E i \in DOMAIN c.got : c.got[i] = Message(q, part)
    BY <1>2 DEF ToldOK
  <2>4. ASSUME NEW i \in DOMAIN c.got, NEW j \in DOMAIN c.got, i < j, c.got[i].qa # c.got[j].qa
        PROVE  IF c.req.mode = "history" THEN qs2[c.got[i].qa].happened <= qs2[c.got[j].qa].happened
               ELSE qs2[c.got[j].qa].happened <= qs2[c.got[i].qa].happened
    <3>1. IF c.req.mode = "history" THEN qs[c.got[i].qa].happened <= qs[c.got[j].qa].happened
          ELSE qs[c.got[j].qa].happened <= qs[c.got[i].qa].happened
      BY <1>2, <2>4 DEF ToldOK
    <3> QED
      BY <2>1, <2>2, <3>1
  <2> QED
    BY <2>2, <2>3, <2>4 DEF ToldOK
<1>4. Known(c, qs2) \subseteq Known(c, qs) /\ Known(c, qs) \subseteq DOMAIN qs
  BY <1>1, RowStays DEF Known, Alike
<1>5. WholeOK(c, qs2)
  <2>1. SUFFICES ASSUME c.req.mode # "single", ~c.failed, c.step = "record" \/ IsSuccess(c)
                 PROVE  IF c.req.mode = "history" THEN {q \in Known(c, qs2) : qs2[q].session = c.req.session} \subseteq Told(c)
                        ELSE Cardinality(Told(c)) >= Min({HistoryLimit, Cardinality(Known(c, qs2))})
    BY DEF WholeOK
  <2>2. CASE c.req.mode = "history"
    <3>1. {q \in Known(c, qs) : qs[q].session = c.req.session} \subseteq Told(c)
      BY <1>2, <2>1, <2>2 DEF WholeOK
    <3>2. \A q \in Known(c, qs2) : q \in Known(c, qs) /\ qs2[q].session = qs[q].session
      BY <1>4 DEF QAsGoOn, Alike
    <3> QED
      BY <2>2, <3>1, <3>2
  <2>3. CASE c.req.mode # "history"
    <3>1. Cardinality(Told(c)) >= Min({HistoryLimit, Cardinality(Known(c, qs))})
      BY <1>2, <2>1, <2>3 DEF WholeOK
    <3>2. PICK T : T = Told(c)
      OBVIOUS
    <3>3. IsFiniteSet(Known(c, qs)) /\ IsFiniteSet(Known(c, qs2))
      BY <1>4, SomeOf, FS_Subset
    <3>4. PICK m, n : m = Cardinality(Known(c, qs)) /\ n = Cardinality(Known(c, qs2)) /\ m \in Nat /\ n \in Nat /\ n <= m
      BY <1>4, <3>3, FS_Subset, FS_CardinalityType
    <3>5. HistoryLimit \in Nat
      BY ApiAssumption
    <3>6. /\ Min({HistoryLimit, m}) = IF HistoryLimit <= m THEN HistoryLimit ELSE m
          /\ Min({HistoryLimit, n}) = IF HistoryLimit <= n THEN HistoryLimit ELSE n
      BY <3>4, <3>5, MinOf
    <3>7. IsFiniteSet(T)
      <4>1. T \subseteq DOMAIN qs
        BY <1>2, <3>2 DEF ToldOK
      <4> QED
        BY <4>1, SomeOf
    <3>8. Cardinality(T) \in Nat
      BY <3>7, FS_CardinalityType
    <3>9. Cardinality(T) >= Min({HistoryLimit, n})
      BY <3>1, <3>2, <3>4, <3>5, <3>6, <3>8
    <3> QED
      BY <2>3, <3>2, <3>4, <3>9
  <2> QED
    BY <2>2, <2>3
<1> QED
  BY <1>2, <1>3, <1>5 DEF TaleOK

\* What another call does leaves what a call has read.
LEMMA ReadStays ==
  ASSUME NEW c, NEW cs, NEW cs2, NEW qs \in Seq(QARow), NEW qs2, NEW M, NEW moved, NEW moved2,
         ChatsGoOn(cs, cs2, M), QAsGoOn(qs, qs2), M \subseteq moved2, moved \subseteq moved2,
         ReadOK(c, cs, qs, moved)
  PROVE  ReadOK(c, cs2, qs2, moved2)
<1>1. BeginOK(c, cs, qs) /\ ListsOK(c, qs) /\ ShownOK(c, cs, moved) /\ TaleOK(c, qs)
  BY DEF ReadOK
<1>2. BeginOK(c, cs2, qs2)
  BY <1>1, BeginStays
<1>3. ListsOK(c, qs2) /\ TaleOK(c, qs2)
  BY <1>1, ListsStay, TaleStays
<1>4. ShownOK(c, cs2, moved2)
  BY <1>1, ShownStays
<1> QED
  BY <1>2, <1>3, <1>4 DEF ReadOK


---------------------------------------------------------------------------
(* The steps of a call that reads.                                         *)

\* The call d is c, a step later.
SameCall(c, d) == d.req = c.req /\ d.start = c.start

LEMMA BeginGoesOn ==
  ASSUME NEW c, NEW d, NEW cs, NEW qs, SameCall(c, d), BeginOK(c, cs, qs),
         d.step \in {"list", "move", "statement", "history"} => d.got = <<>> /\ d.step # "history"
  PROVE  BeginOK(d, cs, qs)
  BY DEF SameCall, BeginOK, StartOK

\* What was listed stays listed.
LEMMA ListsGoOn ==
  ASSUME NEW c, NEW d, NEW qs, SameCall(c, d), d.got = c.got, ListsOK(c, qs)
  PROVE  ListsOK(d, qs)
  BY DEF SameCall, ListsOK, ListOK, Kept, InOrder

LEMMA TaleGoesOn ==
  ASSUME NEW c, NEW d, NEW qs, SameCall(c, d), d.got = c.got, TaleOK(c, qs),
         d.step = "record" \/ IsSuccess(d) => d.failed \/ (d.failed = c.failed /\ c.step = "record")
  PROVE  TaleOK(d, qs)
<1> SUFFICES ASSUME c.req.op = "Ask" PROVE TaleOK(d, qs)
  BY DEF TaleOK, SameCall
<1>1. c.got \in Seq(Messages) /\ TogetherOK(c) /\ ToldOK(c, qs) /\ WholeOK(c, qs)
  BY DEF TaleOK
<1>2. d.req = c.req /\ d.start = c.start /\ Told(d) = Told(c)
  BY DEF SameCall, Told
<1>3. TogetherOK(d)
  BY <1>1, <1>2 DEF TogetherOK
<1>4. ToldOK(d, qs)
  BY <1>1, <1>2 DEF ToldOK
<1>5. Known(d, qs) = Known(c, qs)
  BY <1>2 DEF Known
<1>6. WholeOK(d, qs)
  BY <1>1, <1>2, <1>5 DEF WholeOK
<1> QED
  BY <1>1, <1>2, <1>3, <1>4, <1>6 DEF TaleOK

\* A call that ends in an error, and one that only lists no chats.
LEMMA ReadEnds ==
  ASSUME NEW c, NEW d, NEW cs, NEW qs, NEW moved, SameCall(c, d), d.got = c.got, d.step = "done",
         ReadOK(c, cs, qs, moved),
         IsSuccess(d) => /\ c.req.op \notin {"GetUserChats", "Login", "ListChats"}
                         /\ c.req.op = "Ask" => d.failed = c.failed /\ c.step = "record"
  PROVE  ReadOK(d, cs, qs, moved)
<1>1. BeginOK(c, cs, qs) /\ ListsOK(c, qs) /\ ShownOK(c, cs, moved) /\ TaleOK(c, qs)
  BY DEF ReadOK
<1>2. BeginOK(d, cs, qs) /\ ListsOK(d, qs)
  BY <1>1, BeginGoesOn, ListsGoOn
<1>3. ShownOK(d, cs, moved)
  BY DEF ShownOK, SameCall
<1>4. TaleOK(d, qs)
  <2>1. CASE c.req.op = "Ask"
    BY <1>1, <2>1, TaleGoesOn
  <2>2. CASE c.req.op # "Ask"
    BY <2>2 DEF TaleOK, SameCall
  <2> QED
    BY <2>1, <2>2
<1> QED
  BY <1>2, <1>3, <1>4 DEF ReadOK

\* The chats of a session.
LEMMA ChatsRead ==
  ASSUME IInv, NEW c, NEW d, NEW moved, SameCall(c, d), c.req.op = "ListChats", BeginOK(c, chats, qas),
         NEW list \in ListChats(c.req.session), d.step = "done",
         d.got = [i \in DOMAIN list |-> [chat |-> list[i], qas |-> <<>>]]
  PROVE  ReadOK(d, chats, qas, moved)
<1>1. PICK S : S = {x \in DOMAIN chats : Live(x) /\ chats[x].session = c.req.session}
  OBVIOUS
<1>2. chats \in Seq(ChatRow) /\ S \subseteq DOMAIN chats /\ list \in ChatsDescending(S)
  BY <1>1, Facts DEF ChatsOK, ListChats
<1>3. list \in Seq(S) /\ ToSet(list) = S
  BY <1>2, ChatsDescendingHas
<1>4. S \subseteq Nat
  BY <1>2
<1>5. PICK n \in Nat : n = Len(list) /\ DOMAIN list = 1 .. n
  BY <1>3
<1>6. PICK none : none = <<>>
  OBVIOUS
<1>7. d.got = [i \in 1 .. n |-> [chat |-> list[i], qas |-> none]] /\ none \in Seq(Nat)
  BY <1>5, <1>6
<1>8. \A i \in 1 .. n : list[i] \in S
  BY <1>3, <1>5
<1>9. d.got \in Seq(ListGot)
  <2>1. \A i \in 1 .. n : [chat |-> list[i], qas |-> none] \in ListGot
    BY <1>4, <1>7, <1>8 DEF ListGot
  <2>2. d.got \in [1 .. n -> ListGot]
    BY <1>7, <2>1
  <2> QED
    BY <2>2, SequenceIs
<1>10. DOMAIN d.got = 1 .. n /\ \A i \in 1 .. n : d.got[i].chat = list[i]
  BY <1>7
<1>11. Shown(d) = S
  <2>1. Shown(d) = {d.got[i].chat : i \in 1 .. n}
    BY <1>10 DEF Shown
  <2>2. ToSet(list) = {list[i] : i \in 1 .. n}
    BY <1>5 DEF ToSet
  <2> QED
    BY <1>3, <1>10, <2>1, <2>2
<1>12. d.req.op = "ListChats" /\ d.req.session = c.req.session /\ d.start = c.start
  BY DEF SameCall
<1>13. BeginOK(d, chats, qas)
  BY BeginGoesOn
<1>14. ListsOK(d, qas) /\ TaleOK(d, qas)
  BY <1>9, <1>12 DEF ListsOK, TaleOK
<1>15. \A x \in S : ~chats[x].deleted /\ Belongs(d, chats, x)
  BY <1>1, <1>12 DEF Live, Belongs
<1>16. S \intersect d.start.gone.chats = {}
  BY <1>12, <1>13, <1>15 DEF BeginOK, Regular, Listings
<1>17. \A x \in DOMAIN chats : ~chats[x].deleted /\ Belongs(d, chats, x) => x \in S
  BY <1>1, <1>12 DEF Live, Belongs
<1>18. ShownOK(d, chats, moved)
  BY <1>2, <1>11, <1>12, <1>15, <1>16, <1>17 DEF ShownOK
<1> QED
  BY <1>13, <1>14, <1>18 DEF ReadOK

\* The chats of a user: those of a login have the one it has moved.
LEMMA UserChatsRead ==
  ASSUME IInv, NEW c, NEW d, NEW moved, SameCall(c, d), c.req.op \in {"GetUserChats", "Login"},
         BeginOK(c, chats, qas), ShownOK(c, chats, moved), c.step = "list",
         NEW list \in ListChatsUser(c.req.user), d.got = <<>>,
         IF list = <<>> THEN d.step = "done" ELSE d.step = "qas" /\ d.todo = list
  PROVE  ReadOK(d, chats, qas, moved)
<1>1. PICK S : S = {x \in DOMAIN chats : Live(x) /\ chats[x].user = c.req.user}
  OBVIOUS
<1>2. chats \in Seq(ChatRow) /\ S \subseteq DOMAIN chats /\ list \in ChatsDescending(S)
  BY <1>1, Facts DEF ChatsOK, ListChatsUser
<1>3. list \in Seq(S) /\ ToSet(list) = S
  BY <1>2, ChatsDescendingHas
<1>4. S \subseteq Nat /\ list \in Seq(Nat)
  <2>1. S \subseteq Nat
    BY <1>2
  <2> QED
    BY <1>3, <2>1, SeqOfMore
<1>5. d.req = c.req /\ d.start = c.start
  BY DEF SameCall
<1>6. Shown(d) = S
  <2>1. {d.got[i].chat : i \in DOMAIN d.got} = {}
    OBVIOUS
  <2>2. CASE list = <<>>
    <3>1. S = {}
      BY <1>3, <2>2 DEF ToSet
    <3> QED
      BY <2>1, <2>2, <3>1 DEF Shown
  <2>3. CASE list # <<>>
    BY <1>3, <2>1, <2>3 DEF Shown
  <2> QED
    BY <2>2, <2>3
<1>7. BeginOK(d, chats, qas)
  BY BeginGoesOn
<1>8. ListsOK(d, qas) /\ TaleOK(d, qas)
  <2>1. d.got \in Seq(ListGot) /\ DOMAIN d.got = {}
    OBVIOUS
  <2> QED
    BY <1>5, <2>1 DEF ListsOK, TaleOK
<1>9. \A x \in S : ~chats[x].deleted /\ Belongs(d, chats, x)
  BY <1>1, <1>5 DEF Live, Belongs
<1>10. S \intersect d.start.gone.chats = {}
  BY <1>5, <1>7, <1>9 DEF BeginOK, Regular, Listings
<1>11. \A x \in DOMAIN chats : ~chats[x].deleted /\ Belongs(d, chats, x) => x \in S
  BY <1>1, <1>5 DEF Live, Belongs
<1>12. d.req.op = "Login" => d.req.chat \in DOMAIN chats /\ (Belongs(d, chats, d.req.chat) \/ d.req.chat \in moved)
  BY <1>5 DEF ShownOK, Belongs
<1>13. d.step = "qas" => d.todo \in Seq(Nat) /\ d.todo # <<>>
  BY <1>4
<1>14. ShownOK(d, chats, moved)
  <2>1. d.step # "list"
    OBVIOUS
  <2> QED
    BY <1>2, <1>6, <1>9, <1>10, <1>11, <1>12, <1>13, <2>1 DEF ShownOK
<1> QED
  BY <1>7, <1>8, <1>14 DEF ReadOK


LEMMA GotIs ==
  ASSUME NEW chat \in Nat, NEW list \in Seq(Nat)
  PROVE  \E p \in ListGot : p = [chat |-> chat, qas |-> list] /\ p.chat = chat /\ p.qas = list
<1>1. PICK p : p = [chat |-> chat, qas |-> list]
  OBVIOUS
<1>2. p \in ListGot /\ p.chat = chat /\ p.qas = list
  BY <1>1 DEF ListGot
<1> QED
  BY <1>1, <1>2

ChatsOf(got) == {got[i].chat : i \in DOMAIN got}

\* The list of another chat comes last.
GotMore(got, chat, list, more) ==
  /\ more \in Seq(ListGot) /\ ChatsOf(more) = ChatsOf(got) \union {chat}
  /\ \A i \in DOMAIN more : (i \in DOMAIN got /\ more[i] = got[i]) \/ (more[i].chat = chat /\ more[i].qas = list)

LEMMA GotAppended ==
  ASSUME NEW got \in Seq(ListGot), NEW chat \in Nat, NEW list \in Seq(Nat), NEW more,
         more = Append(got, [chat |-> chat, qas |-> list])
  PROVE  GotMore(got, chat, list, more)
<1>1. PICK p \in ListGot : p = [chat |-> chat, qas |-> list] /\ p.chat = chat /\ p.qas = list
  BY GotIs
<1>2. PICK n \in Nat : n = Len(got) /\ DOMAIN got = 1 .. n
  OBVIOUS
<1>3. /\ more \in Seq(ListGot) /\ DOMAIN more = 1 .. n + 1 /\ more[n + 1] = p
      /\ \A i \in 1 .. n : more[i] = got[i]
  BY <1>1, <1>2
<1>4. \A i \in 1 .. n + 1 : i \in 1 .. n \/ i = n + 1
  BY <1>2
<1>5. n + 1 \in 1 .. n + 1 /\ 1 .. n \subseteq 1 .. n + 1
  BY <1>2
<1>6. {more[i].chat : i \in 1 .. n + 1} = {got[i].chat : i \in 1 .. n} \union {chat}
  BY <1>1, <1>3, <1>4, <1>5
<1> QED
  BY <1>1, <1>2, <1>3, <1>4, <1>6 DEF GotMore, ChatsOf

\* The QAs of the next chat.
LEMMA NextQAsRead ==
  ASSUME IInv, NEW c, NEW d, NEW moved, SameCall(c, d), c.req.op \in {"GetUserChats", "Login"},
         ReadOK(c, chats, qas, moved), c.step = "qas",
         NEW chat, chat = Head(c.todo), NEW list \in ListChatIdQAs(chat),
         d.got = Append(c.got, [chat |-> chat, qas |-> list]),
         IF Len(c.todo) = 1 THEN d.step = "done" ELSE d.step = "qas" /\ d.todo = Tail(c.todo)
  PROVE  ReadOK(d, chats, qas, moved)
<1>1. BeginOK(c, chats, qas) /\ ListsOK(c, qas) /\ ShownOK(c, chats, moved)
  BY DEF ReadOK
<1>2. d.req = c.req /\ d.start = c.start
  BY DEF SameCall
<1>3. c.todo \in Seq(Nat) /\ c.todo # <<>>
  BY <1>1 DEF ShownOK
<1>4. chat \in Nat /\ c.got \in Seq(ListGot)
  <2>1. chat \in Nat
    BY <1>3
  <2> QED
    BY <1>1, <2>1 DEF ListsOK, Regular, Listings
<1>5. ListOK(c, qas, chat, list) /\ list \in Seq(Nat)
  BY <1>1, <1>4, ListRead DEF Regular, Listings
<1>6. /\ d.got \in Seq(ListGot) /\ ChatsOf(d.got) = ChatsOf(c.got) \union {chat}
      /\ \A i \in DOMAIN d.got :
           (i \in DOMAIN c.got /\ d.got[i] = c.got[i]) \/ (d.got[i].chat = chat /\ d.got[i].qas = list)
  <2>1. GotMore(c.got, chat, list, d.got)
    BY <1>4, <1>5, GotAppended
  <2> QED
    BY <2>1 DEF GotMore
<1>7. BeginOK(d, chats, qas)
  BY <1>1, BeginGoesOn
<1>8. ListsOK(d, qas) /\ TaleOK(d, qas)
  <2>1. \A i \in DOMAIN c.got : ListOK(c, qas, c.got[i].chat, c.got[i].qas)
    BY <1>1 DEF ListsOK, Regular, Listings
  <2>2. \A i \in DOMAIN d.got : ListOK(c, qas, d.got[i].chat, d.got[i].qas)
    BY <1>5, <1>6, <2>1
  <2>3. \A i \in DOMAIN d.got : ListOK(d, qas, d.got[i].chat, d.got[i].qas)
    BY <1>2, <2>2 DEF ListOK, Kept, InOrder
  <2> QED
    BY <1>2, <1>6, <2>3 DEF ListsOK, TaleOK
<1>9. Shown(d) = Shown(c)
  <2>1. PICK G : G = ChatsOf(c.got)
    OBVIOUS
  <2>2. Shown(c) = G \union ToSet(c.todo)
    BY <2>1 DEF Shown, ChatsOf
  <2>3. PICK n \in Nat : n = Len(c.todo) /\ DOMAIN c.todo = 1 .. n /\ n # 0
    BY <1>3
  <2>4. CASE n = 1
    <3>1. ToSet(c.todo) = {chat}
      BY <1>3, <2>3, <2>4 DEF ToSet
    <3>2. Shown(d) = G \union {chat}
      BY <1>6, <2>1, <2>3, <2>4 DEF Shown, ChatsOf
    <3> QED
      BY <2>2, <3>1, <3>2
  <2>5. CASE n # 1
    <3>1. PICK rest : rest = Tail(c.todo) /\ d.todo = rest /\ d.step = "qas"
      BY <2>3, <2>5
    <3>2. ToSet(c.todo) = {chat} \union ToSet(rest)
      <4>1. DOMAIN rest = 1 .. n - 1 /\ \A i \in 1 .. n - 1 : rest[i] = c.todo[i + 1]
        BY <1>3, <2>3, <3>1
      <4>2. c.todo[1] = chat /\ 1 \in 1 .. n
        BY <1>3, <2>3
      <4>3. \A i \in 1 .. n : i = 1 \/ (i - 1 \in 1 .. n - 1 /\ rest[i - 1] = c.todo[i])
        BY <2>3, <4>1
      <4>4. \A i \in 1 .. n - 1 : i + 1 \in 1 .. n
        BY <2>3
      <4>5. ToSet(c.todo) = {c.todo[i] : i \in 1 .. n} /\ ToSet(rest) = {rest[i] : i \in 1 .. n - 1}
        BY <2>3, <4>1 DEF ToSet
      <4> QED
        BY <4>1, <4>2, <4>3, <4>4, <4>5
    <3>3. Shown(d) = (G \union {chat}) \union ToSet(rest)
      BY <1>6, <2>1, <3>1 DEF Shown, ChatsOf
    <3> QED
      BY <2>2, <3>2, <3>3
  <2> QED
    BY <2>4, <2>5
<1>10. d.step = "qas" => d.todo \in Seq(Nat) /\ d.todo # <<>>
  <2>1. CASE Len(c.todo) = 1
    BY <2>1
  <2>2. CASE Len(c.todo) # 1
    <3>1. Tail(c.todo) \in Seq(Nat) /\ Tail(c.todo) # <<>>
      <4>1. Len(c.todo) \in Nat /\ Len(c.todo) # 0
        BY <1>3
      <4> QED
        BY <1>3, <2>2, <4>1, TailIs
    <3> QED
      BY <2>2, <3>1
  <2> QED
    BY <2>1, <2>2
<1>11. ShownOK(d, chats, moved)
  <2>1. d.step # "list"
    BY DEF SameCall
  <2>2. \A x : Belongs(d, chats, x) <=> Belongs(c, chats, x)
    BY <1>2 DEF Belongs
  <2>3. PICK wanted : wanted = IF c.req.op = "Login" THEN {c.req.chat} ELSE c.start.chats
    OBVIOUS
  <2>4. /\ Shown(c) \subseteq DOMAIN chats /\ Shown(c) \intersect c.start.gone.chats = {}
        /\ \A x \in Shown(c) : Belongs(c, chats, x) \/ x \in moved
        /\ \A x \in wanted : x \in DOMAIN chats /\ ~chats[x].deleted /\ x \notin moved /\ Belongs(c, chats, x) => x \in Shown(c)
        /\ c.req.op = "Login" => c.req.chat \in DOMAIN chats /\ (Belongs(c, chats, c.req.chat) \/ c.req.chat \in moved)
    BY <1>1, <2>3 DEF ShownOK
  <2>5. wanted = IF d.req.op = "Login" THEN {d.req.chat} ELSE d.start.chats
    BY <1>2, <2>3
  <2> QED
    BY <1>2, <1>9, <1>10, <2>1, <2>2, <2>4, <2>5 DEF ShownOK
<1> QED
  BY <1>7, <1>8, <1>11 DEF ReadOK

\* The QAs of a chat.
LEMMA QAsRead ==
  ASSUME IInv, NEW c, NEW d, NEW moved, SameCall(c, d), c.req \in Request, c.req.op \in {"ListChatQAs", "GetQAs"},
         BeginOK(c, chats, qas), NEW list,
         IF c.req.op = "ListChatQAs" THEN list \in ListChatQAs(c.req.session, c.req.chat)
         ELSE list \in ListChatIdQAs(c.req.chat),
         d.step = "done", d.got = <<[chat |-> c.req.chat, qas |-> list]>>
  PROVE  ReadOK(d, chats, qas, moved)
<1>1. d.req = c.req /\ d.start = c.start
  BY DEF SameCall
<1>2. PICK chat \in Nat : chat = c.req.chat
  BY DEF Request
<1>3. ListOK(c, qas, chat, list) /\ list \in Seq(Nat)
  BY <1>2, ListRead DEF Regular, Listings
<1>4. BeginOK(d, chats, qas)
  BY BeginGoesOn
<1>5. ListOK(d, qas, chat, list)
  BY <1>1, <1>3 DEF ListOK, Kept, InOrder
<1>6. d.got \in Seq(ListGot) /\ \A i \in DOMAIN d.got : d.got[i].chat = chat /\ d.got[i].qas = list
  <2>1. PICK p \in ListGot : p = [chat |-> chat, qas |-> list] /\ p.chat = chat /\ p.qas = list
    BY <1>3, GotIs
  <2>2. d.got = <<p>>
    BY <1>2, <2>1
  <2> QED
    BY <2>1, <2>2
<1>7. ListsOK(d, qas) /\ ShownOK(d, chats, moved) /\ TaleOK(d, qas)
  BY <1>1, <1>5, <1>6 DEF ListsOK, ShownOK, TaleOK
<1> QED
  BY <1>4, <1>7 DEF ReadOK

\* A chat that is given to the user.
LEMMA ChatMoved ==
  ASSUME NEW c, NEW d, NEW cs, NEW qs, NEW moved, SameCall(c, d), c.req.op = "Login", BeginOK(c, cs, qs),
         c.req.chat \in DOMAIN cs, cs[c.req.chat].user = c.req.user, d.step = "list", d.got = <<>>
  PROVE  ReadOK(d, cs, qs, moved)
<1>1. d.req = c.req
  BY DEF SameCall
<1>2. BeginOK(d, cs, qs)
  BY BeginGoesOn
<1>3. d.got \in Seq(ListGot) /\ DOMAIN d.got = {}
  OBVIOUS
<1>4. ListsOK(d, qs) /\ TaleOK(d, qs)
  BY <1>1, <1>3 DEF ListsOK, TaleOK
<1>5. ShownOK(d, cs, moved)
  BY <1>1 DEF ShownOK, Belongs, IsSuccess
<1> QED
  BY <1>2, <1>4, <1>5 DEF ReadOK

\* A history that is read, and one that is not.
LEMMA HistoryRead ==
  ASSUME IInv, NEW c, NEW d, NEW moved, SameCall(c, d), c.req \in Request, c.req.op = "Ask", ReadOK(c, chats, qas, moved),
         c.step = "history", d.step = "record",
         \/ d.failed /\ d.got = c.got
         \/ IF c.req.mode = "multi"
            THEN \E list \in ListChatIdQAsLimit(c.req.chat, HistoryLimit) :
                   d.got = FlattenSeq([i \in DOMAIN list |-> <<Message(list[i], "answer"), Message(list[i], "question")>>])
            ELSE \E list \in AnsweredQAs(c.req.session, c.req.chat) :
                   d.got = Reverse(FlattenSeq([i \in DOMAIN list |-> Backwards(list[Len(list) + 1 - i])]))
  PROVE  ReadOK(d, chats, qas, moved)
<1>1. d.req = c.req /\ BeginOK(c, chats, qas) /\ TaleOK(c, qas)
  BY DEF ReadOK, SameCall
<1>0. c.req.mode \in {"history", "multi"}
  <2>1. c.req.mode \in {"single", "history", "multi"}
    BY DEF Request
  <2> QED
    BY <1>1, <2>1 DEF BeginOK, Regular, Listings
<1>2. BeginOK(d, chats, qas)
  BY <1>1, BeginGoesOn
<1>3. ListsOK(d, qas) /\ ShownOK(d, chats, moved)
  BY <1>1 DEF ListsOK, ShownOK
<1>4. TaleOK(d, qas)
  <2>1. CASE d.failed /\ d.got = c.got
    BY <1>1, <2>1, TaleGoesOn
  <2>2. CASE c.req.mode = "multi" /\ ~(d.failed /\ d.got = c.got)
    <3>1. PICK list \in ListChatIdQAsLimit(d.req.chat, HistoryLimit) :
            d.got = FlattenSeq([i \in DOMAIN list |-> <<Message(list[i], "answer"), Message(list[i], "question")>>])
      BY <1>1, <2>2
    <3> QED
      BY <1>1, <1>2, <2>2, <3>1, MultiRead
  <2>3. CASE c.req.mode # "multi" /\ ~(d.failed /\ d.got = c.got)
    <3>1. PICK list \in AnsweredQAs(d.req.session, d.req.chat) :
            d.got = Reverse(FlattenSeq([i \in DOMAIN list |-> Backwards(list[Len(list) + 1 - i])]))
      BY <1>1, <2>3
    <3> QED
      BY <1>0, <1>1, <1>2, <2>3, <3>1, ChatRead
  <2> QED
    BY <2>1, <2>2, <2>3
<1> QED
  BY <1>2, <1>3, <1>4 DEF ReadOK


---------------------------------------------------------------------------
(* What is read stays regular.                                             *)

FieldsAre(d, c, step, reply, failed, got, todo) ==
  SameCall(c, d) /\ d.step = step /\ d.reply = reply /\ d.failed = failed /\ d.got = got /\ d.todo = todo

LEMMA Became ==
  ASSUME Calls, NEW s \in Slot, NEW c, c = calls[s],
         NEW step, NEW reply, NEW failed, NEW got, NEW todo, Becomes(s, GoneOn(c, step, reply, failed, got, todo))
  PROVE  FieldsAre(calls'[s], c, step, reply, failed, got, todo)
<1>1. PICK d : d = GoneOn(c, step, reply, failed, got, todo)
  OBVIOUS
<1>2. /\ d.req = c.req /\ d.start = c.start /\ d.step = step /\ d.reply = reply /\ d.failed = failed
      /\ d.got = got /\ d.todo = todo
  BY ONLY <1>1, Fields DEF GoneOn
<1>3. calls' = [calls EXCEPT ![s] = d]
  BY <1>1 DEF Becomes
<1>4. calls'[s] = d
  BY <1>3, SetCall
<1> QED
  BY <1>2, <1>4 DEF SameCall, FieldsAre

\* The chat a call may give away.
Given(s) == IF calls[s].req.op = "Login" THEN {calls[s].req.chat} ELSE {}

LEMMA ChatsStay ==
  ASSUME UNCHANGED chats, NEW M
  PROVE  ChatsGoOn(chats, chats', M)
  BY DEF ChatsGoOn

LEMMA ChatGoesOn ==
  ASSUME chats \in Seq(ChatRow), NEW x \in DOMAIN chats, NEW row, chats' = [chats EXCEPT ![x] = row], NEW M,
         row.session = chats[x].session, chats[x].deleted => row.deleted, row.user = chats[x].user \/ x \in M
  PROVE  ChatsGoOn(chats, chats', M)
<1>1. chats'[x] = row /\ DOMAIN chats' = DOMAIN chats /\ \A y \in DOMAIN chats \ {x} : chats'[y] = chats[y]
  OBVIOUS
<1> QED
  BY <1>1 DEF ChatsGoOn

LEMMA UpdateGoesOn ==
  ASSUME chats \in Seq(ChatRow), NEW x \in DOMAIN chats, NEW column \in {"title", "user"}, NEW value,
         UpdateChat(x, column, value), NEW M, column = "user" => x \in M
  PROVE  ChatsGoOn(chats, chats', M) /\ (column = "user" => chats'[x].user = value)
<1> DEFINE row == [chats[x] EXCEPT !.updated = clock, ![column] = value]
<1>1. chats[x] \in ChatRow
  OBVIOUS
<1>2. /\ row.session = chats[x].session /\ row.deleted = chats[x].deleted
      /\ IF column = "user" THEN row.user = value ELSE row.user = chats[x].user
  <2>1. CASE column = "title"
    BY <1>1, <2>1 DEF ChatRow
  <2>2. CASE column = "user"
    BY <1>1, <2>2 DEF ChatRow
  <2> QED
    BY <2>1, <2>2
<1>3. chats' = [chats EXCEPT ![x] = row]
  BY DEF UpdateChat
<1> HIDE DEF row
<1>4. chats'[x] = row
  BY <1>3
<1>5. ChatsGoOn(chats, chats', M)
  BY <1>2, <1>3, ChatGoesOn
<1> QED
  BY <1>2, <1>4, <1>5

LEMMA ServeKeepsChats ==
  ASSUME IInv, NEW s \in Slot, Serve(s) \/ Convert(s)
  PROVE  ChatsGoOn(chats, chats', Given(s))
<1>1. chats \in Seq(ChatRow)
  BY Facts DEF ChatsOK
<1>2. CASE CreateChat(s)
  <2>1. PICK row : chats' = Append(chats, row)
    BY <1>2 DEF CreateChat, NewChat
  <2>2. PICK n \in Nat : n = Len(chats) /\ DOMAIN chats = 1 .. n
    BY <1>1
  <2>3. DOMAIN chats' = 1 .. n + 1 /\ \A x \in 1 .. n : chats'[x] = chats[x]
    BY <1>1, <2>1, <2>2
  <2>4. 1 .. n \subseteq 1 .. n + 1
    BY <2>2
  <2> QED
    BY <2>2, <2>3, <2>4 DEF ChatsGoOn
<1>3. CASE Delete(s)
  <2>1. CASE Live(calls[s].req.chat) /\ DeleteChat(calls[s].req.chat)
    <3>1. PICK x \in DOMAIN chats : DeleteChat(x)
      BY <2>1 DEF Live
    <3>2. PICK row : row = [chats[x] EXCEPT !.deleted = TRUE]
      OBVIOUS
    <3>3. chats' = [chats EXCEPT ![x] = row]
      BY <3>1, <3>2 DEF DeleteChat
    <3>4. chats[x] \in ChatRow
      BY <1>1
    <3>5. row.session = chats[x].session /\ row.deleted /\ row.user = chats[x].user
      BY <3>2, <3>4 DEF ChatRow
    <3> QED
      BY <1>1, <3>3, <3>5, ChatGoesOn
  <2>2. CASE UNCHANGED chats
    BY <2>2, ChatsStay
  <2> QED
    BY <1>3, <2>1, <2>2 DEF Delete, Req
<1>4. CASE UpdateChatTitle(s)
  <2>1. CASE Live(calls[s].req.chat) /\ UpdateChat(calls[s].req.chat, "title", calls[s].req.title)
    BY <1>1, <2>1, UpdateGoesOn DEF Live
  <2>2. CASE UNCHANGED chats
    BY <2>2, ChatsStay
  <2> QED
    BY <1>4, <2>1, <2>2 DEF UpdateChatTitle, Affects, Req
<1>5. CASE Move(s)
  <2>1. CASE Live(calls[s].req.chat) /\ UpdateChat(calls[s].req.chat, "user", calls[s].req.user)
    <3>1. calls[s].req.chat \in Given(s)
      BY <1>5 DEF Given, Move, At, Req
    <3> QED
      BY <1>1, <2>1, <3>1, UpdateGoesOn DEF Live
  <2>2. CASE UNCHANGED chats
    BY <2>2, ChatsStay
  <2> QED
    BY <1>5, <2>1, <2>2 DEF Move, Affects, Req
<1>6. CASE \/ ListOfChats(s) \/ ListOfQAs(s) \/ Statistic(s) \/ ListUserChats(s) \/ ListQAsOfNext(s) \/ Count(s)
           \/ ListPage(s) \/ FindFiles(s) \/ Poll(s) \/ Convert(s)
  <2>1. Read(s)
    BY <1>6 DEF ListOfChats, ListOfQAs, Statistic, ListUserChats, ListQAsOfNext, Count, ListPage, FindFiles, Poll, Convert
  <2> QED
    BY <2>1, ChatsStay DEF Read, tables
<1>7. CASE History(s) \/ DiskFails(s) \/ FindUpload(s) \/ Embed(s) \/ Fails(s)
  <2>1. UNCHANGED tables
    BY <1>7 DEF History, DiskFails, FindUpload, Embed, Fails
  <2> QED
    BY <2>1, ChatsStay DEF tables
<1>8. CASE ParseFile(s) \/ WriteUploadFiles(s) \/ DeleteRows(s) \/ Record(s) \/ WriteUploadQA(s)
  <2>1. UNCHANGED chats
    BY <1>8 DEF ParseFile, WriteUploadFiles, DeleteRows, Record, WriteUploadQA
  <2> QED
    BY <2>1, ChatsStay
<1> QED
  BY <1>2, <1>3, <1>4, <1>5, <1>6, <1>7, <1>8 DEF Serve

\* A request that reads takes only these steps.
LEMMA ReadTakes ==
  ASSUME IInv, NEW s \in Slot, Serve(s) \/ Convert(s), calls[s].req.op \in Regular
  PROVE  \/ ListOfChats(s) \/ ListOfQAs(s) \/ Move(s) \/ ListUserChats(s) \/ ListQAsOfNext(s)
         \/ History(s) \/ Record(s) \/ (Fails(s) /\ calls[s].step \notin {"idle", "done"})
<1>1. StepFits(calls[s].req.op, calls[s].step)
  BY Facts DEF CallOK
<1>2. calls[s].req.op \in {"GetUserChats", "Login", "GetQAs", "ListChats", "ListChatQAs", "Ask"}
  BY DEF Regular, Listings
<1>3. calls[s].step \notin {"parse", "rows", "qa", "upload", "files", "embed", "poll"}
  BY <1>1, <1>2 DEF StepFits
<1>4. ~CreateChat(s) /\ ~Delete(s) /\ ~UpdateChatTitle(s) /\ ~Count(s) /\ ~ListPage(s) /\ ~DeleteRows(s)
      /\ ~Statistic(s) /\ ~DiskFails(s)
  BY <1>2 DEF CreateChat, Delete, UpdateChatTitle, Count, ListPage, DeleteRows, Statistic, DiskFails, At, Req
<1>5. ~ParseFile(s) /\ ~WriteUploadFiles(s) /\ ~WriteUploadQA(s)
  BY <1>3 DEF ParseFile, WriteUploadFiles, WriteUploadQA
<1>6. ~FindUpload(s) /\ ~FindFiles(s) /\ ~Embed(s) /\ ~Poll(s) /\ ~Convert(s)
  BY <1>3 DEF FindUpload, FindFiles, Embed, Poll, Convert
<1>7. calls[s].step \notin OwnErrors => calls[s].step \notin {"idle", "done"}
  BY DEF OwnErrors
<1> QED
  BY <1>4, <1>5, <1>6, <1>7 DEF Serve


\* The call of the step, before the tables change.
LEMMA ReadStep ==
  ASSUME IInv, NEW s \in Slot, NEW moved, ReadOK(calls[s], chats, qas, moved), calls[s].req.op \in Regular,
         \/ ListOfChats(s) \/ ListOfQAs(s) \/ ListUserChats(s) \/ ListQAsOfNext(s) \/ History(s)
         \/ (Move(s) /\ Return(s, <<500, 200>>)) \/ Record(s) \/ (Fails(s) /\ calls[s].step \notin {"idle", "done"})
  PROVE  ReadOK(calls'[s], chats, qas, moved)
<1>1. Calls /\ IsCall(calls[s]) /\ CallOK(calls[s])
  BY Facts
<1>2. PICK c, d : c = calls[s] /\ d = calls'[s]
  OBVIOUS
<1>3. ReadOK(c, chats, qas, moved) /\ BeginOK(c, chats, qas) /\ ShownOK(c, chats, moved)
  BY <1>2 DEF ReadOK
<1>4. c.req \in Request
  <2>1. c.req \in Request \union {Idle.req} /\ Idle.req.op = "none"
    BY <1>1, <1>2 DEF CallOK, Idle
  <2> QED
    BY <1>2, <2>1 DEF Regular, Listings
<1>5. ASSUME NEW st, Return(s, st)
      PROVE  /\ SameCall(c, d) /\ d.step = "done" /\ d.reply = c.reply \o st
             /\ d.failed = c.failed /\ d.got = c.got
  <2>1. PICK reply : reply = c.reply \o st
    OBVIOUS
  <2>2. Becomes(s, GoneOn(c, "done", reply, c.failed, c.got, c.todo))
    BY <1>1, <1>2, <1>5, <2>1, ReturnIs
  <2>3. FieldsAre(d, c, "done", reply, c.failed, c.got, c.todo)
    BY <1>1, <1>2, <2>2, Became
  <2> QED
    BY <2>1, <2>3 DEF FieldsAre
<1>6. ASSUME NEW got, SucceedWith(s, got) PROVE SameCall(c, d) /\ d.step = "done" /\ d.got = got
  <2>1. PICK reply : reply = c.reply \o <<Status(c.req.op)>>
    OBVIOUS
  <2>2. Becomes(s, GoneOn(c, "done", reply, c.failed, got, c.todo))
    BY <1>1, <1>2, <1>6, <2>1, SucceedWithIs
  <2>3. FieldsAre(d, c, "done", reply, c.failed, got, c.todo)
    BY <1>1, <1>2, <2>2, Became
  <2> QED
    BY <2>3 DEF FieldsAre
<1>7. ASSUME NEW step, NEW got, NEW todo, Continue(s, step, got, todo)
      PROVE  SameCall(c, d) /\ d.step = step /\ d.got = got /\ d.todo = todo
  <2>1. Becomes(s, GoneOn(c, step, c.reply, c.failed, got, todo))
    BY <1>1, <1>2, <1>7, ContinueIs
  <2>2. FieldsAre(d, c, step, c.reply, c.failed, got, todo)
    BY <1>1, <1>2, <2>1, Became
  <2> QED
    BY <2>2 DEF FieldsAre
<1>8. ASSUME NEW st \in Seq(Nat), st # <<>>, Head(st) \notin 200 .. 299, c.step \notin {"idle", "done"},
             d.reply = c.reply \o st
      PROVE  ~IsSuccess(d)
  <2>1. c.reply \in Seq(Nat) /\ (c.reply # <<>> => Head(c.reply) \notin 200 .. 299)
    BY <1>1, <1>2, <1>8 DEF CallOK
  <2>2. Head(d.reply) = IF c.reply = <<>> THEN Head(st) ELSE Head(c.reply)
    BY <1>8, <2>1, HeadOf
  <2> QED
    BY <2>1, <2>2, <1>8 DEF IsSuccess
<1>9. CASE ListOfChats(s)
  <2>1. c.req.op = "ListChats"
    BY <1>2, <1>9 DEF ListOfChats, At, Req
  <2>2. PICK list \in ListChats(c.req.session) :
          SucceedWith(s, [i \in DOMAIN list |-> [chat |-> list[i], qas |-> <<>>]])
    BY <1>2, <1>9 DEF ListOfChats, Req
  <2>3. PICK got : got = [i \in DOMAIN list |-> [chat |-> list[i], qas |-> <<>>]]
    OBVIOUS
  <2>4. SameCall(c, d) /\ d.step = "done" /\ d.got = got
    BY <1>6, <2>2, <2>3
  <2>5. ReadOK(d, chats, qas, moved)
    BY <1>3, <2>1, <2>3, <2>4, ChatsRead
  <2> QED
    BY <1>2, <2>5
<1>10. CASE ListOfQAs(s)
  <2>1. c.req.op \in {"ListChatQAs", "GetQAs"}
    BY <1>2, <1>10 DEF ListOfQAs, At, Req
  <2>2. PICK list :
          /\ IF c.req.op = "ListChatQAs" THEN list \in ListChatQAs(c.req.session, c.req.chat)
             ELSE list \in ListChatIdQAs(c.req.chat)
          /\ SucceedWith(s, <<[chat |-> c.req.chat, qas |-> list]>>)
    BY <1>2, <1>10 DEF ListOfQAs, At, Req
  <2>3. PICK got : got = <<[chat |-> c.req.chat, qas |-> list]>>
    OBVIOUS
  <2>4. SameCall(c, d) /\ d.step = "done" /\ d.got = got
    BY <1>6, <2>2, <2>3
  <2>5. ReadOK(d, chats, qas, moved)
    BY <1>3, <1>4, <2>1, <2>2, <2>3, <2>4, QAsRead
  <2> QED
    BY <1>2, <2>5
<1>11. CASE ListUserChats(s)
  <2>1. c.step = "list" /\ c.req.op \in {"GetUserChats", "Login"} /\ c.got = <<>>
    <3>1. c.step = "list"
      BY <1>2, <1>11 DEF ListUserChats
    <3>2. c.req.op \in {"GetUserChats", "Login"}
      BY <1>1, <1>2, <3>1 DEF CallOK, StepFits
    <3> QED
      BY <1>2, <1>3, <3>1, <3>2 DEF BeginOK
  <2>2. PICK list \in ListChatsUser(c.req.user) :
          IF list = <<>> THEN Succeed(s) ELSE Continue(s, "qas", <<>>, list)
    BY <1>2, <1>11 DEF ListUserChats, Req
  <2>3. /\ SameCall(c, d) /\ d.got = <<>>
        /\ IF list = <<>> THEN d.step = "done" ELSE d.step = "qas" /\ d.todo = list
    <3>1. CASE list = <<>>
      <4>1. PICK st : Return(s, st)
        BY <2>2, <3>1 DEF Succeed
      <4> QED
        BY <1>5, <2>1, <3>1, <4>1
    <3>2. CASE list # <<>>
      <4>1. PICK none : none = <<>>
        OBVIOUS
      <4>2. Continue(s, "qas", none, list)
        BY <2>2, <3>2, <4>1
      <4>3. SameCall(c, d) /\ d.step = "qas" /\ d.got = none /\ d.todo = list
        BY <1>7, <4>2
      <4> QED
        BY <3>2, <4>1, <4>3
    <3> QED
      BY <3>1, <3>2
  <2>4. ReadOK(d, chats, qas, moved)
    BY <1>3, <2>1, <2>3, UserChatsRead
  <2> QED
    BY <1>2, <2>4
<1>12. CASE ListQAsOfNext(s)
  <2>1. c.step = "qas" /\ c.req.op \in {"GetUserChats", "Login"}
    <3>1. c.step = "qas"
      BY <1>2, <1>12 DEF ListQAsOfNext
    <3> QED
      BY <1>1, <1>2, <3>1 DEF CallOK, StepFits
  <2>2. PICK chat : chat = Head(c.todo)
    OBVIOUS
  <2>3. PICK list \in ListChatIdQAs(chat) :
          LET got == Append(c.got, [chat |-> chat, qas |-> list])
          IN  IF Len(c.todo) = 1 THEN SucceedWith(s, got) ELSE Continue(s, "qas", got, Tail(c.todo))
    BY <1>2, <1>12, <2>2 DEF ListQAsOfNext
  <2>4. PICK got, rest : got = Append(c.got, [chat |-> chat, qas |-> list]) /\ rest = Tail(c.todo)
    OBVIOUS
  <2>5. IF Len(c.todo) = 1 THEN SucceedWith(s, got) ELSE Continue(s, "qas", got, rest)
    BY <2>3, <2>4
  <2>6. /\ SameCall(c, d) /\ d.got = got
        /\ IF Len(c.todo) = 1 THEN d.step = "done" ELSE d.step = "qas" /\ d.todo = rest
    BY <1>6, <1>7, <2>5
  <2>7. ReadOK(d, chats, qas, moved)
    BY <1>3, <2>1, <2>2, <2>4, <2>6, NextQAsRead
  <2> QED
    BY <1>2, <2>7
<1>13. CASE History(s)
  <2>1. c.step = "history" /\ c.req.op = "Ask"
    BY <1>2, <1>13 DEF History, At, Req
  <2>2. CASE \E h \in IF Req(s).mode = "multi" THEN MultiHistory(s) ELSE ChatHistory(s) : Continue(s, "record", h, <<>>)
    <3>1. PICK h, none : /\ h \in IF c.req.mode = "multi" THEN MultiHistory(s) ELSE ChatHistory(s)
                         /\ Continue(s, "record", h, none)
      BY <1>2, <2>2 DEF Req
    <3>2. SameCall(c, d) /\ d.step = "record" /\ d.got = h
      BY <1>7, <3>1
    <3>4. IF c.req.mode = "multi"
          THEN \E list \in ListChatIdQAsLimit(c.req.chat, HistoryLimit) :
                 h = FlattenSeq([i \in DOMAIN list |-> <<Message(list[i], "answer"), Message(list[i], "question")>>])
          ELSE \E list \in AnsweredQAs(c.req.session, c.req.chat) :
                 h = Reverse(FlattenSeq([i \in DOMAIN list |-> Backwards(list[Len(list) + 1 - i])]))
      BY <1>2, <3>1 DEF MultiHistory, ChatHistory, Req
    <3>5. ReadOK(d, chats, qas, moved)
      BY <1>3, <1>4, <2>1, <3>2, <3>4, HistoryRead
    <3> QED
      BY <1>2, <3>5
  <2>3. CASE calls' = [calls EXCEPT ![s].step = "record", ![s].failed = TRUE]
    <3>1. PICK fl, rec : fl = TRUE /\ rec = "record"
      OBVIOUS
    <3>2. calls' = [calls EXCEPT ![s] = [c EXCEPT !.step = rec, !.failed = fl]]
      BY <1>1, <1>2, <2>3, <3>1 DEF Calls
    <3>3. Becomes(s, GoneOn(c, rec, c.reply, fl, c.got, c.todo))
      BY <1>1, <1>2, <3>2, SetStepFailed DEF Becomes
    <3>4. SameCall(c, d) /\ d.step = rec /\ d.failed = fl /\ d.got = c.got
      <4>1. FieldsAre(d, c, rec, c.reply, fl, c.got, c.todo)
        BY <1>1, <1>2, <3>3, Became
      <4> QED
        BY <4>1 DEF FieldsAre
    <3>5. ReadOK(d, chats, qas, moved)
      BY <1>3, <1>4, <2>1, <3>1, <3>4, HistoryRead
    <3> QED
      BY <1>2, <3>5
  <2> QED
    BY <1>13, <2>2, <2>3 DEF History
<1>14. CASE Move(s) /\ Return(s, <<500, 200>>)
  <2>1. c.step = "move" /\ c.req.op = "Login"
    BY <1>2, <1>14 DEF Move, At, Req
  <2>2. PICK st : st = <<500, 200>> /\ Return(s, st)
    BY <1>14
  <2>3. SameCall(c, d) /\ d.step = "done" /\ d.reply = c.reply \o st /\ d.got = c.got
    BY <1>5, <2>2
  <2>6. st \in Seq(Nat) /\ st # <<>> /\ Head(st) \notin 200 .. 299
    BY <2>2
  <2>4. ~IsSuccess(d)
    BY <1>8, <2>1, <2>6, <2>3
  <2>5. ReadOK(d, chats, qas, moved)
    BY <1>3, <2>3, <2>4, ReadEnds
  <2> QED
    BY <1>2, <2>5
<1>15. CASE Record(s)
  <2>1. c.step = "record" /\ \E st : Return(s, st)
    BY <1>2, <1>15 DEF Record, Succeed
  <2>2. c.req.op = "Ask"
    <3>1. c.req.op \in {"Ask", "AskFile"}
      BY <1>2, <1>15 DEF Record, Req
    <3> QED
      BY <1>2, <3>1 DEF Regular, Listings
  <2>3. SameCall(c, d) /\ d.step = "done" /\ d.failed = c.failed /\ d.got = c.got
    BY <1>5, <2>1
  <2>4. ReadOK(d, chats, qas, moved)
    BY <1>3, <2>1, <2>2, <2>3, ReadEnds
  <2> QED
    BY <1>2, <2>4
<1>16. CASE Fails(s) /\ calls[s].step \notin {"idle", "done"}
  <2>1. PICK st : st = WithError(c.req.op, 500)
    OBVIOUS
  <2>2. st \in Seq(Nat) /\ st # <<>> /\ Head(st) \notin 200 .. 299
    <3>1. PICK n \in Nat : n = Status(c.req.op)
      BY StatusIs
    <3> QED
      BY <2>1, <3>1, ErrorsAre DEF WithError
  <2>3. EndsFailed(s, st)
    BY <1>2, <1>16, <2>1 DEF Fails, EndsFailed, Req
  <2>4. PICK fl, reply : fl = TRUE /\ reply = c.reply \o st
    OBVIOUS
  <2>5. Becomes(s, GoneOn(c, "done", reply, fl, c.got, c.todo))
    BY <1>1, <1>2, <2>3, <2>4, FailsIs
  <2>6. SameCall(c, d) /\ d.step = "done" /\ d.reply = reply /\ d.got = c.got
    <3>1. FieldsAre(d, c, "done", reply, fl, c.got, c.todo)
      BY <1>1, <1>2, <2>5, Became
    <3> QED
      BY <3>1 DEF FieldsAre
  <2>7. ~IsSuccess(d)
    BY <1>2, <1>8, <1>16, <2>2, <2>4, <2>6
  <2>8. ReadOK(d, chats, qas, moved)
    BY <1>3, <2>4, <2>6, <2>7, ReadEnds
  <2> QED
    BY <1>2, <2>8
<1> QED
  BY <1>9, <1>10, <1>11, <1>12, <1>13, <1>14, <1>15, <1>16


LEMMA ServeReads ==
  ASSUME IInv, IInv', NEW s \in Slot, Serve(s) \/ Convert(s), NEW moved, ReadOK(calls[s], chats, qas, moved)
  PROVE  ReadOK(calls'[s], chats', qas', moved)
<1>1. qas \in Seq(QARow) /\ QAsGoOn(qas, qas') /\ SameRequest(s)
  BY Facts, ServeGoesOn, ServeKeepsRequests DEF QAsOK
<1>2. CASE calls[s].req.op \notin Regular
  <2>1. calls'[s].req.op \notin Regular
    BY <1>1, <1>2 DEF SameRequest
  <2>2. StepFits(calls'[s].req.op, calls'[s].step)
    BY DEF IInv, OneOK, CallOK
  <2>3. calls'[s].step # "qas" /\ calls'[s].req.op \notin {"GetUserChats", "Login", "ListChats", "Ask"}
    BY <2>1, <2>2 DEF StepFits, Regular, Listings
  <2> QED
    BY <2>1, <2>3 DEF ReadOK, BeginOK, ListsOK, ShownOK, TaleOK
<1>3. CASE calls[s].req.op \in Regular /\ Move(s) /\ ~Return(s, <<500, 200>>)
  <2>1. PICK c, d : c = calls[s] /\ d = calls'[s]
    OBVIOUS
  <2>2. /\ Live(c.req.chat) /\ UpdateChat(c.req.chat, "user", c.req.user) /\ Continue(s, "list", <<>>, <<>>)
        /\ c.req.op = "Login"
    BY <1>3, <2>1 DEF Move, Affects, At, Req
  <2>3. chats \in Seq(ChatRow) /\ Calls /\ IsCall(calls[s])
    BY Facts DEF ChatsOK
  <2>4. ChatsGoOn(chats, chats', {c.req.chat}) /\ chats'[c.req.chat].user = c.req.user /\ c.req.chat \in DOMAIN chats'
    <3>1. PICK x \in DOMAIN chats : x = c.req.chat
      BY <2>2 DEF Live
    <3>2. ChatsGoOn(chats, chats', {x}) /\ chats'[x].user = c.req.user
      BY <2>2, <2>3, <3>1, UpdateGoesOn
    <3> QED
      BY <3>1, <3>2 DEF ChatsGoOn
  <2>5. PICK step, none : step = "list" /\ none = <<>>
    OBVIOUS
  <2>6. Continue(s, step, none, none)
    BY <2>2, <2>5
  <2>7. Becomes(s, GoneOn(c, step, c.reply, c.failed, none, none))
    BY <2>1, <2>3, <2>6, ContinueIs
  <2>8. FieldsAre(d, c, step, c.reply, c.failed, none, none)
    BY <2>1, <2>3, <2>7, Became
  <2>9. SameCall(c, d) /\ d.step = "list" /\ d.got = <<>>
    BY <2>5, <2>8 DEF FieldsAre
  <2>10. BeginOK(c, chats', qas')
    <3>1. BeginOK(c, chats, qas)
      BY <2>1 DEF ReadOK
    <3> QED
      BY <1>1, <2>4, <3>1, BeginStays
  <2>11. ReadOK(d, chats', qas', moved)
    BY <2>2, <2>4, <2>9, <2>10, ChatMoved
  <2> QED
    BY <2>1, <2>11
<1>4. CASE calls[s].req.op \in Regular /\ ~(Move(s) /\ ~Return(s, <<500, 200>>))
  <2>1. \/ ListOfChats(s) \/ ListOfQAs(s) \/ ListUserChats(s) \/ ListQAsOfNext(s) \/ History(s)
        \/ (Move(s) /\ Return(s, <<500, 200>>)) \/ Record(s) \/ (Fails(s) /\ calls[s].step \notin {"idle", "done"})
    BY <1>4, ReadTakes
  <2>2. ReadOK(calls'[s], chats, qas, moved)
    BY <1>4, <2>1, ReadStep
  <2>3. UNCHANGED chats
    <3>1. CASE ListOfChats(s) \/ ListOfQAs(s) \/ ListUserChats(s) \/ ListQAsOfNext(s)
      <4>1. Read(s)
        BY <3>1 DEF ListOfChats, ListOfQAs, ListUserChats, ListQAsOfNext
      <4> QED
        BY <4>1 DEF Read, tables
    <3>2. CASE History(s) \/ Fails(s)
      <4>1. UNCHANGED tables
        BY <3>2 DEF History, Fails
      <4> QED
        BY <4>1 DEF tables
    <3>3. CASE Record(s)
      BY <3>3 DEF Record
    <3>4. CASE Move(s) /\ Return(s, <<500, 200>>)
      <4>1. CASE UNCHANGED chats
        BY <4>1
      <4>2. CASE Continue(s, "list", <<>>, <<>>)
        <5>1. Calls /\ IsCall(calls[s])
          BY Facts
        <5>2. PICK c, st, step, none : c = calls[s] /\ st = <<500, 200>> /\ step = "list" /\ none = <<>>
          OBVIOUS
        <5>3. Becomes(s, GoneOn(c, "done", c.reply \o st, c.failed, c.got, c.todo))
          BY <3>4, <5>1, <5>2, ReturnIs
        <5>4. Becomes(s, GoneOn(c, step, c.reply, c.failed, none, none))
          BY <4>2, <5>1, <5>2, ContinueIs
        <5>5. FieldsAre(calls'[s], c, "done", c.reply \o st, c.failed, c.got, c.todo)
          BY <5>1, <5>2, <5>3, Became
        <5>6. FieldsAre(calls'[s], c, step, c.reply, c.failed, none, none)
          BY <5>1, <5>2, <5>4, Became
        <5> QED
          BY <5>2, <5>5, <5>6 DEF FieldsAre
      <4> QED
        BY <3>4, <4>1, <4>2 DEF Move
    <3> QED
      BY <2>1, <3>1, <3>2, <3>3, <3>4
  <2>4. PICK d, none : d = calls'[s] /\ none = {}
    OBVIOUS
  <2>5. ChatsGoOn(chats, chats', none) /\ none \subseteq moved /\ moved \subseteq moved
    BY <2>3, <2>4, ChatsStay
  <2>6. ReadOK(d, chats', qas', moved)
    BY <1>1, <2>2, <2>4, <2>5, ReadStays
  <2> QED
    BY <2>4, <2>6
<1> QED
  BY <1>2, <1>3, <1>4

\* A call that has read nothing yet.
LEMMA ReadBegins ==
  ASSUME NEW d, NEW moved, d.req.op \in Regular => d.start = Start, d.got = <<>>, d.step \notin {"qas"}, ~IsSuccess(d),
         d.req.op = "Login" => d.step # "list", d.step = "history" => d.req.mode # "single",
         d.req.op = "Ask" /\ d.step = "record" => d.req.mode = "single"
  PROVE  ReadOK(d, chats, qas, moved)
<1>1. d.got \in Seq(ListGot) /\ d.got \in Seq(Messages) /\ DOMAIN d.got = {}
  OBVIOUS
<1>2. BeginOK(d, chats, qas)
  <2>1. SUFFICES ASSUME d.req.op \in Regular PROVE BeginOK(d, chats, qas)
    BY DEF BeginOK
  <2>2. /\ d.start.rows = Rows /\ d.start.answered = {q \in Rows : Answered(q)}
        /\ d.start.chats = {x \in DOMAIN chats : Live(x)}
        /\ d.start.gone.chats = {x \in DOMAIN chats : ~Live(x)}
        /\ d.start.gone.qas = {q \in DOMAIN qas : qas[q].row = "deleted"}
    BY <2>1 DEF Start
  <2>3. StartOK(d, qas) /\ \A q \in d.start.answered : q \in d.start.rows /\ qas[q].answered
    BY <2>2 DEF StartOK, Rows, There, Answered
  <2>4. d.start.chats \subseteq DOMAIN chats /\ \A x \in d.start.gone.chats : x \in DOMAIN chats /\ chats[x].deleted
    BY <2>2 DEF Live
  <2> QED
    BY <2>3, <2>4 DEF BeginOK
<1>3. ListsOK(d, qas) /\ ShownOK(d, chats, moved)
  BY <1>1 DEF ListsOK, ShownOK
<1>4. TaleOK(d, qas)
  BY <1>1 DEF TaleOK, TogetherOK, ToldOK, Told, WholeOK
<1> QED
  BY <1>2, <1>3, <1>4 DEF ReadOK


LEMMA FirstSteps ==
  ASSUME NEW r \in Request
  PROVE  /\ FirstStep(r) \notin {"qas", "done"}
         /\ r.op = "Login" => FirstStep(r) # "list"
         /\ FirstStep(r) = "history" => Decoded(r).mode # "single"
         /\ r.op = "Ask" /\ FirstStep(r) = "record" => Decoded(r).mode = "single"
<1>1. CASE r.op = "Ask"
  BY <1>1 DEF FirstStep, Decoded
<1>2. CASE r.op # "Ask"
  BY <1>2 DEF FirstStep
<1> QED
  BY <1>1, <1>2

\* A call that comes.
LEMMA ReadComes ==
  ASSUME IInv, NEW s \in Slot, NEW r \in Requests, Begin(s, r), NEW moved
  PROVE  ReadOK(calls'[s], chats, qas, moved) /\ \A t \in Slot \ {s} : calls'[t] = calls[t]
<1>1. Calls
  BY Facts
<1>2. PICK req, step, start, reply, todo :
        /\ req = Decoded(r) /\ step = FirstStep(r) /\ start = (IF r.op \in Listings THEN Start ELSE None)
        /\ reply = (IF Noticed(r) THEN <<400>> ELSE <<>>)
        /\ todo = (IF r.op \in {"Upload", "FileUpload"} THEN r.files ELSE <<>>)
  OBVIOUS
<1>3. PICK call : call = Arrived(req, step, start, reply, todo)
  OBVIOUS
<1>4. PICK d : d = IF Rejected(r) THEN Ended(call, <<Rejection(r)>>) ELSE call
  OBVIOUS
<1>5. calls'[s] = d /\ \A t \in Slot \ {s} : calls'[t] = calls[t]
  <2>1. calls' = [calls EXCEPT ![s] = d]
    BY <1>2, <1>3, <1>4 DEF Begin, Arrived
  <2> QED
    BY <1>1, <2>1, SetCall
<1>6. PICK fl, none : fl = FALSE /\ none = <<>>
  OBVIOUS
<1>7. call = CallIs(req, step, reply, fl, none, todo, start)
  BY <1>3, <1>6, ArrivedIs
<1>8. /\ call.req = req /\ call.step = step /\ call.reply = reply /\ call.got = none /\ call.start = start
      /\ IsCall(call)
  BY ONLY <1>7, Fields DEF IsCall
<1>9. r \in Request /\ req.op = r.op
  <2>1. r \in Request
    BY ApiAssumption
  <2> QED
    BY <1>2, <2>1, DecodedType
<1>10. r.op \in Regular => start = Start
  BY <1>2 DEF Regular
<1>11. /\ step \notin {"qas", "done"} /\ (r.op = "Login" => step # "list")
       /\ step = "history" => req.mode # "single"
       /\ r.op = "Ask" /\ step = "record" => req.mode = "single"
  BY <1>2, <1>9, FirstSteps
<1>12. CASE ~Rejected(r)
  <2>1. d = call
    BY <1>4, <1>12
  <2>2. d.req.op \in Regular => d.start = Start
    BY <1>8, <1>9, <1>10, <2>1
  <2>3. /\ d.got = <<>> /\ d.step \notin {"qas"} /\ (d.req.op = "Login" => d.step # "list")
        /\ d.step = "history" => d.req.mode # "single"
        /\ d.req.op = "Ask" /\ d.step = "record" => d.req.mode = "single"
    BY <1>6, <1>8, <1>9, <1>11, <2>1
  <2>4. ~IsSuccess(d)
    BY <1>8, <1>11, <2>1 DEF IsSuccess
  <2> QED
    BY <1>5, <2>2, <2>3, <2>4, ReadBegins
<1>13. CASE Rejected(r)
  <2>1. PICK st, done : st = <<Rejection(r)>> /\ done = "done"
    OBVIOUS
  <2>2. PICK both : both = call.reply \o st
    OBVIOUS
  <2>3. d = GoneOn(call, done, both, call.failed, call.got, call.todo)
    BY <1>4, <1>8, <1>13, <2>1, <2>2, EndedIs
  <2>4. d.req = call.req /\ d.step = done /\ d.reply = both /\ d.got = call.got /\ d.start = call.start
    BY ONLY <2>3, Fields DEF GoneOn
  <2>5. call.reply = <<>>
    BY <1>2, <1>8, <1>13 DEF Noticed
  <2>6. st \in Seq(Nat) /\ Head(st) \notin 200 .. 299
    <3>1. CASE Rejection(r) = 422
      BY <2>1, <3>1
    <3>2. CASE Rejection(r) = 400
      BY <2>1, <3>2
    <3> QED
      BY <1>9, <3>1, <3>2, RejectionIs
  <2>7. both = st
    BY <2>2, <2>5, <2>6
  <2>8. ~IsSuccess(d)
    BY <2>4, <2>6, <2>7 DEF IsSuccess
  <2>9. d.req.op \in Regular => d.start = Start
    BY <1>8, <1>9, <1>10, <2>4
  <2>10. d.got = <<>> /\ d.step = "done"
    BY <1>6, <1>8, <2>1, <2>4
  <2> QED
    BY <1>5, <2>8, <2>9, <2>10, ReadBegins
<1> QED
  BY <1>12, <1>13

LEMMA MovedGrows ==
  ASSUME \A u \in Slot : calls[u].req.op = "Login" => calls'[u].req = calls[u].req, NEW t \in Slot
  PROVE  Moved(t) \subseteq Moved(t)'
<1>1. ASSUME NEW x \in Moved(t) PROVE x \in Moved(t)'
  <2>1. PICK u \in Slot \ {t} : calls[u].req.op = "Login" /\ x = calls[u].req.chat
    BY DEF Moved
  <2>2. u \in {v \in Slot \ {t} : calls'[v].req.op = "Login"} /\ x = calls'[u].req.chat
    BY <2>1
  <2> QED
    BY <2>2 DEF Moved
<1> QED
  BY <1>1

LEMMA ReadsGoOn == IInv /\ IInv' /\ ReadsOK /\ [Next]_vars => ReadsOK'
<1> SUFFICES ASSUME IInv, IInv', ReadsOK, [Next]_vars PROVE ReadsOK'
  OBVIOUS
<1>1. qas \in Seq(QARow) /\ Calls /\ \A s \in Slot : CallOK(calls[s])
  BY Facts DEF QAsOK
<1>2. ASSUME NEW M, ChatsGoOn(chats, chats', M), QAsGoOn(qas, qas'), NEW t \in Slot, NEW moved,
             M \subseteq Moved(t)', moved \subseteq Moved(t)', ReadOK(calls'[t], chats, qas, moved)
      PROVE  ReadOK(calls'[t], chats', qas', Moved(t)')
  <2>1. PICK c, moved2 : c = calls'[t] /\ moved2 = Moved(t)'
    OBVIOUS
  <2>2. ReadOK(c, chats', qas', moved2)
    BY <1>1, <1>2, <2>1, ReadStays
  <2> QED
    BY <2>1, <2>2
<1>3. ASSUME UNCHANGED <<calls, chats>>, QAsGoOn(qas, qas') PROVE ReadsOK'
  <2>1. ASSUME NEW t \in Slot PROVE ReadOK(calls'[t], chats', qas', Moved(t)')
    <3>1. ReadOK(calls'[t], chats, qas, Moved(t)) /\ Moved(t) \subseteq Moved(t)'
      BY <1>3, MovedGrows DEF ReadsOK
    <3>2. PICK none : none = {}
      OBVIOUS
    <3>3. none \subseteq Moved(t)' /\ ChatsGoOn(chats, chats', none)
      BY <1>3, <3>2, ChatsStay
    <3> QED
      BY <1>2, <1>3, <3>1, <3>3
  <2> QED
    BY <2>1 DEF ReadsOK
<1>4. CASE UNCHANGED vars
  <2>1. UNCHANGED <<calls, qas, chats>>
    BY <1>4 DEF vars, tables
  <2> QED
    BY <1>3, <2>1, QAsStay
<1>5. CASE \E s \in Slot, r \in Requests : Begin(s, r)
  <2>1. PICK s \in Slot, r \in Requests : Begin(s, r)
    BY <1>5
  <2>2. UNCHANGED <<qas, chats>> /\ calls[s].step = "idle"
    BY <2>1 DEF Begin, tables
  <2>3. \A moved : ReadOK(calls'[s], chats, qas, moved)
    BY <2>1, ReadComes
  <2>4. \A t \in Slot \ {s} : calls'[t] = calls[t]
    BY <2>1, ReadComes
  <2>5. calls[s].req.op = "none"
    BY <1>1, <2>2 DEF CallOK, StepFits
  <2>6. \A u \in Slot : calls[u].req.op = "Login" => calls'[u].req = calls[u].req
    BY <2>4, <2>5
  <2>7. ASSUME NEW t \in Slot PROVE ReadOK(calls'[t], chats', qas', Moved(t)')
    <3>1. Moved(t) \subseteq Moved(t)'
      BY <2>6, MovedGrows
    <3>2. ReadOK(calls'[t], chats, qas, Moved(t))
      BY <2>3, <2>4 DEF ReadsOK
    <3>3. PICK none : none = {}
      OBVIOUS
    <3>4. none \subseteq Moved(t)' /\ ChatsGoOn(chats, chats', none)
      BY <2>2, <3>3, ChatsStay
    <3>5. QAsGoOn(qas, qas')
      BY <2>2, QAsStay
    <3> QED
      BY <1>2, <3>1, <3>2, <3>4, <3>5
  <2> QED
    BY <2>7 DEF ReadsOK
<1>6. CASE \E s \in Slot : Serve(s) \/ Convert(s)
  <2>1. PICK s \in Slot : Serve(s) \/ Convert(s)
    BY <1>6
  <2>2. SameRequest(s) /\ QAsGoOn(qas, qas') /\ ChatsGoOn(chats, chats', Given(s))
    BY <2>1, ServeKeepsRequests, ServeGoesOn, ServeKeepsChats
  <2>3. \A u \in Slot : calls'[u].req = calls[u].req
    BY <2>2 DEF SameRequest
  <2>4. ASSUME NEW t \in Slot \ {s} PROVE ReadOK(calls'[t], chats', qas', Moved(t)')
    <3>1. Moved(t) \subseteq Moved(t)'
      BY <2>3, MovedGrows
    <3>2. ReadOK(calls'[t], chats, qas, Moved(t))
      BY <2>2 DEF ReadsOK, SameRequest
    <3>3. Given(s) \subseteq Moved(t)'
      <4>1. ASSUME calls[s].req.op = "Login" PROVE calls[s].req.chat \in Moved(t)'
        <5>1. s \in {u \in Slot \ {t} : calls'[u].req.op = "Login"} /\ calls[s].req.chat = calls'[s].req.chat
          BY <2>3, <4>1
        <5> QED
          BY <5>1 DEF Moved
      <4> QED
        BY <4>1 DEF Given
    <3> QED
      BY <1>2, <2>2, <3>1, <3>2, <3>3
  <2>5. ReadOK(calls'[s], chats', qas', Moved(s)')
    <3>1. Moved(s)' = Moved(s)
      <4>1. {u \in Slot \ {s} : calls'[u].req.op = "Login"} = {u \in Slot \ {s} : calls[u].req.op = "Login"}
        BY <2>3
      <4> QED
        BY <2>3, <4>1 DEF Moved
    <3>2. PICK moved : moved = Moved(s) /\ ReadOK(calls[s], chats, qas, moved)
      BY DEF ReadsOK
    <3>3. ReadOK(calls'[s], chats', qas', moved)
      BY <2>1, <3>2, ServeReads
    <3> QED
      BY <3>1, <3>2, <3>3
  <2> QED
    BY <2>4, <2>5 DEF ReadsOK
<1>7. CASE \E q \in DOMAIN qas : Consume(q)
  <2>1. UNCHANGED <<calls, chats>> /\ QAsGoOn(qas, qas')
    BY <1>1, <1>7, ConsumeGoesOn DEF Consume
  <2> QED
    BY <1>3, <2>1
<1>8. CASE Tick
  <2>1. UNCHANGED <<calls, chats, qas>>
    BY <1>8 DEF Tick
  <2> QED
    BY <1>3, <2>1, QAsStay
<1> QED
  BY <1>4, <1>5, <1>6, <1>7, <1>8 DEF Next

LEMMA InitReads == Init => ReadsOK
<1> SUFFICES ASSUME Init, NEW s \in Slot PROVE ReadOK(calls[s], chats, qas, Moved(s))
  BY DEF ReadsOK
<1>1. calls[s] = Idle /\ Idle.req.op = "none" /\ Idle.step = "idle"
  BY DEF Init, Idle
<1> QED
  BY <1>1 DEF ReadOK, BeginOK, ListsOK, ShownOK, TaleOK, Regular, Listings


LEMMA ListsRead ==
  ASSUME IInv, ReadsOK
  PROVE  ListsAreRegular
<1> SUFFICES ASSUME NEW s \in Slot, Accepted(s), Req(s).op \in Listings \ {"ListQAs", "Ask"}, NEW listed,
                    listed = {calls[s].got[i].chat : i \in DOMAIN calls[s].got}
             PROVE  /\ Req(s).op \in {"GetUserChats", "Login", "ListChats"} =>
                         /\ {c \in calls[s].start.chats : Live(c) /\ Mine(s, c) /\ ~LoggedIn(s, c)
                               /\ Req(s).op # "Login"} \subseteq listed
                         /\ listed \intersect calls[s].start.gone.chats = {}
                         /\ \A c \in listed : Mine(s, c) \/ LoggedIn(s, c)
                         /\ Req(s).op = "Login" /\ Live(Req(s).chat) /\ ~LoggedIn(s, Req(s).chat) =>
                              Req(s).chat \in listed
                    /\ \A i \in DOMAIN calls[s].got :
                         Req(s).op # "ListChats" => RowsAreRegular(s, calls[s].got[i].chat, calls[s].got[i].qas)
  BY DEF ListsAreRegular
<1>1. PICK c : c = calls[s]
  OBVIOUS
<1>2. /\ c.req.op \in Regular \ {"Ask"} /\ IsSuccess(c) /\ c.step = "done"
      /\ ListsOK(c, qas) /\ ShownOK(c, chats, Moved(s))
  BY <1>1 DEF Accepted, Req, Regular, IsSuccess, ReadsOK, ReadOK
<1>3. \A x : LoggedIn(s, x) <=> x \in Moved(s)
  BY DEF LoggedIn, Moved, Req
<1>4. \A x : Mine(s, x) <=> Belongs(c, chats, x)
  BY <1>1 DEF Mine, Belongs, Req
<1>5. Shown(c) = listed
  BY <1>1, <1>2 DEF Shown
<1>6. ASSUME c.req.op \in {"GetUserChats", "Login", "ListChats"}
      PROVE  /\ {x \in c.start.chats : Live(x) /\ Mine(s, x) /\ ~LoggedIn(s, x) /\ c.req.op # "Login"} \subseteq listed
             /\ listed \intersect c.start.gone.chats = {}
             /\ \A x \in listed : Mine(s, x) \/ LoggedIn(s, x)
             /\ c.req.op = "Login" /\ Live(c.req.chat) /\ ~LoggedIn(s, c.req.chat) => c.req.chat \in listed
  BY <1>2, <1>3, <1>4, <1>5, <1>6 DEF ShownOK, Live
<1>7. ASSUME NEW i \in DOMAIN c.got, c.req.op # "ListChats"
      PROVE  RowsAreRegular(s, c.got[i].chat, c.got[i].qas)
  <2>1. ListOK(c, qas, c.got[i].chat, c.got[i].qas)
    BY <1>2, <1>7 DEF ListsOK
  <2> QED
    BY <1>1, <2>1 DEF RowsAreRegular, ListOK, Kept, InOrder, There, Req
<1> QED
  BY <1>1, <1>6, <1>7 DEF Req

LEMMA HistoriesRead ==
  ASSUME IInv, ReadsOK
  PROVE  HistoryIsOrdered
<1>0. SUFFICES ASSUME NEW s \in Slot, Done(s, "Ask")
               PROVE  LET h == calls[s].got
                          shown == {h[i].qa : i \in DOMAIN h}
                          v1 == Req(s).mode = "history"
                          known == {q \in calls[s].start.answered : There(q) /\ qas[q].chat = Req(s).chat}
                      IN  /\ \A i, j \in DOMAIN h : i < j =>
                               IF h[i].qa = h[j].qa
                               THEN /\ \A k \in i .. j : h[k].qa = h[i].qa
                                    /\ IF v1 THEN h[i].part # "answer" /\ h[j].part # "question"
                                       ELSE h[i].part = "answer" /\ h[j].part = "question"
                               ELSE LET first == IF v1 THEN qas[h[i].qa] ELSE qas[h[j].qa]
                                        last == IF v1 THEN qas[h[j].qa] ELSE qas[h[i].qa]
                                    IN  first.happened <= last.happened
                          /\ \A q \in shown : qas[q].chat = Req(s).chat /\ Answered(q)
                                                /\ {"question", "answer"} \subseteq {h[i].part : i \in {j \in DOMAIN h : h[j].qa = q}}
                          /\ Req(s).mode # "single" /\ ~calls[s].failed =>
                               IF v1 THEN {q \in known : qas[q].session = Req(s).session} \subseteq shown
                               ELSE Cardinality(shown) >= Min({HistoryLimit, Cardinality(known)})
  BY DEF HistoryIsOrdered
<1>1. PICK h, shown, known :
        /\ h = calls[s].got /\ shown = {h[i].qa : i \in DOMAIN h}
        /\ known = {q \in calls[s].start.answered : There(q) /\ qas[q].chat = Req(s).chat}
  OBVIOUS
<1>2. PICK c : c = calls[s]
  OBVIOUS
<1>3. /\ c.req.op = "Ask" /\ IsSuccess(c) /\ c.req = Req(s) /\ h = c.got
      /\ TogetherOK(c) /\ ToldOK(c, qas) /\ WholeOK(c, qas)
  BY <1>0, <1>1, <1>2 DEF Done, Accepted, Req, IsSuccess, ReadsOK, ReadOK, TaleOK
<1>4. shown = Told(c) /\ known = Known(c, qas)
  BY <1>1, <1>2 DEF Told, Known, There, Req
<1>5. ASSUME NEW i \in DOMAIN h, NEW j \in DOMAIN h, i < j
      PROVE  IF h[i].qa = h[j].qa
             THEN /\ \A k \in i .. j : h[k].qa = h[i].qa
                  /\ IF Req(s).mode = "history" THEN h[i].part # "answer" /\ h[j].part # "question"
                     ELSE h[i].part = "answer" /\ h[j].part = "question"
             ELSE IF Req(s).mode = "history" THEN qas[h[i].qa].happened <= qas[h[j].qa].happened
                  ELSE qas[h[j].qa].happened <= qas[h[i].qa].happened
  BY <1>3, <1>5 DEF TogetherOK, ToldOK
<1>6. ASSUME NEW q \in shown
      PROVE  /\ qas[q].chat = Req(s).chat /\ Answered(q)
             /\ {"question", "answer"} \subseteq {h[i].part : i \in {j \in DOMAIN h : h[j].qa = q}}
  <2>1. /\ qas[q].chat = Req(s).chat /\ Answered(q)
        /\ \A part \in {"question", "answer"} : \E i \in DOMAIN h : h[i] = Message(q, part)
    BY <1>3, <1>4 DEF ToldOK, Answered
  <2>2. ASSUME NEW part \in {"question", "answer"}
        PROVE  part \in {h[i].part : i \in {j \in DOMAIN h : h[j].qa = q}}
    <3>1. PICK i \in DOMAIN h : h[i] = Message(q, part)
      BY <2>1
    <3>2. h[i].qa = q /\ h[i].part = part
      BY <3>1 DEF Message
    <3> QED
      BY <3>2
  <2> QED
    BY <2>1, <2>2
<1>7. ASSUME Req(s).mode # "single", ~calls[s].failed
      PROVE  IF Req(s).mode = "history" THEN {q \in known : qas[q].session = Req(s).session} \subseteq shown
             ELSE Cardinality(shown) >= Min({HistoryLimit, Cardinality(known)})
  BY <1>2, <1>3, <1>4, <1>7 DEF WholeOK
<1> QED
  BY <1>1, <1>5, <1>6, <1>7

\* What a request reads by several statements is, in the end, as if read in one moment: the lists
\* of chats and QAs miss nothing that was there all the time and show nothing that was gone before,
\* though others write, log in and delete between the statements (backend/service/qa.go, chat.go),
\* and the history a question is asked with is whole and in its order (completion.go).
THEOREM ReadsRegular == Spec => []ReadsAreRegular
<1>1. Init => IInv /\ ReadsOK
  BY InitHolds, InitReads
<1>2. IInv /\ ReadsOK /\ [Next]_vars => (IInv /\ ReadsOK)'
  BY NextKeeps, ReadsGoOn
<1>3. IInv /\ ReadsOK => ReadsAreRegular
  BY ListsRead, HistoriesRead DEF ReadsAreRegular
<1> QED
  BY <1>1, <1>2, <1>3, PTL DEF Spec

---------------------------------------------------------------------------
(* Sums of the statistics.                                                 *)

Picked(s) == CHOOSE x \in s : TRUE

\* f[s] is the sum of the weights of s, for each subset of S.
Adds(f, S, w) == f = [s \in SUBSET S |-> IF s = {} THEN 0 ELSE w[Picked(s)] + f[s \ {Picked(s)}]]

\* The same, as far as sets of n elements.
AddsUpTo(f, S, w, n) ==
  \A s \in SUBSET S : Cardinality(s) <= n =>
    f[s] = IF s = {} THEN 0 ELSE w[Picked(s)] + f[s \ {Picked(s)}]

LEMMA PickedIn == ASSUME NEW s, s # {} PROVE Picked(s) \in s
  BY DEF Picked

\* Sums of sets of n elements, and of sets of one more.
LEMMA AddsFurther ==
  ASSUME NEW S, IsFiniteSet(S), NEW w, NEW n \in Nat, NEW f, AddsUpTo(f, S, w, n)
  PROVE  \E g : AddsUpTo(g, S, w, n + 1)
<1>1. PICK g : g = [s \in SUBSET S |-> IF Cardinality(s) <= n THEN f[s]
                                       ELSE w[Picked(s)] + f[s \ {Picked(s)}]]
  OBVIOUS
<1>2. ASSUME NEW s \in SUBSET S, Cardinality(s) <= n + 1
      PROVE  g[s] = IF s = {} THEN 0 ELSE w[Picked(s)] + g[s \ {Picked(s)}]
  <2>1. CASE s = {}
    <3>1. Cardinality(s) <= n
      BY <2>1, FS_EmptySet
    <3>2. g[s] = f[s]
      BY <1>1, <3>1
    <3> QED
      BY <2>1, <3>1, <3>2 DEF AddsUpTo
  <2>2. CASE s # {}
    <3>1. PICK r : r = s \ {Picked(s)}
      OBVIOUS
    <3>2. r \in SUBSET S /\ Cardinality(r) = Cardinality(s) - 1 /\ Cardinality(s) \in Nat
      BY <2>2, <3>1, PickedIn, FS_Subset, FS_RemoveElement, FS_CardinalityType
    <3>3. g[r] = f[r]
      BY <1>1, <1>2, <3>2
    <3>4. g[s] = w[Picked(s)] + f[r]
      <4>1. CASE Cardinality(s) <= n
        BY <1>1, <2>2, <3>1, <4>1 DEF AddsUpTo
      <4>2. CASE ~(Cardinality(s) <= n)
        BY <1>1, <3>1, <4>2
      <4> QED
        BY <4>1, <4>2
    <3> QED
      BY <2>2, <3>1, <3>3, <3>4
  <2> QED
    BY <2>1, <2>2
<1> QED
  BY <1>2 DEF AddsUpTo

LEMMA AddsExist ==
  ASSUME NEW S, IsFiniteSet(S), NEW w
  PROVE  \E f : Adds(f, S, w)
<1> DEFINE P == {n \in Nat : \E f : AddsUpTo(f, S, w, n)}
<1>1. 0 \in P
  <2>1. PICK f : f = [s \in SUBSET S |-> 0]
    OBVIOUS
  <2>2. ASSUME NEW s \in SUBSET S, Cardinality(s) <= 0 PROVE s = {}
    BY <2>2, FS_Subset, FS_CardinalityType, FS_EmptySet
  <2>3. AddsUpTo(f, S, w, 0)
    BY <2>1, <2>2 DEF AddsUpTo
  <2> QED
    BY <2>3
<1>2. ASSUME NEW n \in Nat, n \in P PROVE n + 1 \in P
  <2>1. PICK f : AddsUpTo(f, S, w, n)
    BY <1>2
  <2>2. \E g : AddsUpTo(g, S, w, n + 1)
    BY <2>1, AddsFurther
  <2> QED
    BY <2>2
<1> HIDE DEF P
<1>3. Cardinality(S) \in P
  BY <1>1, <1>2, AllNumbers, FS_CardinalityType
<1>4. PICK f : AddsUpTo(f, S, w, Cardinality(S))
  BY <1>3 DEF P
<1>5. PICK g : g = [s \in SUBSET S |-> f[s]]
  OBVIOUS
<1>6. ASSUME NEW s \in SUBSET S
      PROVE  g[s] = IF s = {} THEN 0 ELSE w[Picked(s)] + g[s \ {Picked(s)}]
  <2>1. Cardinality(s) <= Cardinality(S)
    BY FS_Subset
  <2>2. g[s \ {Picked(s)}] = f[s \ {Picked(s)}] /\ g[s] = f[s]
    BY <1>5
  <2> QED
    BY <1>4, <2>1, <2>2 DEF AddsUpTo
<1>7. g = [s \in SUBSET S |-> g[s]]
  BY <1>5
<1>8. Adds(g, S, w)
  BY <1>6, <1>7 DEF Adds
<1> QED
  BY <1>8

\* A least one of the subsets of a finite set.
LEMMA LeastSubset ==
  ASSUME NEW S, IsFiniteSet(S), NEW Bad \in SUBSET (SUBSET S), Bad # {}
  PROVE  \E s \in Bad : \A x \in s : s \ {x} \notin Bad
<1>1. Bad \subseteq FiniteSubsetsOf(S)
  BY FS_FiniteSubsetsOfFinite
<1>2. PICK s \in Bad : \A r \in Bad : ~ (<<r, s>> \in StrictSubsetOrdering(S))
  BY <1>1, FS_StrictSubsetOrderingWellFounded, WFMin
<1>3. \A x \in s : <<s \ {x}, s>> \in StrictSubsetOrdering(S)
  BY DEF StrictSubsetOrdering
<1> QED
  BY <1>2, <1>3

LEMMA AddsStep ==
  ASSUME NEW f, NEW S, NEW w, Adds(f, S, w), NEW s \in SUBSET S
  PROVE  f[s] = IF s = {} THEN 0 ELSE w[Picked(s)] + f[s \ {Picked(s)}]
  BY Zenon DEF Adds

\* Two sums of the same weights are the same.
LEMMA AddsSame ==
  ASSUME NEW S, NEW T, NEW U, U \subseteq S, U \subseteq T, IsFiniteSet(U), NEW w, NEW v, \A x \in U : w[x] = v[x],
         NEW f, Adds(f, S, w), NEW g, Adds(g, T, v)
  PROVE  f[U] = g[U]
<1> DEFINE Bad == {s \in SUBSET U : f[s] # g[s]}
<1>1. SUFFICES ASSUME Bad # {} PROVE FALSE
  OBVIOUS
<1>2. PICK s \in Bad : \A x \in s : s \ {x} \notin Bad
  BY <1>1, LeastSubset
<1>3. s \in SUBSET S /\ s \in SUBSET T
  OBVIOUS
<1>4. /\ f[s] = IF s = {} THEN 0 ELSE w[Picked(s)] + f[s \ {Picked(s)}]
      /\ g[s] = IF s = {} THEN 0 ELSE v[Picked(s)] + g[s \ {Picked(s)}]
  BY <1>3, AddsStep
<1>5. CASE s = {}
  BY <1>4, <1>5
<1>6. CASE s # {}
  <2>1. Picked(s) \in s
    BY <1>6, PickedIn
  <2>2. f[s \ {Picked(s)}] = g[s \ {Picked(s)}] /\ w[Picked(s)] = v[Picked(s)]
    BY <1>2, <2>1
  <2> QED
    BY <1>4, <1>6, <2>2
<1> QED
  BY <1>5, <1>6

Total(w, S) == SumFunctionOnSet(w, S)

\* SumFunctionOnSet adds the weights.
LEMMA TotalIs ==
  ASSUME NEW S, IsFiniteSet(S), NEW U, U \subseteq S, NEW w, NEW f, Adds(f, S, w)
  PROVE  Total(w, U) = f[U]
<1> DEFINE Rec(g) == [s \in SUBSET U |-> IF s = {} THEN 0 ELSE w[CHOOSE x \in s : TRUE] + g[s \ {CHOOSE x \in s : TRUE}]]
           iter == CHOOSE g : g = Rec(g)
<1>1. Total(w, U) = iter[U]
  BY DEF Total, SumFunctionOnSet, FoldFunctionOnSet, MapThenFoldSet
<1>2. IsFiniteSet(U)
  BY FS_Subset
<1>3. PICK g : Adds(g, U, w)
  BY <1>2, AddsExist
<1>4. g = Rec(g)
  BY <1>3, Zenon DEF Adds, Picked
<1>5. iter = Rec(iter)
  BY <1>4
<1> HIDE DEF iter
<1>6. Adds(iter, U, w)
  BY <1>5, Zenon DEF Adds, Picked
<1>7. iter[U] = f[U]
  BY <1>2, <1>6, AddsSame
<1> QED
  BY <1>1, <1>7


Weighs(w, S) == IsFiniteSet(S) /\ \A x \in S : w[x] \in Nat

\* A sum is a number.
LEMMA TotalType ==
  ASSUME NEW w, NEW S, Weighs(w, S)
  PROVE  Total(w, S) \in Nat
<1>1. IsFiniteSet(S) /\ \A x \in S : w[x] \in Nat
  BY DEF Weighs
<1>2. PICK f : Adds(f, S, w)
  BY <1>1, AddsExist
<1> DEFINE Bad == {s \in SUBSET S : f[s] \notin Nat}
<1>3. ASSUME Bad # {} PROVE FALSE
  <2>1. PICK s \in Bad : \A x \in s : s \ {x} \notin Bad
    BY <1>1, <1>3, LeastSubset
  <2>2. f[s] = IF s = {} THEN 0 ELSE w[Picked(s)] + f[s \ {Picked(s)}]
    <3>1. s \in SUBSET S
      BY <2>1
    <3> QED
      BY ONLY <1>2, <3>1, AddsStep
  <2>3. CASE s # {}
    <3>1. Picked(s) \in s
      BY <2>3, PickedIn
    <3>2. f[s \ {Picked(s)}] \in Nat /\ w[Picked(s)] \in Nat
      BY <1>1, <2>1, <3>1
    <3> QED
      BY <2>1, <2>2, <2>3, <3>2
  <2> QED
    BY <2>1, <2>2, <2>3
<1>4. f[S] \in Nat
  BY <1>3
<1> QED
  BY <1>1, <1>2, <1>4, TotalIs

\* Of nothing it is 0.
LEMMA TotalOfNone == ASSUME NEW w PROVE Total(w, {}) = 0
<1>1. IsFiniteSet({})
  BY FS_EmptySet
<1>2. PICK f : Adds(f, {}, w)
  BY <1>1, AddsExist
<1>3. f[{}] = 0
  <2>1. {} \in SUBSET {}
    OBVIOUS
  <2>2. f[{}] = IF {} = {} THEN 0 ELSE w[Picked({})] + f[{} \ {Picked({})}]
    BY <1>2, <2>1, AddsStep
  <2> QED
    BY <2>2
<1> QED
  BY <1>1, <1>2, <1>3, TotalIs

\* Any of the weights may be added last.
LEMMA TotalOfMore ==
  ASSUME NEW w, NEW S, Weighs(w, S), NEW e \in S
  PROVE  Total(w, S) = w[e] + Total(w, S \ {e})
<1>1. IsFiniteSet(S) /\ \A x \in S : w[x] \in Nat
  BY DEF Weighs
<1>2. PICK f : Adds(f, S, w)
  BY <1>1, AddsExist
<1>3. \A s \in SUBSET S : Total(w, s) = f[s] /\ f[s] \in Nat
  <2>1. ASSUME NEW s \in SUBSET S PROVE Total(w, s) = f[s] /\ f[s] \in Nat
    <3>1. Weighs(w, s)
      BY <1>1, FS_Subset DEF Weighs
    <3> QED
      BY <1>1, <1>2, <3>1, TotalIs, TotalType
  <2> QED
    BY <2>1
<1> DEFINE Bad == {s \in SUBSET S : \E x \in s : f[s] # w[x] + f[s \ {x}]}
<1>4. ASSUME Bad # {} PROVE FALSE
  <2>1. PICK s \in Bad : \A x \in s : s \ {x} \notin Bad
    BY <1>1, <1>4, LeastSubset
  <2>2. PICK x \in s : f[s] # w[x] + f[s \ {x}]
    BY <2>1
  <2>3. PICK p : p = Picked(s)
    OBVIOUS
  <2>4. p \in s /\ f[s] = w[p] + f[s \ {p}]
    <3>1. s \in SUBSET S /\ s # {}
      BY <2>1, <2>2
    <3>2. f[s] = IF s = {} THEN 0 ELSE w[Picked(s)] + f[s \ {Picked(s)}]
      BY ONLY <1>2, <3>1, AddsStep
    <3> QED
      BY <2>3, <3>1, <3>2, PickedIn
  <2>5. x # p
    BY <2>2, <2>4
  <2>6. f[s \ {p}] = w[x] + f[(s \ {p}) \ {x}] /\ f[s \ {x}] = w[p] + f[(s \ {x}) \ {p}]
    <3>1. s \ {p} \notin Bad /\ s \ {x} \notin Bad /\ s \ {p} \in SUBSET S /\ s \ {x} \in SUBSET S
      BY <2>1, <2>4
    <3>2. x \in s \ {p} /\ p \in s \ {x}
      BY <2>4, <2>5
    <3> QED
      BY <3>1, <3>2
  <2>7. (s \ {p}) \ {x} = (s \ {x}) \ {p} /\ (s \ {x}) \ {p} \in SUBSET S
    BY <2>1
  <2>8. PICK z \in Nat : z = f[(s \ {x}) \ {p}]
    BY <1>3, <2>7
  <2>9. w[x] \in Nat /\ w[p] \in Nat
    BY <1>1, <2>1, <2>4
  <2>10. f[s] = w[p] + (w[x] + z) /\ w[x] + f[s \ {x}] = w[x] + (w[p] + z)
    BY <2>4, <2>6, <2>7, <2>8
  <2> QED
    BY <2>2, <2>9, <2>10
<1>5. f[S] = w[e] + f[S \ {e}]
  BY <1>4
<1> QED
  BY <1>3, <1>5

\* Sums of the same weights.
LEMMA TotalSame ==
  ASSUME NEW S, IsFiniteSet(S), NEW w, NEW v, \A x \in S : w[x] = v[x]
  PROVE  Total(w, S) = Total(v, S)
<1>1. PICK f, g : Adds(f, S, w) /\ Adds(g, S, v)
  BY AddsExist
<1>2. PICK U : U = S
  OBVIOUS
<1>3. f[U] = g[U]
  <2>1. U \subseteq S /\ IsFiniteSet(U) /\ \A x \in U : w[x] = v[x]
    BY <1>2
  <2> QED
    BY ONLY <1>1, <2>1, AddsSame
<1> QED
  BY <1>1, <1>2, <1>3, TotalIs

\* Larger weights have no smaller sum.
LEMMA TotalsCompare ==
  ASSUME NEW S, NEW w, NEW v, Weighs(w, S), Weighs(v, S), \A x \in S : w[x] <= v[x]
  PROVE  Total(w, S) <= Total(v, S)
<1> DEFINE Bad == {s \in SUBSET S : ~(Total(w, s) <= Total(v, s))}
<1>1. SUFFICES ASSUME Bad # {} PROVE FALSE
  OBVIOUS
<1>2. PICK s \in Bad : \A x \in s : s \ {x} \notin Bad
  BY <1>1, LeastSubset DEF Weighs
<1>3. Weighs(w, s) /\ Weighs(v, s)
  BY FS_Subset DEF Weighs
<1>4. CASE s = {}
  BY <1>2, <1>4, TotalOfNone
<1>5. CASE s # {}
  <2>1. PICK e \in s : TRUE
    BY <1>5
  <2>2. PICK r : r = s \ {e}
    OBVIOUS
  <2>3. Total(w, r) <= Total(v, r)
    BY <1>2, <2>1, <2>2
  <2>4. Total(w, s) = w[e] + Total(w, r) /\ Total(v, s) = v[e] + Total(v, r)
    BY <1>3, <2>1, <2>2, TotalOfMore
  <2>5. Weighs(w, r) /\ Weighs(v, r)
    BY <1>3, <2>2, FS_Subset DEF Weighs
  <2>6. w[e] \in Nat /\ v[e] \in Nat /\ w[e] <= v[e] /\ Total(w, r) \in Nat /\ Total(v, r) \in Nat
    BY <1>3, <2>1, <2>5, TotalType DEF Weighs
  <2>7. ~(Total(w, s) <= Total(v, s))
    BY <1>2
  <2> QED
    BY <2>3, <2>4, <2>6, <2>7
<1> QED
  BY <1>4, <1>5

\* Each of the weights is at most the sum.
LEMMA TotalAtLeast ==
  ASSUME NEW w, NEW S, Weighs(w, S), NEW e \in S
  PROVE  w[e] <= Total(w, S)
<1>1. Weighs(w, S \ {e})
  BY FS_RemoveElement DEF Weighs
<1>2. w[e] \in Nat /\ Total(w, S \ {e}) \in Nat
  BY <1>1, TotalType DEF Weighs
<1> QED
  BY <1>2, TotalOfMore

\* The sum of two sets that do not meet.
LEMMA TotalOfTwo ==
  ASSUME NEW w, NEW A, NEW B, Weighs(w, A), Weighs(w, B), A \intersect B = {}
  PROVE  Total(w, A \union B) = Total(w, A) + Total(w, B)
<1> DEFINE Bad == {b \in SUBSET B : Total(w, A \union b) # Total(w, A) + Total(w, b)}
<1>1. SUFFICES ASSUME Bad # {} PROVE FALSE
  OBVIOUS
<1>2. PICK b \in Bad : \A x \in b : b \ {x} \notin Bad
  BY <1>1, LeastSubset DEF Weighs
<1>3. Weighs(w, b) /\ Weighs(w, A \union b) /\ Total(w, A) \in Nat
  BY FS_Subset, FS_Union, TotalType DEF Weighs
<1>4. CASE b = {}
  <2>1. A \union b = A /\ Total(w, b) = 0
    BY <1>4, TotalOfNone
  <2> QED
    BY <1>2, <1>3, <2>1
<1>5. CASE b # {}
  <2>1. PICK e \in b : TRUE
    BY <1>5
  <2>2. PICK r : r = b \ {e}
    OBVIOUS
  <2>3. Total(w, A \union r) = Total(w, A) + Total(w, r)
    BY <1>2, <2>1, <2>2
  <2>4. (A \union b) \ {e} = A \union r /\ e \in A \union b
    BY <2>1, <2>2
  <2>5. Total(w, A \union b) = w[e] + Total(w, A \union r)
    BY <1>3, <2>4, TotalOfMore
  <2>6. Total(w, b) = w[e] + Total(w, r)
    BY <1>3, <2>1, <2>2, TotalOfMore
  <2>7. Weighs(w, r)
    BY <1>3, <2>2, FS_Subset DEF Weighs
  <2>8. w[e] \in Nat /\ Total(w, r) \in Nat
    BY <1>3, <2>1, <2>7, TotalType DEF Weighs
  <2>9. Total(w, A \union b) # Total(w, A) + Total(w, b)
    BY <1>2
  <2> QED
    BY <1>3, <2>3, <2>5, <2>6, <2>8, <2>9
<1> QED
  BY <1>4, <1>5

\* The sum of the sums of parts that do not meet.
LEMMA TotalOfParts ==
  ASSUME NEW I, IsFiniteSet(I), NEW P, NEW w, \A i \in I : Weighs(w, P[i]),
         \A i, j \in I : i # j => P[i] \intersect P[j] = {},
         NEW t, \A i \in I : t[i] = Total(w, P[i])
  PROVE  Weighs(w, UNION {P[i] : i \in I}) /\ Total(t, I) = Total(w, UNION {P[i] : i \in I})
<1> DEFINE Of(J) == UNION {P[i] : i \in J}
           Bad == {J \in SUBSET I : ~(Weighs(w, Of(J)) /\ Total(t, J) = Total(w, Of(J)))}
<1>1. SUFFICES ASSUME Bad # {} PROVE FALSE
  OBVIOUS
<1>2. PICK J \in Bad : \A x \in J : J \ {x} \notin Bad
  BY <1>1, LeastSubset
<1>3. CASE J = {}
  <2>1. Of(J) = {}
    BY <1>3
  <2>2. Weighs(w, {}) /\ Total(w, {}) = 0 /\ Total(t, {}) = 0
    BY TotalOfNone, FS_EmptySet DEF Weighs
  <2> HIDE DEF Of
  <2> QED
    BY <1>2, <1>3, <2>1, <2>2
<1>4. CASE J # {}
  <2>1. PICK e \in J : TRUE
    BY <1>4
  <2>2. PICK r : r = J \ {e}
    OBVIOUS
  <2>3. Weighs(w, Of(r)) /\ Total(t, r) = Total(w, Of(r))
    BY <1>2, <2>1, <2>2
  <2>4. Of(J) = Of(r) \union P[e]
    BY <2>1, <2>2
  <2>5. Of(r) \intersect P[e] = {}
    BY <1>2, <2>1, <2>2
  <2> HIDE DEF Of
  <2>6. Weighs(w, P[e]) /\ t[e] = Total(w, P[e])
    BY <1>2, <2>1
  <2>7. Weighs(w, Of(J))
    <3>1. IsFiniteSet(Of(r)) /\ IsFiniteSet(P[e])
      BY <2>3, <2>6 DEF Weighs
    <3>2. IsFiniteSet(Of(r) \union P[e])
      BY <3>1, FS_Union
    <3>3. \A x \in Of(r) \union P[e] : w[x] \in Nat
      BY <2>3, <2>6 DEF Weighs
    <3> QED
      BY <2>4, <3>2, <3>3 DEF Weighs
  <2>8. Total(w, Of(J)) = Total(w, Of(r)) + Total(w, P[e])
    BY <2>3, <2>4, <2>5, <2>6, TotalOfTwo
  <2>9. Weighs(t, J)
    <3>1. \A i \in J : t[i] \in Nat
      BY <1>2, TotalType
    <3> QED
      BY <3>1, FS_Subset DEF Weighs
  <2>10. Total(t, J) = t[e] + Total(t, r)
    BY <2>1, <2>2, <2>9, TotalOfMore
  <2>11. Total(w, Of(r)) \in Nat /\ Total(w, P[e]) \in Nat
    BY <2>3, <2>6, TotalType
  <2> QED
    BY <1>2, <2>3, <2>6, <2>7, <2>8, <2>10, <2>11
<1> QED
  BY <1>3, <1>4

\* A sum of ones counts.
LEMMA TotalOfOnes ==
  ASSUME NEW S, IsFiniteSet(S), NEW w, \A x \in S : w[x] = 1
  PROVE  Weighs(w, S) /\ Total(w, S) = Cardinality(S)
<1>0. Weighs(w, S)
  BY DEF Weighs
<1> DEFINE Bad == {s \in SUBSET S : Total(w, s) # Cardinality(s)}
<1>1. SUFFICES ASSUME Bad # {} PROVE FALSE
  BY <1>0
<1>2. PICK s \in Bad : \A x \in s : s \ {x} \notin Bad
  BY <1>1, LeastSubset
<1>3. IsFiniteSet(s) /\ Weighs(w, s) /\ Cardinality(s) \in Nat
  BY FS_Subset, FS_CardinalityType DEF Weighs
<1>4. CASE s = {}
  BY <1>2, <1>4, TotalOfNone, FS_EmptySet
<1>5. CASE s # {}
  <2>1. PICK e \in s : TRUE
    BY <1>5
  <2>2. Total(w, s \ {e}) = Cardinality(s \ {e})
    BY <1>2, <2>1
  <2>3. Total(w, s) = w[e] + Total(w, s \ {e})
    BY <1>3, <2>1, TotalOfMore
  <2>4. Cardinality(s \ {e}) = Cardinality(s) - 1
    BY <1>3, <2>1, FS_RemoveElement
  <2>5. w[e] = 1 /\ Total(w, s) # Cardinality(s)
    BY <1>2, <2>1
  <2> QED
    BY <1>3, <2>2, <2>3, <2>4, <2>5
<1> QED
  BY <1>4, <1>5

\* The cardinality of a union of parts that do not meet.
LEMMA CountOfParts ==
  ASSUME NEW I, IsFiniteSet(I), NEW P, \A i \in I : IsFiniteSet(P[i]),
         \A i, j \in I : i # j => P[i] \intersect P[j] = {},
         NEW t, \A i \in I : t[i] = Cardinality(P[i])
  PROVE  Total(t, I) = Cardinality(UNION {P[i] : i \in I})
<1>1. PICK U : U = UNION {P[i] : i \in I}
  OBVIOUS
<1>2. PICK w : w = [x \in U |-> 1]
  OBVIOUS
<1>3. \A i \in I : Weighs(w, P[i]) /\ t[i] = Total(w, P[i])
  <2>1. ASSUME NEW i \in I PROVE Weighs(w, P[i]) /\ t[i] = Total(w, P[i])
    <3>1. IsFiniteSet(P[i]) /\ \A x \in P[i] : w[x] = 1
      BY <1>1, <1>2
    <3>2. Weighs(w, P[i]) /\ Total(w, P[i]) = Cardinality(P[i])
      BY <3>1, TotalOfOnes
    <3> QED
      BY <3>2
  <2> QED
    BY <2>1
<1>4. Weighs(w, U) /\ Total(t, I) = Total(w, U)
  <2>1. Weighs(w, UNION {P[i] : i \in I}) /\ Total(t, I) = Total(w, UNION {P[i] : i \in I})
    BY ONLY <1>3, IsFiniteSet(I), \A i, j \in I : i # j => P[i] \intersect P[j] = {}, TotalOfParts
  <2> QED
    BY <1>1, <2>1
<1>5. Total(w, U) = Cardinality(U)
  <2>1. \A x \in U : w[x] = 1
    BY <1>2
  <2> QED
    BY <1>4, <2>1, TotalOfOnes DEF Weighs
<1> QED
  BY <1>1, <1>4, <1>5


---------------------------------------------------------------------------
(* The calendar.                                                           *)

\* The first day of the m-th month of a year.
LEMMA FirstDayIs ==
  ASSUME NEW y \in Nat, NEW m \in 1 .. 12
  PROVE  FirstDay(12 * y + m) = 365 * y + MonthStart[m] /\ MonthStart[m] \in 0 .. 334
<1>1. (12 * y + m - 1) \div 12 = y /\ (12 * y + m - 1) % 12 = m - 1
  OBVIOUS
<1>2. MonthStart[m] \in 0 .. 334
  BY DEF MonthStart
<1> QED
  BY <1>1, <1>2 DEF FirstDay

\* A month has 28 to 31 days.
LEMMA MonthLength ==
  ASSUME NEW n \in Nat \ {0}
  PROVE  FirstDay(n) \in Nat /\ FirstDay(n + 1) \in (FirstDay(n) + 28) .. (FirstDay(n) + 31)
<1>1. PICK y \in Nat, m \in 1 .. 12 : n = 12 * y + m
  <2>1. (n - 1) \div 12 \in Nat /\ ((n - 1) % 12) + 1 \in 1 .. 12 /\ n = 12 * ((n - 1) \div 12) + ((n - 1) % 12) + 1
    OBVIOUS
  <2> QED
    BY <2>1
<1>2. FirstDay(n) = 365 * y + MonthStart[m] /\ MonthStart[m] \in 0 .. 334
  BY <1>1, FirstDayIs
<1>3. CASE m < 12
  <2>1. FirstDay(n + 1) = 365 * y + MonthStart[m + 1]
    <3>1. n + 1 = 12 * y + (m + 1) /\ m + 1 \in 1 .. 12
      BY <1>1, <1>3
    <3> QED
      BY <3>1, FirstDayIs
  <2>2. MonthStart[m + 1] \in (MonthStart[m] + 28) .. (MonthStart[m] + 31)
    BY <1>3 DEF MonthStart
  <2> QED
    BY <1>2, <2>1, <2>2
<1>4. CASE m = 12
  <2>1. PICK z \in Nat, one \in 1 .. 12 : z = y + 1 /\ one = 1
    OBVIOUS
  <2>2. FirstDay(12 * z + one) = 365 * z + MonthStart[one]
    BY FirstDayIs
  <2>3. MonthStart[1] = 0 /\ MonthStart[12] = 334
    BY DEF MonthStart
  <2>4. n + 1 = 12 * z + one
    BY <1>1, <1>4, <2>1
  <2> QED
    BY <1>2, <1>4, <2>1, <2>2, <2>3, <2>4
<1> QED
  BY <1>3, <1>4

\* A later month begins later.
LEMMA MonthsFollow ==
  ASSUME NEW a \in Nat \ {0}, NEW b \in Nat \ {0}, a < b
  PROVE  FirstDay(a + 1) <= FirstDay(b)
<1> DEFINE P == {n \in Nat : FirstDay(a + 1) <= FirstDay(a + 1 + n)}
<1>1. 0 \in P
  <2>1. FirstDay(a + 1) \in Nat /\ a + 1 + 0 = a + 1
    BY MonthLength
  <2> QED
    BY <2>1
<1>2. ASSUME NEW n \in Nat, n \in P PROVE n + 1 \in P
  <2>1. PICK c \in Nat \ {0} : c = a + 1 + n
    OBVIOUS
  <2>2. FirstDay(c) \in Nat /\ FirstDay(c + 1) \in (FirstDay(c) + 28) .. (FirstDay(c) + 31) /\ FirstDay(a + 1) \in Nat
    BY MonthLength
  <2>3. FirstDay(a + 1) <= FirstDay(c)
    BY <1>2, <2>1
  <2>4. c + 1 = a + 1 + (n + 1)
    BY <2>1
  <2>5. FirstDay(a + 1) <= FirstDay(c + 1)
    BY <2>2, <2>3
  <2> QED
    BY <2>4, <2>5
<1> HIDE DEF P
<1>3. b - (a + 1) \in P
  BY <1>1, <1>2, AllNumbers
<1>4. a + 1 + (b - (a + 1)) = b
  OBVIOUS
<1> QED
  BY <1>3, <1>4 DEF P

\* A day is in its month.
LEMMA MonthHasDay ==
  ASSUME NEW d \in Nat
  PROVE  Month(d) \in Nat \ {0} /\ FirstDay(Month(d)) <= d /\ d < FirstDay(Month(d) + 1)
<1> DEFINE r == d % 365
           S == {m \in 1 .. 12 : MonthStart[m] <= r}
<1>1. PICK y \in Nat : y = d \div 365 /\ r \in 0 .. 364 /\ d = 365 * y + r
  OBVIOUS
<1>2. PICK m \in 1 .. 12 : m = Max(S) /\ MonthStart[m] <= r /\ (m < 12 => r < MonthStart[m + 1])
  <2>1. 1 \in S
    BY <1>1 DEF MonthStart
  <2>2. \E m \in S : \A n \in S : m >= n
    <3> DEFINE Bad == {m \in Nat : 12 - m \in S}
    <3>1. 11 \in Bad
      BY <2>1
    <3>2. PICK k \in Bad : \A n \in Bad : ~ (<<n, k>> \in LessThan)
      BY <3>1, LessThanWellFounded, WFMin
    <3>3. 12 - k \in S
      BY <3>2
    <3>4. ASSUME NEW n \in S PROVE 12 - k >= n
      <4>1. n \in 1 .. 12 /\ 12 - n \in Nat /\ 12 - (12 - n) = n
        OBVIOUS
      <4>2. 12 - n \in Bad
        BY <4>1
      <4>3. ~(12 - n < k)
        BY <3>2, <4>1, <4>2 DEF LessThan
      <4> QED
        BY <3>2, <4>1, <4>3
    <3> QED
      BY <3>3, <3>4
  <2>3. Max(S) \in S /\ \A n \in S : Max(S) >= n
    BY <2>2 DEF Max
  <2>4. Max(S) < 12 => Max(S) + 1 \notin S /\ Max(S) + 1 \in 1 .. 12
    BY <2>3
  <2>5. \A n \in 1 .. 12 : MonthStart[n] \in Int
    BY DEF MonthStart
  <2> QED
    BY <1>1, <2>3, <2>4, <2>5
<1>3. Month(d) = 12 * y + m
  BY <1>1, <1>2 DEF Month
<1>4. FirstDay(Month(d)) = 365 * y + MonthStart[m] /\ MonthStart[m] \in 0 .. 334
  BY <1>3, FirstDayIs
<1>5. CASE m < 12
  <2>1. Month(d) + 1 = 12 * y + (m + 1) /\ m + 1 \in 1 .. 12
    BY <1>3, <1>5
  <2>2. FirstDay(Month(d) + 1) = 365 * y + MonthStart[m + 1] /\ MonthStart[m + 1] \in 0 .. 334
    BY <2>1, FirstDayIs
  <2> QED
    BY <1>1, <1>2, <1>3, <1>4, <1>5, <2>2
<1>6. CASE m = 12
  <2>1. PICK z \in Nat, one \in 1 .. 12 : z = y + 1 /\ one = 1
    OBVIOUS
  <2>2. FirstDay(12 * z + one) = 365 * z + MonthStart[one] /\ MonthStart[one] \in 0 .. 334
    BY FirstDayIs
  <2>3. Month(d) + 1 = 12 * z + one
    BY <1>3, <1>6, <2>1
  <2> QED
    BY <1>1, <1>2, <1>3, <1>4, <2>1, <2>2, <2>3
<1> QED
  BY <1>5, <1>6

\* In no other.
LEMMA OnlyMonth ==
  ASSUME NEW d \in Nat, NEW n \in Nat \ {0}, FirstDay(n) <= d, d < FirstDay(n + 1)
  PROVE  Month(d) = n
<1>1. PICK m \in Nat \ {0} : m = Month(d) /\ FirstDay(m) <= d /\ d < FirstDay(m + 1)
  BY MonthHasDay
<1>2. FirstDay(m) \in Nat /\ FirstDay(m + 1) \in Nat /\ FirstDay(n) \in Nat /\ FirstDay(n + 1) \in Nat
  BY MonthLength
<1>3. ~(m < n)
  BY <1>1, <1>2, MonthsFollow
<1>4. ~(n < m)
  BY <1>1, <1>2, MonthsFollow
<1> QED
  BY <1>1, <1>3, <1>4

\* The months of days are in the order of the days.
LEMMA MonthsInOrder ==
  ASSUME NEW a \in Nat, NEW b \in Nat, a <= b
  PROVE  Month(a) <= Month(b)
<1>1. PICK m \in Nat \ {0} : m = Month(a) /\ FirstDay(m) <= a /\ a < FirstDay(m + 1)
  BY MonthHasDay
<1>2. PICK n \in Nat \ {0} : n = Month(b) /\ FirstDay(n) <= b /\ b < FirstDay(n + 1)
  BY MonthHasDay
<1>3. FirstDay(m) \in Nat /\ FirstDay(m + 1) \in Nat /\ FirstDay(n) \in Nat /\ FirstDay(n + 1) \in Nat
  BY MonthLength
<1>4. ~(n < m)
  BY <1>1, <1>2, <1>3, MonthsFollow
<1> QED
  BY <1>1, <1>2, <1>4

\* AddDate goes to the same day of the next month if every month has that day.
LEMMA AddMonthIs ==
  ASSUME NEW d \in Nat
  PROVE  /\ AddMonth(d) \in (d + 1) .. (d + 31) /\ DayOfMonth(d) \in 0 .. 30
         /\ DayOfMonth(d) < 28 => Month(AddMonth(d)) = Month(d) + 1 /\ DayOfMonth(AddMonth(d)) = DayOfMonth(d)
<1>1. PICK m \in Nat \ {0} : m = Month(d) /\ FirstDay(m) <= d /\ d < FirstDay(m + 1)
  BY MonthHasDay
<1>2. /\ FirstDay(m) \in Nat /\ FirstDay(m + 1) \in (FirstDay(m) + 28) .. (FirstDay(m) + 31)
      /\ FirstDay(m + 2) \in (FirstDay(m + 1) + 28) .. (FirstDay(m + 1) + 31)
  <2>1. m + 1 \in Nat \ {0} /\ (m + 1) + 1 = m + 2
    OBVIOUS
  <2> QED
    BY <2>1, MonthLength
<1>3. DayOfMonth(d) = d - FirstDay(m) /\ AddMonth(d) = FirstDay(m + 1) + (d - FirstDay(m))
  BY <1>1 DEF DayOfMonth, AddMonth
<1>4. PICK e \in Nat : e = AddMonth(d)
  BY <1>1, <1>2, <1>3
<1>5. ASSUME DayOfMonth(d) < 28
      PROVE  Month(e) = m + 1 /\ DayOfMonth(e) = DayOfMonth(d)
  <2>1. FirstDay(m + 1) <= e /\ e < FirstDay((m + 1) + 1) /\ m + 1 \in Nat \ {0}
    BY <1>1, <1>2, <1>3, <1>4, <1>5
  <2>2. Month(e) = m + 1
    BY <2>1, OnlyMonth
  <2>3. DayOfMonth(e) = e - FirstDay(m + 1)
    BY <2>2 DEF DayOfMonth
  <2> QED
    BY <1>1, <1>2, <1>3, <1>4, <2>2, <2>3
<1> QED
  BY <1>1, <1>2, <1>3, <1>4, <1>5


---------------------------------------------------------------------------
(* The labels of a period.                                                 *)

NextDate(unit, d) == IF unit = "MONTH" THEN AddMonth(d) ELSE d + 1

\* f[d] has the labels from d on.
LabelsOf(f, unit, from, to) ==
  f = [d \in from .. to + 62 |-> IF d > to THEN <<>> ELSE <<Label(unit, d)>> \o f[NextDate(unit, d)]]

\* The same, for the last n dates.
LabelsOfLast(f, unit, from, to, n) ==
  \A d \in from .. to + 62 : d > to - n =>
    f[d] = IF d > to THEN <<>> ELSE <<Label(unit, d)>> \o f[NextDate(unit, d)]

LEMMA NextDateIs ==
  ASSUME NEW unit, NEW d \in Nat
  PROVE  NextDate(unit, d) \in (d + 1) .. (d + 31) /\ Label(unit, d) \in Nat
<1>1. AddMonth(d) \in (d + 1) .. (d + 31) /\ Month(d) \in Nat
  BY AddMonthIs, MonthHasDay
<1>2. d + 1 \in (d + 1) .. (d + 31)
  OBVIOUS
<1> QED
  BY <1>1, <1>2 DEF NextDate, Label

LEMMA LabelsFurther ==
  ASSUME NEW unit, NEW from \in Nat, NEW to \in Nat, NEW n \in Nat, NEW f, LabelsOfLast(f, unit, from, to, n)
  PROVE  \E g : LabelsOfLast(g, unit, from, to, n + 1)
<1>1. PICK g : g = [d \in from .. to + 62 |-> IF d > to - n THEN f[d] ELSE <<Label(unit, d)>> \o f[NextDate(unit, d)]]
  OBVIOUS
<1>2. ASSUME NEW d \in from .. to + 62, d > to - (n + 1)
      PROVE  g[d] = IF d > to THEN <<>> ELSE <<Label(unit, d)>> \o g[NextDate(unit, d)]
  <2>1. PICK e \in Nat : e = NextDate(unit, d) /\ e \in (d + 1) .. (d + 31)
    BY NextDateIs
  <2>2. d <= to => g[e] = f[e]
    <3>1. d <= to => e \in from .. to + 62 /\ e > to - n
      BY <1>2, <2>1
    <3> QED
      BY <1>1, <3>1
  <2>3. CASE d > to - n
    <3>1. f[d] = IF d > to THEN <<>> ELSE <<Label(unit, d)>> \o f[e]
      BY <2>1, <2>3 DEF LabelsOfLast
    <3>2. g[d] = f[d]
      BY <1>1, <2>3
    <3>3. d > to \/ d <= to
      OBVIOUS
    <3> QED
      BY ONLY <2>1, <2>2, <3>1, <3>2, <3>3
  <2>4. CASE ~(d > to - n)
    <3>1. d <= to /\ ~(d > to)
      BY <2>4
    <3>2. g[d] = <<Label(unit, d)>> \o f[e]
      BY <1>1, <2>1, <2>4
    <3> QED
      BY ONLY <2>1, <2>2, <3>1, <3>2
  <2> QED
    BY <2>3, <2>4
<1>3. LabelsOfLast(g, unit, from, to, n + 1)
  BY <1>2 DEF LabelsOfLast
<1> QED
  BY <1>3

LEMMA LabelsExist ==
  ASSUME NEW unit, NEW from \in Nat, NEW to \in Nat
  PROVE  \E f : LabelsOf(f, unit, from, to)
<1> DEFINE P == {n \in Nat : \E f : LabelsOfLast(f, unit, from, to, n)}
<1>1. 0 \in P
  <2>1. PICK f : f = [d \in from .. to + 62 |-> <<>>]
    OBVIOUS
  <2>2. LabelsOfLast(f, unit, from, to, 0)
    BY <2>1 DEF LabelsOfLast
  <2> QED
    BY <2>2
<1>2. ASSUME NEW n \in Nat, n \in P PROVE n + 1 \in P
  <2>1. PICK f : LabelsOfLast(f, unit, from, to, n)
    BY <1>2
  <2>2. \E g : LabelsOfLast(g, unit, from, to, n + 1)
    BY <2>1, LabelsFurther
  <2> QED
    BY <2>2
<1> HIDE DEF P
<1>3. to + 1 \in P
  BY <1>1, <1>2, AllNumbers
<1>4. PICK f : LabelsOfLast(f, unit, from, to, to + 1)
  BY <1>3 DEF P
<1>5. PICK g : g = [d \in from .. to + 62 |-> f[d]]
  OBVIOUS
<1>6. ASSUME NEW d \in from .. to + 62
      PROVE  g[d] = IF d > to THEN <<>> ELSE <<Label(unit, d)>> \o g[NextDate(unit, d)]
  <2>1. f[d] = IF d > to THEN <<>> ELSE <<Label(unit, d)>> \o f[NextDate(unit, d)]
    <3>1. d > to - (to + 1)
      OBVIOUS
    <3> QED
      BY <1>4, <3>1 DEF LabelsOfLast
  <2>2. PICK e \in Nat : e = NextDate(unit, d) /\ e \in (d + 1) .. (d + 31)
    BY NextDateIs
  <2>3. d <= to => g[e] = f[e]
    BY <1>5, <2>2
  <2> QED
    BY <1>5, <2>1, <2>2, <2>3
<1>7. g = [d \in from .. to + 62 |-> g[d]]
  BY <1>5
<1>8. LabelsOf(g, unit, from, to)
  BY <1>6, <1>7, Zenon DEF LabelsOf
<1> QED
  BY <1>8

\* Labels reads the recursion at its first date.
LEMMA LabelsAre ==
  ASSUME NEW unit, NEW from \in Nat, NEW to \in Nat
  PROVE  \E f : LabelsOf(f, unit, from, to) /\ Labels(unit, from, to) = f[from]
<1> DEFINE Rec(f) == [d \in from .. to + 62 |->
                        IF d > to THEN <<>>
                        ELSE <<Label(unit, d)>> \o f[IF unit = "MONTH" THEN AddMonth(d) ELSE d + 1]]
           labels == CHOOSE f : f = Rec(f)
<1>1. Labels(unit, from, to) = labels[from]
  BY DEF Labels
<1>2. PICK f : LabelsOf(f, unit, from, to)
  BY LabelsExist
<1>3. f = Rec(f)
  BY <1>2, Zenon DEF LabelsOf, NextDate
<1>4. labels = Rec(labels)
  BY <1>3
<1> HIDE DEF labels
<1>5. LabelsOf(labels, unit, from, to)
  BY <1>4, Zenon DEF LabelsOf, NextDate
<1> QED
  BY <1>1, <1>5

\* The numbers from a to b.
Run(a, b) == [i \in 1 .. (b - a) + 1 |-> (a + i) - 1]

LEMMA RunIs ==
  ASSUME NEW a \in Nat, NEW b \in Nat
  PROVE  /\ a > b => Run(a, b) = <<>>
         /\ a <= b => Run(a, b) = <<a>> \o Run(a + 1, b)
<1>1. ASSUME a > b PROVE Run(a, b) = <<>>
  <2>1. 1 .. (b - a) + 1 = {}
    BY <1>1
  <2> QED
    BY <2>1 DEF Run
<1>2. ASSUME a <= b PROVE Run(a, b) = <<a>> \o Run(a + 1, b)
  <2>1. PICK n \in Nat : n = b - a
    BY <1>2
  <2>2. Run(a + 1, b) \in [1 .. n -> Nat] /\ \A i \in 1 .. n : Run(a + 1, b)[i] = a + i
    BY <2>1 DEF Run
  <2>3. PICK r \in Seq(Nat) : r = Run(a + 1, b) /\ Len(r) = n /\ \A i \in 1 .. n : r[i] = a + i
    BY <2>2
  <2>4. PICK s, t : s = <<a>> /\ t = s \o r
    OBVIOUS
  <2>5. s \in Seq(Nat) /\ Len(s) = 1 /\ s[1] = a
    BY <2>4
  <2>6. /\ t \in Seq(Nat) /\ Len(t) = n + 1
        /\ \A i \in 1 .. n + 1 : t[i] = IF i <= 1 THEN s[i] ELSE r[i - 1]
    <3>1. /\ t \in Seq(Nat) /\ Len(t) = Len(s) + Len(r)
          /\ \A i \in 1 .. Len(s) + Len(r) : t[i] = IF i <= Len(s) THEN s[i] ELSE r[i - Len(s)]
      BY <2>3, <2>4, <2>5, ConcatProperties
    <3>2. Len(s) + Len(r) = n + 1
      BY <2>3, <2>5
    <3> QED
      BY <2>5, <3>1, <3>2
  <2>7. ASSUME NEW i \in 1 .. n + 1 PROVE t[i] = (a + i) - 1
    <3>1. CASE i = 1
      BY <2>5, <2>6, <3>1
    <3>2. CASE i # 1
      <4>1. PICK j \in 1 .. n : j = i - 1 /\ ~(i <= 1)
        BY <3>2
      <4>2. t[i] = r[j]
        BY <2>6, <4>1
      <4> QED
        BY <2>3, <4>1, <4>2
    <3> QED
      BY <3>1, <3>2
  <2>8. t = [i \in 1 .. n + 1 |-> (a + i) - 1]
    BY <2>6, <2>7
  <2>9. n + 1 = (b - a) + 1
    BY <2>1
  <2> QED
    BY <2>3, <2>4, <2>8, <2>9 DEF Run
<1> QED
  BY <1>1, <1>2

\* A chain of dates: the labels of any of them follow on each other, as far as hi.
Chain(C, unit, to, hi) ==
  /\ hi \in Nat
  /\ \A d \in Nat : d \in C =>
       /\ NextDate(unit, d) \in C /\ Label(unit, NextDate(unit, d)) = Label(unit, d) + 1
       /\ d > to <=> Label(unit, d) > hi

LEMMA LabelsOfChain ==
  ASSUME NEW unit, NEW from \in Nat, NEW to \in Nat, NEW f, LabelsOf(f, unit, from, to),
         NEW C, NEW hi, Chain(C, unit, to, hi), NEW d0 \in from .. to + 62, d0 \in C
  PROVE  f[d0] = Run(Label(unit, d0), hi)
<1> DEFINE P == {n \in Nat : \A d \in from .. to + 62 : d \in C /\ d > to - n => f[d] = Run(Label(unit, d), hi)}
<1>1. \A d \in from .. to + 62 : f[d] = IF d > to THEN <<>> ELSE <<Label(unit, d)>> \o f[NextDate(unit, d)]
  BY Zenon DEF LabelsOf
<1>2. 0 \in P
  <2>1. ASSUME NEW d \in from .. to + 62, d \in C, d > to PROVE f[d] = Run(Label(unit, d), hi)
    <3>1. Label(unit, d) \in Nat /\ Label(unit, d) > hi /\ hi \in Nat
      BY <2>1, NextDateIs DEF Chain
    <3>2. f[d] = <<>>
      BY <1>1, <2>1
    <3> QED
      BY <3>1, <3>2, RunIs
  <2> QED
    BY <2>1
<1>3. ASSUME NEW n \in Nat, n \in P PROVE n + 1 \in P
  <2>1. ASSUME NEW d \in from .. to + 62, d \in C, d > to - (n + 1), ~(d > to - n) PROVE f[d] = Run(Label(unit, d), hi)
    <3>1. PICK e \in Nat : e = NextDate(unit, d) /\ e \in (d + 1) .. (d + 31)
      BY NextDateIs
    <3>2. d \in Nat /\ d <= to /\ e \in from .. to + 62 /\ e > to - n
      BY <2>1, <3>1
    <3>3. e \in C /\ Label(unit, e) = Label(unit, d) + 1 /\ ~(Label(unit, d) > hi) /\ hi \in Nat
      BY <2>1, <3>1, <3>2 DEF Chain
    <3>4. f[e] = Run(Label(unit, e), hi)
      BY <1>3, <3>2, <3>3
    <3>5. f[d] = <<Label(unit, d)>> \o f[e]
      <4>1. f[d] = IF d > to THEN <<>> ELSE <<Label(unit, d)>> \o f[NextDate(unit, d)]
        BY <1>1, Zenon
      <4>2. ~(d > to)
        BY <3>2
      <4> QED
        BY ONLY <3>1, <4>1, <4>2
    <3>6. Label(unit, d) \in Nat
      BY <3>2, NextDateIs
    <3> QED
      BY <3>3, <3>4, <3>5, <3>6, RunIs
  <2>2. \A d \in from .. to + 62 : d \in C /\ d > to - (n + 1) => f[d] = Run(Label(unit, d), hi)
    BY <1>3, <2>1
  <2> QED
    BY <2>2
<1> HIDE DEF P
<1>4. to + 1 \in P
  BY <1>2, <1>3, AllNumbers
<1>5. d0 > to - (to + 1)
  OBVIOUS
<1> QED
  BY <1>4, <1>5 DEF P

\* The labels are numbers of days or months.
LEMMA LabelsType ==
  ASSUME NEW unit, NEW from \in Nat, NEW to \in Nat, from <= to
  PROVE  Labels(unit, from, to) \in Seq(Nat)
<1>1. PICK f : LabelsOf(f, unit, from, to) /\ Labels(unit, from, to) = f[from]
  BY LabelsAre
<1> DEFINE P == {n \in Nat : \A d \in from .. to + 62 : d > to - n => f[d] \in Seq(Nat)}
<1>2. \A d \in from .. to + 62 : f[d] = IF d > to THEN <<>> ELSE <<Label(unit, d)>> \o f[NextDate(unit, d)]
  BY <1>1, Zenon DEF LabelsOf
<1>3. 0 \in P
  <2>1. ASSUME NEW d \in from .. to + 62, d > to - 0 PROVE f[d] \in Seq(Nat)
    <3>1. f[d] = IF d > to THEN <<>> ELSE <<Label(unit, d)>> \o f[NextDate(unit, d)]
      BY <1>2, Zenon
    <3>2. d > to /\ <<>> \in Seq(Nat)
      BY <2>1
    <3> QED
      BY ONLY <3>1, <3>2
  <2> QED
    BY <2>1
<1>4. ASSUME NEW n \in Nat, n \in P PROVE n + 1 \in P
  <2>1. ASSUME NEW d \in from .. to + 62, d > to - (n + 1), ~(d > to - n) PROVE f[d] \in Seq(Nat)
    <3>1. PICK e \in Nat : e = NextDate(unit, d) /\ e \in (d + 1) .. (d + 31)
      BY NextDateIs
    <3>2. d <= to /\ e \in from .. to + 62 /\ e > to - n
      BY <2>1, <3>1
    <3>3. f[e] \in Seq(Nat) /\ <<Label(unit, d)>> \in Seq(Nat)
      BY <1>4, <3>2, NextDateIs
    <3>4. f[d] = <<Label(unit, d)>> \o f[e]
      <4>1. f[d] = IF d > to THEN <<>> ELSE <<Label(unit, d)>> \o f[NextDate(unit, d)]
        BY <1>2, Zenon
      <4>2. ~(d > to)
        BY <3>2
      <4> QED
        BY ONLY <3>1, <4>1, <4>2
    <3> QED
      BY <3>3, <3>4
  <2>2. \A d \in from .. to + 62 : d > to - (n + 1) => f[d] \in Seq(Nat)
    BY <1>4, <2>1
  <2> QED
    BY <2>2
<1> HIDE DEF P
<1>5. to + 1 \in P
  BY <1>3, <1>4, AllNumbers
<1>6. from > to - (to + 1) /\ from \in from .. to + 62
  OBVIOUS
<1> QED
  BY <1>1, <1>5, <1>6 DEF P

\* Where the months of the period are those of its labels, the labels have all of them.
LEMMA LabelsRun ==
  ASSUME NEW unit \in {"DAY", "MONTH"}, NEW from \in Nat, NEW to \in Nat, from <= to,
         unit = "DAY" \/ MonthsAlign(from, to)
  PROVE  Labels(unit, from, to) = Run(Label(unit, from), Label(unit, to))
<1>1. PICK f : LabelsOf(f, unit, from, to) /\ Labels(unit, from, to) = f[from]
  BY LabelsAre
<1>2. PICK C : from \in C /\ Chain(C, unit, to, Label(unit, to))
  <2>0. Label(unit, to) \in Nat
    BY NextDateIs
  <2>1. CASE unit = "DAY"
    <3>1. \A d \in Nat : NextDate(unit, d) = d + 1 /\ Label(unit, d) = d
      BY <2>1 DEF NextDate, Label
    <3>2. \A d \in Nat : NextDate(unit, d) \in Nat /\ Label(unit, NextDate(unit, d)) = Label(unit, d) + 1
      BY <3>1
    <3>3. Chain(Nat, unit, to, Label(unit, to))
      BY <2>0, <3>1, <3>2 DEF Chain
    <3> QED
      BY <3>3
  <2>2. CASE unit = "MONTH"
    <3>1. PICK k : k = DayOfMonth(from) /\ k \in 0 .. 27 /\ k <= DayOfMonth(to)
      BY <2>2, AddMonthIs DEF MonthsAlign
    <3>2. PICK C : C = {d \in Nat : DayOfMonth(d) = k}
      OBVIOUS
    <3>3. \A d \in Nat : NextDate(unit, d) = AddMonth(d) /\ Label(unit, d) = Month(d)
      BY <2>2 DEF NextDate, Label
    <3>4. ASSUME NEW d \in C
          PROVE  NextDate(unit, d) \in C /\ Label(unit, NextDate(unit, d)) = Label(unit, d) + 1
      <4>1. d \in Nat /\ AddMonth(d) \in Nat
        BY <3>2, AddMonthIs
      <4>2. Month(AddMonth(d)) = Month(d) + 1 /\ DayOfMonth(AddMonth(d)) = k
        BY <3>1, <3>2, <4>1, AddMonthIs
      <4> QED
        BY <3>2, <3>3, <4>1, <4>2
    <3>5. ASSUME NEW d \in C PROVE d > to <=> Month(d) > Month(to)
      <4>1. d \in Nat /\ DayOfMonth(d) = k
        BY <3>2
      <4>2. PICK m \in Nat \ {0}, n \in Nat \ {0} : m = Month(d) /\ n = Month(to)
        BY <4>1, MonthHasDay
      <4>3. FirstDay(m) \in Nat /\ FirstDay(n) \in Nat /\ d = FirstDay(m) + k /\ to >= FirstDay(n) + k
        BY <3>1, <4>1, <4>2, MonthLength DEF DayOfMonth
      <4>4. CASE m > n
        <5>1. FirstDay(n + 1) \in Nat
          BY MonthLength
        <5>2. to < FirstDay(n + 1) /\ FirstDay(n + 1) <= FirstDay(m)
          BY <4>2, <4>4, MonthHasDay, MonthsFollow
        <5> QED
          BY <3>1, <4>2, <4>3, <4>4, <5>1, <5>2
      <4>5. CASE m = n
        BY <3>1, <4>1, <4>2, <4>3, <4>5
      <4>6. CASE m < n
        <5>1. FirstDay(m + 1) \in Nat
          BY MonthLength
        <5>2. d < FirstDay(m + 1) /\ FirstDay(m + 1) <= FirstDay(n)
          BY <4>1, <4>2, <4>6, MonthHasDay, MonthsFollow
        <5> QED
          BY <3>1, <4>1, <4>2, <4>3, <4>6, <5>1, <5>2
      <4> QED
        BY <4>4, <4>5, <4>6
    <3>6. Chain(C, unit, to, Label(unit, to))
      BY <2>0, <3>2, <3>3, <3>4, <3>5 DEF Chain
    <3> QED
      BY <3>1, <3>2, <3>6
  <2> QED
    BY <2>1, <2>2
<1>3. from \in from .. to + 62
  OBVIOUS
<1> QED
  BY <1>1, <1>2, <1>3, LabelsOfChain


---------------------------------------------------------------------------
(* The buckets.                                                            *)

Below(L, l) == {k \in L : k < l}

Ranked(L) == [i \in 1 .. Cardinality(L) |-> CHOOSE l \in L : Cardinality(Below(L, l)) = i - 1]

\* The i-th of r has its place among the numbers of L.
Placed(L, r, i) == r[i] \in L /\ Cardinality(Below(L, r[i])) = i - 1

\* As many numbers are below a number as it has in front of it.
LEMMA RanksDiffer ==
  ASSUME NEW L, L \subseteq Nat, IsFiniteSet(L), NEW a \in L, NEW b \in L,
         Cardinality(Below(L, a)) = Cardinality(Below(L, b))
  PROVE  a = b
<1>1. ASSUME NEW x \in L, NEW y \in L, x < y, Cardinality(Below(L, x)) = Cardinality(Below(L, y)) PROVE FALSE
  <2>0. x \in Nat /\ y \in Nat /\ ~(x < x) /\ \A k \in L : k \in Nat /\ (k < x => k < y)
    BY <1>1
  <2>1. Below(L, x) \subseteq Below(L, y) /\ x \in Below(L, y) /\ x \notin Below(L, x)
    BY <1>1, <2>0 DEF Below
  <2>2. IsFiniteSet(Below(L, y))
    BY FS_Subset DEF Below
  <2>3. Below(L, y) = Below(L, x)
    BY ONLY <1>1, <2>1, <2>2, FS_Subset
  <2> QED
    BY <2>1, <2>3
<1>2. ~(a < b) /\ ~(b < a)
  BY <1>1
<1>3. a \in Nat /\ b \in Nat
  OBVIOUS
<1> QED
  BY <1>2, <1>3

LEMMA RankType ==
  ASSUME NEW L, L \subseteq Nat, IsFiniteSet(L), NEW l \in L
  PROVE  Cardinality(Below(L, l)) + 1 \in 1 .. Cardinality(L)
<1>1. PICK s : s = Below(L, l)
  OBVIOUS
<1>2. s \subseteq L /\ l \notin s
  BY <1>1 DEF Below
<1>3. IsFiniteSet(s) /\ Cardinality(s) \in Nat /\ Cardinality(L) \in Nat
  BY <1>2, FS_Subset, FS_CardinalityType
<1>4. Cardinality(s) <= Cardinality(L) /\ Cardinality(s) # Cardinality(L)
  BY <1>2, FS_Subset
<1> QED
  BY <1>1, <1>3, <1>4

\* Every number of a set has its place among them.
LEMMA RankedHas ==
  ASSUME NEW L, L \subseteq Nat, IsFiniteSet(L), NEW r, r = Ranked(L)
  PROVE  /\ DOMAIN r = 1 .. Cardinality(L)
         /\ \A i \in DOMAIN r : Placed(L, r, i)
         /\ L \subseteq ToSet(r)
         /\ \A i, j \in DOMAIN r : i # j => r[i] # r[j]
<1>1. PICK n \in Nat : n = Cardinality(L)
  BY FS_CardinalityType
<1>2. PICK h : h = [l \in L |-> Cardinality(Below(L, l)) + 1]
  OBVIOUS
<1>3. h \in [L -> 1 .. n]
  BY <1>1, <1>2, RankType
<1>4. \A l \in L : Cardinality(Below(L, l)) \in Nat
  BY FS_Subset, FS_CardinalityType DEF Below
<1>5. \A a, b \in L : h[a] = h[b] => a = b
  <2>1. ASSUME NEW a \in L, NEW b \in L, h[a] = h[b] PROVE a = b
    <3>1. Cardinality(Below(L, a)) = Cardinality(Below(L, b))
      BY <1>2, <1>4, <2>1
    <3> QED
      BY <3>1, RanksDiffer
  <2> QED
    BY <2>1
<1>6. h \in Injection(L, 1 .. n)
  BY <1>3, <1>5 DEF Injection, IsInjective
<1>7. IsFiniteSet(1 .. n) /\ Cardinality(1 .. n) = n
  BY <1>1, FS_Interval
<1>8. h \in Surjection(L, 1 .. n)
  BY <1>1, <1>6, <1>7, FS_Injection
<1>9. \A i \in 1 .. n : \E l \in L : Cardinality(Below(L, l)) = i - 1
  <2>1. ASSUME NEW i \in 1 .. n PROVE \E l \in L : Cardinality(Below(L, l)) = i - 1
    <3>1. PICK l \in L : h[l] = i
      BY <1>8 DEF Surjection
    <3>2. Cardinality(Below(L, l)) = i - 1
      BY <1>2, <1>4, <3>1
    <3> QED
      BY <3>2
  <2> QED
    BY <2>1
<1>10. DOMAIN r = 1 .. n
  BY <1>1 DEF Ranked
<1>11. ASSUME NEW i \in DOMAIN r PROVE r[i] \in L /\ Cardinality(Below(L, r[i])) = i - 1
  <2>1. r[i] = CHOOSE l \in L : Cardinality(Below(L, l)) = i - 1
    BY <1>1, <1>10 DEF Ranked
  <2> QED
    BY <1>9, <1>10, <2>1
<1>12. ASSUME NEW l \in L PROVE \E i \in DOMAIN r : r[i] = l
  <2>1. PICK i \in 1 .. n : i = Cardinality(Below(L, l)) + 1
    BY <1>1, RankType
  <2>2. r[i] \in L /\ Cardinality(Below(L, r[i])) = Cardinality(Below(L, l))
    BY <1>4, <1>10, <1>11, <2>1
  <2>3. r[i] = l
    BY <2>2, RanksDiffer
  <2> QED
    BY <1>10, <2>3
<1>13. ASSUME NEW i \in DOMAIN r, NEW j \in DOMAIN r, r[i] = r[j] PROVE i = j
  BY <1>10, <1>11, <1>13
<1>14. \A i \in DOMAIN r : Placed(L, r, i)
  BY <1>11 DEF Placed
<1>15. L \subseteq ToSet(r)
  BY <1>12 DEF ToSet
<1> QED
  BY <1>1, <1>10, <1>13, <1>14, <1>15

\* The places of the numbers of an interval.
LEMMA RankedRun ==
  ASSUME NEW a \in Nat, NEW b \in Nat, a <= b
  PROVE  Ranked(a .. b) = Run(a, b)
<1>1. PICK L : L = a .. b
  OBVIOUS
<1>2. L \subseteq Nat /\ IsFiniteSet(L) /\ Cardinality(L) = (b - a) + 1
  BY <1>1, FS_Interval
<1>3. PICK r : r = Ranked(L)
  OBVIOUS
<1>4. DOMAIN r = 1 .. (b - a) + 1 /\ \A i \in DOMAIN r : r[i] \in L /\ Cardinality(Below(L, r[i])) = i - 1
  <2>0. L \subseteq Nat /\ IsFiniteSet(L)
    BY <1>2
  <2>1. DOMAIN r = 1 .. Cardinality(L)
    BY <2>0, <1>3, RankedHas
  <2>2. \A i \in DOMAIN r : Placed(L, r, i)
    BY <2>0, <1>3, RankedHas
  <2> QED
    BY <1>2, <2>1, <2>2 DEF Placed
<1>5. ASSUME NEW i \in DOMAIN r PROVE r[i] = (a + i) - 1
  <2>1. PICK l \in L : l = (a + i) - 1
    BY <1>1, <1>4
  <2>2. Below(L, l) = a .. (l - 1)
    BY <1>1, <2>1 DEF Below
  <2>3. Cardinality(a .. (l - 1)) = i - 1
    <3>1. PICK m \in Int : m = l - 1
      BY <1>2
    <3>2. Cardinality(a .. m) = IF a > m THEN 0 ELSE m - a + 1
      BY FS_Interval
    <3>3. Cardinality(a .. m) = i - 1
      BY <1>2, <1>4, <2>1, <3>1, <3>2
    <3> QED
      BY <3>1, <3>3
  <2>4. r[i] \in L /\ Cardinality(Below(L, r[i])) = Cardinality(Below(L, l))
    BY <1>4, <2>2, <2>3
  <2> QED
    BY <1>2, <2>1, <2>4, RanksDiffer
<1>6. r = [i \in 1 .. (b - a) + 1 |-> r[i]]
  BY <1>3, <1>4 DEF Ranked
<1>7. r = [i \in 1 .. (b - a) + 1 |-> (a + i) - 1]
  BY <1>4, <1>5, <1>6
<1> QED
  BY <1>1, <1>3, <1>7 DEF Run

\* What the statistics of a period are made of.
Counted(unit, from, to, rows) ==
  /\ unit \in {"DAY", "MONTH"} /\ from \in Nat /\ to \in Nat /\ from <= to
  /\ IsFiniteSet(rows)
  /\ \A r \in rows : r.at \in Nat /\ r.tokens \in Nat /\ Day(r.at) \in from .. to

LabelsMet(unit, from, to, rows) == ToSet(Labels(unit, from, to)) \union {Label(unit, Day(r.at)) : r \in rows}

LEMMA BucketsAre ==
  ASSUME NEW unit, NEW from, NEW to, NEW rows
  PROVE  Buckets(unit, from, to, rows) = Ranked(LabelsMet(unit, from, to, rows))
  BY DEF Buckets, Ranked, Below, LabelsMet

LEMMA ElementsFinite ==
  ASSUME NEW T, NEW s \in Seq(T)
  PROVE  ToSet(s) \subseteq T /\ IsFiniteSet(ToSet(s))
<1>1. DOMAIN s = 1 .. Len(s) /\ Len(s) \in Nat /\ s \in [1 .. Len(s) -> T]
  OBVIOUS
<1>2. IsFiniteSet(DOMAIN s)
  BY <1>1, FS_Interval
<1>3. s \in Surjection(DOMAIN s, ToSet(s))
  <2>1. s \in [DOMAIN s -> ToSet(s)]
    BY <1>1 DEF ToSet
  <2>2. \A y \in ToSet(s) : \E i \in DOMAIN s : s[i] = y
    BY DEF ToSet
  <2> QED
    BY <2>1, <2>2 DEF Surjection
<1>4. IsFiniteSet(ToSet(s))
  BY <1>2, <1>3, FS_Surjection
<1> QED
  BY <1>1, <1>4 DEF ToSet

\* The image of a finite set under a function.
LEMMA ImageFinite ==
  ASSUME NEW S, IsFiniteSet(S), NEW f
  PROVE  /\ IsFiniteSet({f[x] : x \in S}) /\ Cardinality({f[x] : x \in S}) <= Cardinality(S)
         /\ Cardinality({f[x] : x \in S}) \in Nat /\ (S # {} => Cardinality({f[x] : x \in S}) >= 1)
<1>1. PICK T : T = {f[x] : x \in S}
  OBVIOUS
<1>2. PICK g : g = [x \in S |-> f[x]]
  OBVIOUS
<1>3. g \in Surjection(S, T)
  BY <1>1, <1>2 DEF Surjection
<1>4. IsFiniteSet(T) /\ Cardinality(T) <= Cardinality(S)
  BY <1>3, FS_Surjection
<1>5. Cardinality(T) \in Nat /\ (Cardinality(T) = 0 <=> T = {})
  BY <1>4, FS_CardinalityType, FS_EmptySet
<1>6. S # {} => T # {}
  BY <1>1
<1>7. Cardinality(T) \in Nat /\ (S # {} => Cardinality(T) >= 1)
  BY <1>5, <1>6
<1> QED
  BY ONLY <1>1, <1>4, <1>7

\* The buckets are the labels of the period and of the rows.
LEMMA LabelsMetAre ==
  ASSUME NEW unit, NEW from, NEW to, NEW rows, Counted(unit, from, to, rows), NEW L, L = LabelsMet(unit, from, to, rows)
  PROVE  /\ L \subseteq Nat /\ IsFiniteSet(L)
         /\ \A r \in rows : Label(unit, Day(r.at)) \in L
         /\ unit = "DAY" \/ MonthsAlign(from, to) => L = Label(unit, from) .. Label(unit, to)
<1>1. unit \in {"DAY", "MONTH"} /\ from \in Nat /\ to \in Nat /\ from <= to /\ IsFiniteSet(rows)
  BY DEF Counted
<1>0. PICK A, f : A = ToSet(Labels(unit, from, to)) /\ f = [r \in rows |-> Label(unit, Day(r.at))]
  OBVIOUS
<1>2. PICK B : A = ToSet(Labels(unit, from, to)) /\ f = [r \in rows |-> Label(unit, Day(r.at))]
               /\ B = {f[r] : r \in rows}
  BY <1>0
<1>3. L = A \union B
  BY <1>2 DEF LabelsMet
<1>4. A \subseteq Nat /\ IsFiniteSet(A)
  BY <1>1, <1>2, LabelsType, ElementsFinite
<1>5. ASSUME NEW r \in rows
      PROVE  f[r] = Label(unit, Day(r.at)) /\ f[r] \in Nat /\ f[r] \in Label(unit, from) .. Label(unit, to)
  <2>1. Day(r.at) \in Nat /\ from <= Day(r.at) /\ Day(r.at) <= to
    BY <1>1 DEF Counted
  <2>2. Label(unit, from) \in Nat /\ Label(unit, to) \in Nat /\ Label(unit, Day(r.at)) \in Nat
    BY <1>1, <2>1, NextDateIs
  <2>3. Label(unit, from) <= Label(unit, Day(r.at)) /\ Label(unit, Day(r.at)) <= Label(unit, to)
    <3>1. Month(from) <= Month(Day(r.at)) /\ Month(Day(r.at)) <= Month(to)
      BY <1>1, <2>1, MonthsInOrder
    <3> QED
      BY <2>1, <3>1 DEF Label
  <2> QED
    BY <1>2, <2>2, <2>3
<1>6. B \subseteq Nat /\ IsFiniteSet(B)
  BY <1>1, <1>2, <1>5, ImageFinite
<1>7. ASSUME unit = "DAY" \/ MonthsAlign(from, to) PROVE L = Label(unit, from) .. Label(unit, to)
  <2>1. PICK a \in Nat, b \in Nat : a = Label(unit, from) /\ b = Label(unit, to)
    BY <1>1, NextDateIs
  <2>2. Labels(unit, from, to) = Run(a, b)
    BY <1>1, <1>7, <2>1, LabelsRun
  <2>3. A = a .. b
    <3>1. A = {(a + i) - 1 : i \in 1 .. (b - a) + 1}
      BY <1>2, <2>2 DEF ToSet, Run
    <3>2. \A l \in a .. b : (l - a) + 1 \in 1 .. (b - a) + 1 /\ l = (a + ((l - a) + 1)) - 1
      OBVIOUS
    <3>3. \A i \in 1 .. (b - a) + 1 : (a + i) - 1 \in a .. b
      OBVIOUS
    <3> QED
      BY <3>1, <3>2, <3>3
  <2>4. B \subseteq a .. b
    BY <1>2, <1>5, <2>1
  <2> QED
    BY <1>3, <2>1, <2>3, <2>4
<1>8. L \subseteq Nat /\ IsFiniteSet(L)
  BY ONLY <1>3, <1>4, <1>6, FS_Union
<1>9. ASSUME NEW r \in rows PROVE Label(unit, Day(r.at)) \in L
  <2>1. f[r] \in B
    BY <1>2
  <2> QED
    BY <1>3, <1>5, <2>1
<1> QED
  BY <1>7, <1>8, <1>9


---------------------------------------------------------------------------
(* The statistics.                                                         *)

InLabel(unit, l, rows) == {r \in rows : Label(unit, Day(r.at)) = l}

\* The rows of the buckets: parts of the rows, that have all of them.
LEMMA PartsOfRows ==
  ASSUME NEW unit, NEW from, NEW to, NEW rows, Counted(unit, from, to, rows),
         NEW b, b = Buckets(unit, from, to, rows), NEW P, P = [i \in DOMAIN b |-> InBucket(unit, b[i], rows)]
  PROVE  /\ IsFiniteSet(DOMAIN b)
         /\ \A i \in DOMAIN b : P[i] \subseteq rows /\ IsFiniteSet(P[i])
         /\ \A i, j \in DOMAIN b : i # j => P[i] \intersect P[j] = {}
         /\ UNION {P[i] : i \in DOMAIN b} = rows
<1>1. PICK L : L = LabelsMet(unit, from, to, rows)
  OBVIOUS
<1>2. L \subseteq Nat /\ IsFiniteSet(L) /\ \A r \in rows : Label(unit, Day(r.at)) \in L
  BY <1>1, LabelsMetAre
<1>3. b = Ranked(L)
  BY <1>1, BucketsAre
<1>4. /\ DOMAIN b = 1 .. Cardinality(L)
      /\ \A l \in L : \E i \in DOMAIN b : b[i] = l
      /\ \A i, j \in DOMAIN b : i # j => b[i] # b[j]
  <2>1. L \subseteq Nat /\ IsFiniteSet(L)
    BY <1>2
  <2>2. DOMAIN b = 1 .. Cardinality(L)
    BY <1>3, <2>1, RankedHas
  <2>3. L \subseteq ToSet(b)
    BY <1>3, <2>1, RankedHas
  <2>4. \A i, j \in DOMAIN b : i # j => b[i] # b[j]
    BY <1>3, <2>1, RankedHas
  <2> QED
    BY <2>2, <2>3, <2>4 DEF ToSet
<1>5. IsFiniteSet(DOMAIN b)
  BY <1>2, <1>4, FS_CardinalityType, FS_Interval
<1>6. \A i \in DOMAIN b : P[i] = {r \in rows : Label(unit, Day(r.at)) = b[i]}
  BY DEF InBucket
<1>7. IsFiniteSet(rows)
  BY DEF Counted
<1>8. \A i \in DOMAIN b : P[i] \subseteq rows /\ IsFiniteSet(P[i])
  BY <1>6, <1>7, FS_Subset
<1>9. \A i, j \in DOMAIN b : i # j => P[i] \intersect P[j] = {}
  BY <1>4, <1>6
<1>10. ASSUME NEW r \in rows PROVE \E i \in DOMAIN b : r \in P[i]
  <2>1. PICK i \in DOMAIN b : b[i] = Label(unit, Day(r.at))
    BY <1>2, <1>4
  <2> QED
    BY <1>6, <2>1
<1> QED
  BY <1>5, <1>8, <1>9, <1>10

\* Every QA of the period is of one bucket.
LEMMA AskedAddUp ==
  ASSUME NEW unit, NEW from, NEW to, NEW rows, Counted(unit, from, to, rows)
  PROVE  SumFunction(AskHistory(unit, from, to, rows)) = Cardinality(rows)
<1>1. PICK b : b = Buckets(unit, from, to, rows)
  OBVIOUS
<1>2. PICK P : P = [i \in DOMAIN b |-> InBucket(unit, b[i], rows)]
  OBVIOUS
<1>3. PICK t : t = [i \in DOMAIN b |-> Cardinality(P[i])]
  OBVIOUS
<1>4. t = AskHistory(unit, from, to, rows)
  BY <1>1, <1>2, <1>3 DEF AskHistory
<1>5. /\ IsFiniteSet(DOMAIN b)
      /\ \A i \in DOMAIN b : P[i] \subseteq rows /\ IsFiniteSet(P[i])
      /\ \A i, j \in DOMAIN b : i # j => P[i] \intersect P[j] = {}
      /\ UNION {P[i] : i \in DOMAIN b} = rows
  BY <1>1, <1>2, PartsOfRows
<1>6. Total(t, DOMAIN b) = Cardinality(UNION {P[i] : i \in DOMAIN b})
  <2>1. \A i \in DOMAIN b : t[i] = Cardinality(P[i])
    BY <1>3
  <2> QED
    BY <1>5, <2>1, CountOfParts
<1>7. SumFunction(t) = Total(t, DOMAIN b)
  BY <1>3 DEF SumFunction, Total
<1> QED
  BY <1>4, <1>5, <1>6, <1>7

\* So is every token.
LEMMA TokensAddUp ==
  ASSUME NEW unit, NEW from, NEW to, NEW rows, Counted(unit, from, to, rows)
  PROVE  SumFunction(TokenHistory(unit, from, to, rows)) = SumFunction([r \in rows |-> r.tokens])
<1>1. PICK b : b = Buckets(unit, from, to, rows)
  OBVIOUS
<1>2. PICK P : P = [i \in DOMAIN b |-> InBucket(unit, b[i], rows)]
  OBVIOUS
<1>3. PICK w : w = [r \in rows |-> r.tokens]
  OBVIOUS
<1>4. PICK t : t = [i \in DOMAIN b |-> SumFunction([r \in P[i] |-> r.tokens])]
  OBVIOUS
<1>5. t = TokenHistory(unit, from, to, rows)
  BY <1>1, <1>2, <1>4 DEF TokenHistory
<1>6. /\ IsFiniteSet(DOMAIN b)
      /\ \A i \in DOMAIN b : P[i] \subseteq rows /\ IsFiniteSet(P[i])
      /\ \A i, j \in DOMAIN b : i # j => P[i] \intersect P[j] = {}
      /\ UNION {P[i] : i \in DOMAIN b} = rows
  BY <1>1, <1>2, PartsOfRows
<1>7. ASSUME NEW i \in DOMAIN b PROVE Weighs(w, P[i]) /\ t[i] = Total(w, P[i])
  <2>1. PICK v : v = [r \in P[i] |-> r.tokens]
    OBVIOUS
  <2>2. t[i] = SumFunction(v)
    BY <1>4, <2>1
  <2>3. SumFunction(v) = Total(v, P[i])
    BY <2>1 DEF SumFunction, Total
  <2>4. IsFiniteSet(P[i]) /\ \A x \in P[i] : v[x] = w[x] /\ w[x] \in Nat
    BY <1>3, <1>6, <2>1 DEF Counted
  <2>5. Total(v, P[i]) = Total(w, P[i])
    BY <2>4, TotalSame
  <2> QED
    BY <2>2, <2>3, <2>4, <2>5 DEF Weighs
<1>8. Total(t, DOMAIN b) = Total(w, UNION {P[i] : i \in DOMAIN b})
  <2>1. PICK I : I = DOMAIN b
    OBVIOUS
  <2>2. IsFiniteSet(I) /\ \A i \in I : Weighs(w, P[i])
    BY <1>6, <1>7, <2>1
  <2>3. \A i \in I : t[i] = Total(w, P[i])
    BY <1>7, <2>1
  <2>4. \A i, j \in I : i # j => P[i] \intersect P[j] = {}
    BY <1>6, <2>1
  <2>5. \A i \in I : Weighs(w, P[i]) /\ t[i] = Total(w, P[i])
    BY <2>2, <2>3
  <2>6. Weighs(w, UNION {P[i] : i \in I}) /\ Total(t, I) = Total(w, UNION {P[i] : i \in I})
    BY ONLY <2>2, <2>4, <2>5, TotalOfParts
  <2> QED
    BY <2>1, <2>6
<1>9. SumFunction(t) = Total(t, DOMAIN b) /\ SumFunction(w) = Total(w, rows)
  BY <1>3, <1>4 DEF SumFunction, Total
<1> QED
  BY <1>3, <1>5, <1>6, <1>8, <1>9

\* The counts are those of the labels.
LEMMA LabelsAgree ==
  ASSUME NEW unit, NEW from, NEW to, NEW rows, Counted(unit, from, to, rows), unit = "DAY" \/ MonthsAlign(from, to),
         NEW labels, labels = Labels(unit, from, to), NEW asked, asked = AskHistory(unit, from, to, rows)
  PROVE  /\ Len(labels) = Len(asked)
         /\ \A i \in DOMAIN labels : asked[i] = Cardinality(InLabel(unit, labels[i], rows))
<1>1. unit \in {"DAY", "MONTH"} /\ from \in Nat /\ to \in Nat /\ from <= to
  BY DEF Counted
<1>2. PICK a \in Nat, b \in Nat : a = Label(unit, from) /\ b = Label(unit, to)
  BY <1>1, NextDateIs
<1>3. labels = Run(a, b)
  BY <1>1, <1>2, LabelsRun
<1>4. LabelsMet(unit, from, to, rows) = a .. b
  BY <1>2, LabelsMetAre
<1>5. a <= b
  BY <1>1, <1>2, MonthsInOrder DEF Label
<1>6. Buckets(unit, from, to, rows) = labels
  BY <1>3, <1>4, <1>5, BucketsAre, RankedRun
<1>7. asked = [i \in DOMAIN labels |-> Cardinality(InLabel(unit, labels[i], rows))]
  BY <1>6 DEF AskHistory, InBucket, InLabel
<1>8. PICK n \in Nat : n = (b - a) + 1
  BY <1>5
<1>9. DOMAIN labels = 1 .. n /\ DOMAIN asked = 1 .. n
  BY <1>3, <1>7, <1>8 DEF Run
<1>10. labels = [i \in 1 .. n |-> labels[i]] /\ asked = [i \in 1 .. n |-> asked[i]]
  BY <1>3, <1>7, <1>8, <1>9 DEF Run
<1>11. Len(labels) = n /\ Len(asked) = n
  BY <1>9, <1>10
<1> QED
  BY <1>7, <1>11

\* The sessions of the rows of a bucket, by job group.
LEMMA UsersAsked ==
  ASSUME NEW rows, IsFiniteSet(rows), NEW part, part \subseteq rows,
         NEW u, u = [g \in {JobGroup(r) : r \in rows} |-> Cardinality(Sessions(g, part))]
  PROVE  /\ SumFunction(u) \in Nat /\ Cardinality(part) \in Nat /\ SumFunction(u) <= Cardinality(part)
         /\ SumFunction(u) = 0 <=> Cardinality(part) = 0
<1>1. PICK G : G = {JobGroup(r) : r \in rows}
  OBVIOUS
<1>2. PICK Q : Q = [g \in G |-> {r \in part : JobGroup(r) = g}]
  OBVIOUS
<1>3. PICK c : c = [g \in G |-> Cardinality(Q[g])]
  OBVIOUS
<1>4. IsFiniteSet(G)
  <2>1. PICK f : f = [r \in rows |-> JobGroup(r)]
    OBVIOUS
  <2>2. IsFiniteSet({f[r] : r \in rows})
    BY ImageFinite
  <2>3. {f[r] : r \in rows} = G
    BY <1>1, <2>1
  <2> QED
    BY <2>2, <2>3
<1>5. IsFiniteSet(part)
  BY FS_Subset
<1>6. ASSUME NEW g \in G
      PROVE  /\ IsFiniteSet(Q[g]) /\ u[g] \in Nat /\ c[g] \in Nat /\ u[g] <= c[g] /\ c[g] = Cardinality(Q[g])
             /\ Q[g] # {} => u[g] >= 1
  <2>1. Q[g] = {r \in part : JobGroup(r) = g}
    BY <1>2
  <2>2. IsFiniteSet(Q[g])
    BY <1>5, <2>1, FS_Subset
  <2>3. PICK f : f = [r \in Q[g] |-> r.session]
    OBVIOUS
  <2>4. PICK T : T = {f[r] : r \in Q[g]}
    OBVIOUS
  <2>5. /\ IsFiniteSet(T) /\ Cardinality(T) <= Cardinality(Q[g])
        /\ Cardinality(T) \in Nat /\ (Q[g] # {} => Cardinality(T) >= 1)
    BY <2>2, <2>4, ImageFinite
  <2>6. T = Sessions(g, part)
    BY <2>1, <2>3, <2>4 DEF Sessions
  <2>7. u[g] = Cardinality(T) /\ c[g] = Cardinality(Q[g])
    BY <1>1, <1>3, <2>6
  <2>8. Cardinality(Q[g]) \in Nat
    BY <2>2, FS_CardinalityType
  <2> QED
    BY <2>2, <2>5, <2>7, <2>8
<1>7. Total(c, G) = Cardinality(part)
  <2>1. \A g, h \in G : g # h => Q[g] \intersect Q[h] = {}
    BY <1>2
  <2>2. Total(c, G) = Cardinality(UNION {Q[g] : g \in G})
    BY <1>4, <1>6, <2>1, CountOfParts
  <2>3. \A r \in part : JobGroup(r) \in G /\ r \in Q[JobGroup(r)]
    BY <1>1, <1>2
  <2>4. UNION {Q[g] : g \in G} = part
    BY <1>2, <2>3
  <2> QED
    BY <2>2, <2>4
<1>8. Weighs(u, G) /\ Weighs(c, G)
  BY <1>4, <1>6 DEF Weighs
<1>9. Total(u, G) \in Nat /\ Cardinality(part) \in Nat /\ Total(u, G) <= Cardinality(part)
  <2>1. Total(u, G) \in Nat /\ Total(c, G) \in Nat
    BY <1>8, TotalType
  <2>2. Total(u, G) <= Total(c, G)
    BY <1>6, <1>8, TotalsCompare
  <2> QED
    BY <1>7, <2>1, <2>2
<1>10. ASSUME Cardinality(part) # 0 PROVE Total(u, G) >= 1
  <2>1. PICK r \in part : TRUE
    BY <1>10, FS_EmptySet
  <2>2. PICK g \in G : g = JobGroup(r)
    BY <1>1
  <2>3. Q[g] # {}
    BY <1>2, <2>1, <2>2
  <2>4. u[g] \in Nat /\ u[g] >= 1
    BY <1>6, <2>3
  <2>5. u[g] <= Total(u, G)
    BY <1>8, TotalAtLeast
  <2> QED
    BY <1>9, <2>4, <2>5
<1>11. SumFunction(u) = Total(u, G)
  BY <1>1 DEF SumFunction, Total
<1> QED
  BY <1>9, <1>10, <1>11

\* Both shares rounded down lack at most one percent.
LEMMA SharesRoundedDown ==
  ASSUME NEW g \in Nat, NEW b \in Nat, g + b # 0
  PROVE  (100 * g) \div (g + b) + (100 * b) \div (g + b) \in {99, 100}
<1>1. PICK n \in Nat : n = g + b /\ n > 0
  OBVIOUS
<1>2. PICK x \in Nat, y \in Nat : x = 100 * g /\ y = 100 * b /\ x + y = 100 * n
  BY <1>1
<1>3. ASSUME NEW z \in Nat PROVE z \div n \in Nat /\ n * (z \div n) <= z /\ z < n * (z \div n) + n
  BY <1>1
<1>4. PICK p \in Nat, q \in Nat : p = x \div n /\ q = y \div n
  BY <1>3
<1>5. n * p <= x /\ x < n * p + n /\ n * q <= y /\ y < n * q + n
  BY <1>3, <1>4
<1>6. PICK s \in Nat : s = p + q
  OBVIOUS
<1>7. n * s \in Nat /\ n * s <= 100 * n /\ 100 * n < n * s + 2 * n
  <2>1. n * s = n * p + n * q
    BY <1>6
  <2>2. n * p \in Nat /\ n * q \in Nat
    OBVIOUS
  <2> QED
    BY <1>2, <1>5, <2>1, <2>2
<1>8. s <= 100
  <2>1. ASSUME s > 100 PROVE FALSE
    <3>1. PICK k \in Nat : s = 101 + k
      BY <2>1
    <3>2. n * s = 101 * n + n * k /\ n * k \in Nat
      BY <3>1
    <3> QED
      BY <1>1, <1>7, <3>2
  <2> QED
    BY <2>1
<1>9. s >= 99
  <2>1. ASSUME s < 99 PROVE FALSE
    <3>1. PICK k \in Nat : s + k = 98
      BY <2>1
    <3>2. n * s + n * k = 98 * n /\ n * k \in Nat
      BY <3>1
    <3> QED
      BY <1>1, <1>7, <3>2
  <2> QED
    BY <2>1
<1>10. s \in {99, 100}
  BY <1>8, <1>9
<1> QED
  BY <1>1, <1>2, <1>4, <1>6, <1>10

\* The shares of the votes.
LEMMA SurveyAddsUp ==
  ASSUME NEW rows, IsFiniteSet(rows), NEW survey, survey = Survey(rows)
  PROVE  survey.good + survey.bad \in {-2, 99, 100}
<1>1. PICK g \in Nat, b \in Nat : g = Cardinality({r \in rows : r.vote = "up"}) /\ b = Cardinality({r \in rows : r.vote = "down"})
  <2>1. IsFiniteSet({r \in rows : r.vote = "up"}) /\ IsFiniteSet({r \in rows : r.vote = "down"})
    BY FS_Subset
  <2> QED
    BY <2>1, FS_CardinalityType
<1>2. survey = IF g + b = 0 THEN [good |-> -1, bad |-> -1]
               ELSE [good |-> (100 * g) \div (g + b), bad |-> (100 * b) \div (g + b)]
  BY <1>1 DEF Survey
<1>3. CASE g + b = 0
  BY <1>2, <1>3
<1>4. CASE g + b # 0
  <2>1. survey.good = (100 * g) \div (g + b) /\ survey.bad = (100 * b) \div (g + b)
    BY <1>2, <1>4
  <2> QED
    BY <1>4, <2>1, SharesRoundedDown
<1> QED
  BY <1>3, <1>4


\* What StatisticsAddUp says of one reply.
AddsUp(stats, unit, from, to, rows) ==
  /\ SumFunction(stats.asked) = Cardinality(rows)
  /\ SumFunction(stats.tokens) = SumFunction([r \in rows |-> r.tokens])
  /\ unit = "DAY" \/ MonthsAlign(from, to) =>
       /\ Len(stats.labels) = Len(stats.asked)
       /\ \A i \in DOMAIN stats.labels :
            stats.asked[i] = Cardinality({r \in rows : Label(unit, Day(r.at)) = stats.labels[i]})
  /\ \A i \in DOMAIN stats.asked :
       LET users == SumFunction([g \in DOMAIN stats.users |-> stats.users[g][i]])
       IN  users <= stats.asked[i] /\ (users = 0 <=> stats.asked[i] = 0)
  /\ stats.survey.good + stats.survey.bad \in {-2, 99, 100}

LEMMA StatisticsAre ==
  ASSUME NEW unit, NEW from, NEW to, NEW rows, Counted(unit, from, to, rows),
         NEW stats, stats = GetStatistics(unit, from, to, rows)
  PROVE  AddsUp(stats, unit, from, to, rows)
<1>1. /\ stats.labels = Labels(unit, from, to) /\ stats.asked = AskHistory(unit, from, to, rows)
      /\ stats.tokens = TokenHistory(unit, from, to, rows) /\ stats.users = UserTrends(unit, from, to, rows)
      /\ stats.survey = Survey(rows)
  BY DEF GetStatistics
<1>2. IsFiniteSet(rows)
  BY DEF Counted
<1>3. SumFunction(stats.asked) = Cardinality(rows)
  BY <1>1, AskedAddUp
<1>4. SumFunction(stats.tokens) = SumFunction([r \in rows |-> r.tokens])
  BY <1>1, TokensAddUp
<1>5. ASSUME unit = "DAY" \/ MonthsAlign(from, to)
      PROVE  /\ Len(stats.labels) = Len(stats.asked)
             /\ \A i \in DOMAIN stats.labels :
                  stats.asked[i] = Cardinality({r \in rows : Label(unit, Day(r.at)) = stats.labels[i]})
  BY <1>1, <1>5, LabelsAgree DEF InLabel
<1>6. ASSUME NEW i \in DOMAIN stats.asked, NEW users,
             users = SumFunction([g \in DOMAIN stats.users |-> stats.users[g][i]])
      PROVE  users <= stats.asked[i] /\ (users = 0 <=> stats.asked[i] = 0)
  <2>1. PICK b : b = Buckets(unit, from, to, rows)
    OBVIOUS
  <2>2. i \in DOMAIN b /\ stats.asked[i] = Cardinality(InBucket(unit, b[i], rows))
    BY <1>1, <1>6, <2>1 DEF AskHistory
  <2>3. PICK part : part = InBucket(unit, b[i], rows)
    OBVIOUS
  <2>4. part \subseteq rows
    BY <2>3 DEF InBucket
  <2>5. [g \in DOMAIN stats.users |-> stats.users[g][i]]
          = [g \in {JobGroup(r) : r \in rows} |-> Cardinality(Sessions(g, part))]
    BY <1>1, <2>1, <2>2, <2>3 DEF UserTrends
  <2>6. PICK u : u = [g \in {JobGroup(r) : r \in rows} |-> Cardinality(Sessions(g, part))]
    OBVIOUS
  <2>7. /\ SumFunction(u) <= Cardinality(part)
        /\ SumFunction(u) = 0 <=> Cardinality(part) = 0
    BY <1>2, <2>4, <2>6, UsersAsked
  <2>8. users = SumFunction(u)
    BY <1>6, <2>5, <2>6
  <2> QED
    BY <2>2, <2>3, <2>7, <2>8
<1>7. stats.survey.good + stats.survey.bad \in {-2, 99, 100}
  BY <1>1, <1>2, SurveyAddsUp
<1> QED
  BY <1>3, <1>4, <1>5, <1>6, <1>7 DEF AddsUp


---------------------------------------------------------------------------
(* The statistics of a request.                                            *)

\* A call for statistics: the period is one, and what was read is of the period.
StatOK(c) ==
  c.req.op = "Statistics" =>
    /\ c.step \notin {"idle", "done"} =>
         /\ c.req.unit \in {"DAY", "MONTH"} /\ c.req.from \in Nat /\ c.req.to \in Nat /\ c.req.from <= c.req.to
    /\ IsSuccess(c) => Counted(c.req.unit, c.req.from, c.req.to, ToSet(c.got))

StatsOK == \A s \in Slot : StatOK(calls[s])

\* A finite set and its elements in a sequence.
LEMMA SeqHas ==
  ASSUME NEW S, IsFiniteSet(S)
  PROVE  ToSet(SetToSeq(S)) = S
<1>1. PICK n \in Nat : n = Cardinality(S)
  BY FS_CardinalityType
<1>2. \E f : ExistsBijection(1 .. n, S)
  BY <1>1, FS_CardinalityType
<1>3. PICK f : f \in Bijection(1 .. n, S)
  BY <1>2 DEF ExistsBijection
<1>4. f \in [1 .. n -> S] /\ IsInjective(f)
  BY <1>3 DEF Bijection, Injection
<1>5. PICK g : g = SetToSeq(S)
  OBVIOUS
<1>6. g \in [1 .. n -> S] /\ IsInjective(g)
  BY <1>1, <1>4, <1>5 DEF SetToSeq
<1>7. g \in Injection(1 .. n, S)
  BY <1>6 DEF Injection
<1>8. IsFiniteSet(1 .. n) /\ Cardinality(1 .. n) = n
  BY <1>1, FS_Interval
<1>9. g \in Surjection(1 .. n, S)
  BY <1>1, <1>7, <1>8, FS_Injection
<1>10. ToSet(g) = S
  BY <1>6, <1>9 DEF ToSet, Surjection
<1> QED
  BY <1>5, <1>10

\* The rows of a period.
LEMMA RowsCounted ==
  ASSUME qas \in Seq(QARow), NEW unit \in {"DAY", "MONTH"}, NEW from \in Nat, NEW to \in Nat, from <= to
  PROVE  Counted(unit, from, to, ListQAs(from, to))
<1>1. PICK S : S = {q \in Rows : From(from, q) /\ To(to, q)}
  OBVIOUS
<1>2. S \subseteq DOMAIN qas /\ IsFiniteSet(S)
  <2>1. S \subseteq DOMAIN qas
    BY <1>1 DEF Rows
  <2> QED
    BY <2>1, RowsFinite
<1>3. PICK f : f = [q \in S |-> [id |-> q, at |-> qas[q].at, session |-> qas[q].session, jobGroup |-> qas[q].jobGroup,
                                 vote |-> qas[q].vote, tokens |-> qas[q].tokens]]
  OBVIOUS
<1>4. {f[q] : q \in S} = ListQAs(from, to)
  BY <1>1, <1>3 DEF ListQAs
<1>5. IsFiniteSet({f[q] : q \in S})
  BY <1>2, ImageFinite
<1>6. ASSUME NEW q \in S PROVE f[q].at \in Nat /\ f[q].tokens \in Nat /\ Day(f[q].at) \in from .. to
  <2>1. f[q].at = qas[q].at /\ f[q].tokens = qas[q].tokens
    BY <1>3
  <2>2. PICK at \in Nat : at = qas[q].at /\ qas[q].tokens \in Nat
    <3>1. PICK row \in QARow : row = qas[q]
      BY <1>2
    <3>2. row.at \in Nat /\ row.tokens \in Nat
      BY DEF QARow
    <3> QED
      BY <3>1, <3>2
  <2>3. from # None /\ to # None
    <3>1. from \in Int /\ to \in Int
      OBVIOUS
    <3> QED
      BY ONLY <3>1, TablesAssumption, Zenon
  <2>4. at >= 24 * from /\ at < 24 * (to + 1)
    BY <1>1, <2>2, <2>3 DEF From, To
  <2>5. at \div 24 \in from .. to
    BY <2>4
  <2> QED
    BY <2>1, <2>2, <2>5 DEF Day
<1> QED
  BY <1>4, <1>5, <1>6 DEF Counted

\* The call of the step.
LEMMA StatStep ==
  ASSUME IInv, NEW s \in Slot, Serve(s) \/ Convert(s), StatOK(calls[s])
  PROVE  StatOK(calls'[s])
<1>1. Calls /\ IsCall(calls[s]) /\ CallOK(calls[s]) /\ SameRequest(s)
  BY Facts, ServeKeepsRequests
<1>2. PICK c, d : c = calls[s] /\ d = calls'[s]
  OBVIOUS
<1>3. SUFFICES ASSUME c.req.op = "Statistics" PROVE StatOK(d)
  BY <1>1, <1>2 DEF StatOK, SameRequest
<1>4. Statistic(s) \/ (Fails(s) /\ c.step \notin {"idle", "done"})
  <2>1. StepFits(c.req.op, c.step)
    BY <1>1, <1>2 DEF CallOK
  <2>2. c.step \notin {"list", "qas", "move", "count", "page", "history", "record", "parse", "rows", "qa",
                       "upload", "files", "embed", "poll"}
    BY <1>3, <2>1 DEF StepFits
  <2>3. ~CreateChat(s) /\ ~ListOfChats(s) /\ ~ListOfQAs(s) /\ ~Delete(s) /\ ~UpdateChatTitle(s) /\ ~Move(s)
        /\ ~Count(s) /\ ~ListPage(s) /\ ~DeleteRows(s) /\ ~History(s) /\ ~Record(s) /\ ~DiskFails(s)
    BY <1>2, <1>3 DEF CreateChat, ListOfChats, ListOfQAs, Delete, UpdateChatTitle, Move, Count, ListPage, DeleteRows,
                      History, Record, DiskFails, At, Req
  <2>4. ~ListUserChats(s) /\ ~ListQAsOfNext(s) /\ ~ParseFile(s) /\ ~WriteUploadFiles(s) /\ ~WriteUploadQA(s)
    BY <1>2, <2>2 DEF ListUserChats, ListQAsOfNext, ParseFile, WriteUploadFiles, WriteUploadQA
  <2>5. ~FindUpload(s) /\ ~FindFiles(s) /\ ~Embed(s) /\ ~Poll(s) /\ ~Convert(s)
    BY <1>2, <2>2 DEF FindUpload, FindFiles, Embed, Poll, Convert
  <2>6. c.step \notin OwnErrors => c.step \notin {"idle", "done"}
    BY DEF OwnErrors
  <2> QED
    BY <1>2, <2>3, <2>4, <2>5, <2>6 DEF Serve
<1>5. CASE Statistic(s)
  <2>1. c.step = "statement" /\ SucceedWith(s, SetToSeq(ListQAs(c.req.from, c.req.to)))
    BY <1>2, <1>5 DEF Statistic, At, Req
  <2>2. PICK got, reply : got = SetToSeq(ListQAs(c.req.from, c.req.to)) /\ reply = c.reply \o <<Status(c.req.op)>>
    OBVIOUS
  <2>3. Becomes(s, GoneOn(c, "done", reply, c.failed, got, c.todo))
    BY <1>1, <1>2, <2>1, <2>2, SucceedWithIs
  <2>4. FieldsAre(d, c, "done", reply, c.failed, got, c.todo)
    BY <1>1, <1>2, <2>3, Became
  <2>5. d.req = c.req /\ d.step = "done" /\ d.got = got
    BY <2>4 DEF FieldsAre, SameCall
  <2>6. c.req.unit \in {"DAY", "MONTH"} /\ c.req.from \in Nat /\ c.req.to \in Nat /\ c.req.from <= c.req.to
    BY <1>2, <1>3, <2>1 DEF StatOK
  <2>7. PICK rows : rows = ListQAs(c.req.from, c.req.to)
    OBVIOUS
  <2>8. qas \in Seq(QARow)
    BY Facts DEF QAsOK
  <2>9. Counted(c.req.unit, c.req.from, c.req.to, rows)
    BY <2>6, <2>7, <2>8, RowsCounted
  <2>10. ToSet(got) = rows
    BY <2>2, <2>7, <2>9, SeqHas DEF Counted
  <2> QED
    BY <2>5, <2>9, <2>10 DEF StatOK
<1>6. CASE Fails(s) /\ c.step \notin {"idle", "done"}
  <2>1. PICK st : st = WithError(c.req.op, 500)
    OBVIOUS
  <2>2. st = <<500>>
    BY <1>3, <2>1 DEF WithError, GoesOn
  <2>3. PICK e : e = Ended([c EXCEPT !.failed = TRUE], st)
    OBVIOUS
  <2>4. calls' = [calls EXCEPT ![s] = e]
    BY <1>2, <1>6, <2>1, <2>3 DEF Fails, Req
  <2>5. d = e
    BY <1>1, <1>2, <2>4, SetCall
  <2>6. d.req = c.req /\ d.step = "done" /\ d.reply = c.reply \o st
    BY <1>1, <1>2, <2>3, <2>5 DEF Ended, IsCall, CallIs
  <2>7. c.reply \in Seq(Nat) /\ (c.reply # <<>> => Head(c.reply) \notin 200 .. 299)
    BY <1>1, <1>2, <1>6 DEF CallOK
  <2>8. st \in Seq(Nat) /\ st # <<>> /\ Head(st) = 500
    BY <2>2
  <2>9. Head(d.reply) = IF c.reply = <<>> THEN Head(st) ELSE Head(c.reply)
    BY <2>6, <2>7, <2>8, HeadOf
  <2>10. ~IsSuccess(d)
    <3>1. Head(d.reply) \notin 200 .. 299
      <4>1. CASE c.reply = <<>>
        <5>1. Head(d.reply) = 500
          BY <2>8, <2>9, <4>1
        <5> QED
          BY <5>1
      <4>2. CASE c.reply # <<>>
        <5>1. Head(d.reply) = Head(c.reply)
          BY <2>9, <4>2
        <5> QED
          BY <2>7, <4>2, <5>1
      <4> QED
        BY <4>1, <4>2
    <3> QED
      BY <3>1 DEF IsSuccess
  <2> QED
    BY <2>6, <2>10 DEF StatOK
<1> QED
  BY <1>4, <1>5, <1>6

\* A call that comes.
LEMMA StatComes ==
  ASSUME IInv, NEW s \in Slot, NEW r \in Requests, Begin(s, r)
  PROVE  StatOK(calls'[s]) /\ \A t \in Slot \ {s} : calls'[t] = calls[t]
<1>1. Calls
  BY Facts
<1>2. PICK req, step, start, reply, todo :
        /\ req = Decoded(r) /\ step = FirstStep(r) /\ start = (IF r.op \in Listings THEN Start ELSE None)
        /\ reply = (IF Noticed(r) THEN <<400>> ELSE <<>>)
        /\ todo = (IF r.op \in {"Upload", "FileUpload"} THEN r.files ELSE <<>>)
  OBVIOUS
<1>3. PICK call : call = Arrived(req, step, start, reply, todo)
  OBVIOUS
<1>4. PICK d : d = IF Rejected(r) THEN Ended(call, <<Rejection(r)>>) ELSE call
  OBVIOUS
<1>5. calls'[s] = d /\ \A t \in Slot \ {s} : calls'[t] = calls[t]
  <2>1. calls' = [calls EXCEPT ![s] = d]
    BY <1>2, <1>3, <1>4 DEF Begin, Arrived
  <2> QED
    BY <1>1, <2>1, SetCall
<1>6. PICK fl, none : fl = FALSE /\ none = <<>>
  OBVIOUS
<1>7. call = CallIs(req, step, reply, fl, none, todo, start)
  BY <1>3, <1>6, ArrivedIs
<1>8. call.req = req /\ call.step = step /\ call.reply = reply /\ IsCall(call)
  BY ONLY <1>7, Fields DEF IsCall
<1>9. r \in Request /\ req.op = r.op
  <2>1. r \in Request
    BY ApiAssumption
  <2> QED
    BY <1>2, <2>1, DecodedType
<1>10. CASE ~Rejected(r)
  <2>1. d = call /\ step # "done"
    BY <1>2, <1>4, <1>9, <1>10, FirstSteps
  <2>2. ~IsSuccess(d)
    BY <1>8, <2>1 DEF IsSuccess
  <2>3. ASSUME r.op = "Statistics"
        PROVE  r.unit \in {"DAY", "MONTH"} /\ r.from \in Nat /\ r.to \in Nat /\ r.from <= r.to /\ req = r
    <3>1. ~r.malformed /\ None \notin {r.from, r.to} /\ ~(r.from > r.to)
      BY <1>10, <2>3 DEF Rejected, GoesOn
    <3>2. req = r
      BY <1>2, <3>1 DEF Decoded
    <3>3. r.unit \in {"DAY", "MONTH"} /\ r.from \in Nat \union {None} /\ r.to \in Nat \union {None}
      BY <1>9, <2>3 DEF Request
    <3>4. r.from \in Nat /\ r.to \in Nat
      BY <3>1, <3>3
    <3> QED
      BY <3>1, <3>2, <3>3, <3>4
  <2> QED
    BY <1>5, <1>8, <1>9, <2>1, <2>2, <2>3 DEF StatOK
<1>11. CASE Rejected(r)
  <2>1. PICK st, done : st = <<Rejection(r)>> /\ done = "done"
    OBVIOUS
  <2>2. PICK both : both = call.reply \o st
    OBVIOUS
  <2>3. d = GoneOn(call, done, both, call.failed, call.got, call.todo)
    BY <1>4, <1>8, <1>11, <2>1, <2>2, EndedIs
  <2>4. d.req = call.req /\ d.step = done /\ d.reply = both
    BY ONLY <2>3, Fields DEF GoneOn
  <2>5. call.reply = <<>>
    BY <1>2, <1>8, <1>11 DEF Noticed
  <2>6. st \in Seq(Nat) /\ Head(st) \notin 200 .. 299
    <3>1. CASE Rejection(r) = 422
      BY <2>1, <3>1
    <3>2. CASE Rejection(r) = 400
      BY <2>1, <3>2
    <3> QED
      BY <1>9, <3>1, <3>2, RejectionIs
  <2>7. both = st
    BY <2>2, <2>5, <2>6
  <2>8. ~IsSuccess(d)
    BY <2>4, <2>6, <2>7 DEF IsSuccess
  <2>9. d.step = "done"
    BY <2>1, <2>4
  <2> QED
    BY <1>5, <2>8, <2>9 DEF StatOK
<1> QED
  BY <1>10, <1>11

LEMMA StatsGoOn == IInv /\ StatsOK /\ [Next]_vars => StatsOK'
<1> SUFFICES ASSUME IInv, StatsOK, [Next]_vars PROVE StatsOK'
  OBVIOUS
<1>1. CASE UNCHANGED calls
  BY <1>1 DEF StatsOK
<1>2. CASE \E s \in Slot, r \in Requests : Begin(s, r)
  <2>1. PICK s \in Slot, r \in Requests : Begin(s, r)
    BY <1>2
  <2>2. StatOK(calls'[s]) /\ \A t \in Slot \ {s} : calls'[t] = calls[t]
    BY <2>1, StatComes
  <2>3. ASSUME NEW t \in Slot PROVE StatOK(calls'[t])
    <3>1. CASE t = s
      BY <2>2, <3>1
    <3>2. CASE t # s
      BY <2>2, <3>2 DEF StatsOK
    <3> QED
      BY <3>1, <3>2
  <2> QED
    BY <2>3 DEF StatsOK
<1>3. CASE \E s \in Slot : Serve(s) \/ Convert(s)
  <2>1. PICK s \in Slot : Serve(s) \/ Convert(s)
    BY <1>3
  <2>2. StatOK(calls'[s])
    BY <2>1, StatStep DEF StatsOK
  <2>3. \A t \in Slot \ {s} : calls'[t] = calls[t]
    BY <2>1, ServeKeepsRequests DEF SameRequest
  <2>4. ASSUME NEW t \in Slot PROVE StatOK(calls'[t])
    <3>1. CASE t = s
      BY <2>2, <3>1
    <3>2. CASE t # s
      BY <2>3, <3>2 DEF StatsOK
    <3> QED
      BY <3>1, <3>2
  <2> QED
    BY <2>4 DEF StatsOK
<1>4. UNCHANGED vars \/ (\E q \in DOMAIN qas : Consume(q)) \/ Tick => UNCHANGED calls
  BY DEF vars, Consume, Tick
<1> QED
  BY <1>1, <1>2, <1>3, <1>4 DEF Next

LEMMA InitStats == Init => StatsOK
<1> SUFFICES ASSUME Init, NEW s \in Slot PROVE StatOK(calls[s])
  BY DEF StatsOK
<1>1. calls[s] = Idle /\ Idle.req.op = "none"
  BY DEF Init, Idle
<1> QED
  BY <1>1 DEF StatOK

LEMMA StatsAdd ==
  ASSUME StatsOK
  PROVE  StatisticsAddUp
<1>1. ASSUME NEW s \in Slot, Done(s, "Statistics")
      PROVE  AddsUp(StatisticsOf(s), Req(s).unit, Req(s).from, Req(s).to, ToSet(calls[s].got))
  <2>1. Counted(Req(s).unit, Req(s).from, Req(s).to, ToSet(calls[s].got))
    BY <1>1 DEF StatsOK, StatOK, Done, Accepted, IsSuccess, Req
  <2> QED
    BY <2>1, StatisticsAre DEF StatisticsOf
<1> QED
  BY <1>1 DEF StatisticsAddUp, AddsUp

\* The counts of statistics are those of their labels and add up to the QAs, the tokens and the users
\* of the period, whatever rows there are and whatever months it spans (backend/service/statistics.go).
THEOREM StatisticsRegular == Spec => []StatisticsAddUp
<1>1. Init => IInv /\ StatsOK
  BY InitHolds, InitStats
<1>2. IInv /\ StatsOK /\ [Next]_vars => (IInv /\ StatsOK)'
  BY NextKeeps, StatsGoOn
<1>3. StatsOK => StatisticsAddUp
  BY StatsAdd
<1> QED
  BY <1>1, <1>2, <1>3, PTL DEF Spec
==============================================================================
