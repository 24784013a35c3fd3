------------------------------- MODULE Keywords -------------------------------
(***************************************************************************)
(* The goroutine that finds keywords and related queries for a search of   *)
(* the conversation engine (service/keywords_related_queries.go and        *)
(* createKeywordsRelatedQueries): up to three attempts with an LLM, whose  *)
(* reply is an external choice, and one message to the channel at the end. *)
(* Tokens are not counted.                                                 *)
(***************************************************************************)
EXTENDS Integers, Sequences

CONSTANTS
  Providers,  \* the providers of the model that made the call
  Modes       \* KEYWORDS_RELATED_QUERIES_MODE

maxRetries == 3

\* What an attempt may bring: no request or no readable body, no reply at all,
\* a reply without choices, one that did not stop or is empty, content that is
\* not JSON, that lacks one of the lists, or that has both, and a choice without
\* the pointers that are followed.
Outcome ==
  {"unreadable", "no reply", "no choices", "cut", "not json", "partial", "both", "nil"}

VARIABLES
  mode, provider,  \* what the goroutine is started with, "none" before
  goroutine,       \* "waiting", "trying", "sending", "ended" or "panicked"
  attempts,        \* the replies of the attempts so far, in order
  found,           \* whether both lists were found
  sent             \* the messages put into the channel: "none", "empty", "full"

keywordsVars == <<mode, provider, goroutine, attempts, found, sent>>

KeywordsInit ==
  /\ mode = "none"
  /\ provider = "none"
  /\ goroutine = "waiting"
  /\ attempts = <<>>
  /\ found = FALSE
  /\ sent = <<>>

\* What is set up before the first attempt: the client, the seed, and the query
\* of the arguments, each of which may be an error.
Prepared == {"trying", "sending"}

\* Only in mode llm is a model asked; for azure nothing is called and the
\* result is a nil that the next line follows.
StartKeywords ==
  /\ goroutine = "waiting"
  /\ mode' \in Modes
  /\ provider' \in Providers
  /\ goroutine' \in IF mode' # "llm" THEN {"sending"}
                    ELSE IF provider' \in {"upstage", "openai"} THEN Prepared ELSE {"panicked"}
  /\ found' = (mode' = "mock")
  /\ UNCHANGED <<attempts, sent>>

Attempt(o) == goroutine = "trying" /\ attempts' = Append(attempts, o)

\* Faulty variant: one attempt too many.
NextAttemptOneMore ==
  goroutine' = IF Len(attempts') <= maxRetries THEN "trying" ELSE "sending"

\* After the last attempt the loop ends with an error.
NextAttempt ==
  goroutine' = IF Len(attempts') < maxRetries THEN "trying" ELSE "sending"

\* The client of openai reads the body itself: what fails there is no reply.
Unreadable ==
  /\ provider = "upstage" /\ Attempt("unreadable")
  /\ NextAttempt
  /\ UNCHANGED <<mode, provider, found, sent>>

NoReply ==
  /\ Attempt("no reply")
  /\ goroutine' = "sending"
  /\ UNCHANGED <<mode, provider, found, sent>>

NoChoices ==
  /\ Attempt("no choices")
  /\ goroutine' = "sending"
  /\ UNCHANGED <<mode, provider, found, sent>>

Cut ==
  /\ Attempt("cut")
  /\ NextAttempt
  /\ UNCHANGED <<mode, provider, found, sent>>

NotJson ==
  /\ Attempt("not json")
  /\ goroutine' = "sending"
  /\ UNCHANGED <<mode, provider, found, sent>>

\* Each attempt starts with empty lists.
Partial ==
  /\ Attempt("partial")
  /\ NextAttempt
  /\ UNCHANGED <<mode, provider, found, sent>>

Both ==
  /\ Attempt("both")
  /\ goroutine' = "sending"
  /\ found' = TRUE
  /\ UNCHANGED <<mode, provider, sent>>

\* The guard for the content of openai reads "||" where "&&" is meant, and the
\* reason to finish is followed without one.
Nil ==
  /\ provider = "openai" /\ Attempt("nil")
  /\ goroutine' = "panicked"
  /\ UNCHANGED <<mode, provider, found, sent>>

\* An error sends empty lists.
SendKeywords ==
  /\ goroutine = "sending"
  /\ goroutine' = "ended"
  /\ sent' = Append(sent, IF found THEN "full" ELSE "empty")
  /\ UNCHANGED <<mode, provider, attempts, found>>

KeywordsNext ==
  \/ Unreadable \/ NoReply \/ NoChoices \/ Cut \/ NotJson \/ Partial \/ Both \/ Nil
  \/ SendKeywords
=============================================================================
