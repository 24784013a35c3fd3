--------------------------- MODULE MCEventConsumer ---------------------------
(***************************************************************************)
(* Instances of EventConsumer for TLC: the scripts of short answers.       *)
(***************************************************************************)
EXTENDS EventConsumer, TLC

CONSTANTS q1, q2

Event(column, value) == [column |-> column, value |-> value, valid |-> TRUE]

\* A references event with an empty reference id, which is not converted.
BadReferences == [column |-> "References", value |-> 1, valid |-> FALSE]

\* CreateChatCompletion: every chunk writes a token count (0 until the engine
\* reports usage) and the answer so far.
TextAnswer ==
  <<Event("Question", 1), Event("TokenCount", 0), Event("Answer", 1), Event("Answer", 2)>>

RejectedAnswer == <<Event("Question", 1), BadReferences>>

ShortAnswer == <<Event("Question", 1), Event("Answer", 1), Event("Answer", 2)>>

RejectedScript == q1 :> ShortAnswer @@ q2 :> RejectedAnswer

PairScript == q1 :> <<Event("Question", 1), Event("Answer", 1)>>
              @@ q2 :> <<Event("Question", 2)>>

OneScript == q1 :> TextAnswer
=============================================================================
