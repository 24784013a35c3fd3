----------------------------- MODULE AnswerStream -----------------------------
(***************************************************************************)
(* What every hop of a streamed answer promises to the one that reads it:  *)
(* the text is delivered in the order in which it was received, and the    *)
(* answer ends once - well only if the source ended it well and all of its *)
(* text was delivered. CompletionRelay, ConversationEngine and             *)
(* SolarCompletion implement it.                                           *)
(***************************************************************************)
EXTENDS Naturals

CONSTANTS
  Restarts,  \* whether another attempt may take the place of one that failed
  Orderly    \* whether an error, too, comes after all text that was received

VARIABLES
  received,   \* how many chunks of text the source has sent in this attempt
  delivered,  \* how many of them the reader has
  source,     \* the source: open, complete or failed
  end         \* how it ended for the reader: none, complete, error or left

vars == <<received, delivered, source, end>>

Init == received = 0 /\ delivered = 0 /\ source = "open" /\ end = "none"

Receive ==
  /\ source = "open"
  /\ received' = received + 1
  /\ UNCHANGED <<delivered, source, end>>

\* The text of the attempt before is void.
Restart ==
  /\ Restarts /\ source = "open"
  /\ received' = 0 /\ delivered' = 0
  /\ UNCHANGED <<source, end>>

SourceEnds ==
  /\ source = "open"
  /\ source' \in {"complete", "failed"}
  /\ UNCHANGED <<received, delivered, end>>

Deliver ==
  /\ end = "none" /\ delivered < received
  /\ delivered' = delivered + 1
  /\ UNCHANGED <<received, source, end>>

Whole == delivered = received

Complete == source = "complete" /\ Whole /\ end' = "complete"

\* A request that is refused has received nothing.
Fail == (Orderly => Whole /\ (source = "failed" \/ received = 0)) /\ end' = "error"

Leave == end' = "left"

End ==
  /\ end = "none"
  /\ Complete \/ Fail \/ Leave
  /\ UNCHANGED <<received, delivered, source>>

Next == Receive \/ Restart \/ SourceEnds \/ Deliver \/ End

Spec == Init /\ [][Next]_vars
=============================================================================
