-------------------------- MODULE MCCompletionRelay --------------------------
(***************************************************************************)
(* Instances of CompletionRelay for TLC.                                   *)
(***************************************************************************)
EXTENDS CompletionRelay

\* The chunks of an answer: references, and text with its usage.
AnswerChunks == {{"References"}, {"Answer", "TokenCount"}}
=============================================================================
