------------------------- MODULE MCConversationEngine -------------------------
(***************************************************************************)
(* Instances of ConversationEngine for TLC: lists of models.               *)
(***************************************************************************)
EXTENDS ConversationEngine

Entry(provider, retries) == [provider |-> provider, retries |-> retries]

Lists == {<<Entry("openai", 2), Entry("upstage", 1)>>, <<Entry("openai", 1), Entry("azure", 1)>>}

OpenAI == {<<Entry("openai", 1), Entry("openai", 1)>>}
=============================================================================
