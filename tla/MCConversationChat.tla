-------------------------- MODULE MCConversationChat --------------------------
(***************************************************************************)
(* A small instance of ConversationChat.  The prompts are chosen so that a *)
(* later one shares a part or all of an earlier one's tokens, or diverges  *)
(* from it after a shared token, so that generated tokens take part in the *)
(* match, and so that the longest one fills the context.                   *)
(***************************************************************************)
EXTENDS ConversationChatIsolation

MCTokens  == {0, 1}
MCPrompts == {<<1>>, <<1, 0, 1>>}
=============================================================================
