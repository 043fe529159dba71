----------------------------- MODULE MCSpeculative -----------------------------
(* A prompt of one token, a drafter of two tokens and one stop token. *)
EXTENDS Speculative

MCPrompt == <<0>>
=============================================================================
