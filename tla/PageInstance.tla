------------------------------ MODULE PageInstance ------------------------------
(***************************************************************************)
(* The chat page with its constants and variables named, for the run and   *)
(* for the proofs, where other parts that have an engine stand beside it.  *)
(***************************************************************************)
EXTENDS Naturals

CONSTANTS Loads, Sends, Clears, Nothing, MaxCalls, MaxReloads

VARIABLES
    pageEngine, loaded, sendDisabled, conv, abortController, card, load, send, clearing, resume,
    up, requests, convs, gen, meta, blob, writes, calls, reloads, pageCleared

Page == INSTANCE ChatPage WITH None <- Nothing, engine <- pageEngine, cleared <- pageCleared

ASSUME PageAssumption == Page!PageConstants

-----------------------------------------------------------------------------
\* The properties of the page, as its module states them: saved questions have their
\* answers (ChatPage).
SavedIsAnswered == Page!SavedIsAnswered

\* What is cleared stays cleared (ChatPage).
ClearedIsGone == Page!ClearedIsGone
=============================================================================
