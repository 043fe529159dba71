------------------------- MODULE IsolatedConversations -------------------------
(***************************************************************************)
(* What chatCompletion(conv, ...) promises: each conversation is a history *)
(* of its own.  A turn reads nothing but its prompt and ends by replacing  *)
(* the history by what the model was conditioned on in that turn (the      *)
(* prompt, with or without its last token, and the tokens generated after  *)
(* it) or by leaving it as it was.  There is no cache, no lock, no chain   *)
(* and no other conversation in a turn.                                    *)
(***************************************************************************)
EXTENDS Naturals, Sequences

CONSTANTS Conversations, Vocabulary, Questions, MaxReply, NoHistory, NoTurn

VARIABLES
    history,  \* per conversation: tokens kept, or NoHistory
    turn      \* per conversation: the prompt being answered, or NoTurn

isoVars == <<history, turn>>

Replies == UNION {[1 .. n -> Vocabulary] : n \in 0 .. MaxReply}

\* A turn aborted before its first forward keeps the prompt but its last token.
Kept(prompt) ==
    {SubSeq(prompt, 1, Len(prompt) - 1)} \cup {prompt \o reply : reply \in Replies}

IsoInit == /\ history = [v \in Conversations |-> NoHistory]
           /\ turn = [v \in Conversations |-> NoTurn]

Ask(v) == /\ turn[v] = NoTurn
          /\ \E prompt \in Questions : turn' = [turn EXCEPT ![v] = prompt]
          /\ UNCHANGED history

Answer(v) == /\ turn[v] # NoTurn
             /\ \E h \in Kept(turn[v]) : history' = [history EXCEPT ![v] = h]
             /\ turn' = [turn EXCEPT ![v] = NoTurn]

GiveUp(v) == /\ turn[v] # NoTurn
             /\ turn' = [turn EXCEPT ![v] = NoTurn]
             /\ UNCHANGED history

Copy(v, w) == /\ history[v] # NoHistory
              /\ history[w] = NoHistory /\ turn[w] = NoTurn
              /\ history' = [history EXCEPT ![w] = history[v]]
              /\ UNCHANGED turn

\* Conversations are forgotten one at a time or all together.
Forget(gone) ==
    /\ history' = [v \in Conversations |-> IF v \in gone THEN NoHistory ELSE history[v]]
    /\ turn' = [v \in Conversations |-> IF v \in gone THEN NoTurn ELSE turn[v]]

IsoNext ==
    \/ \E v \in Conversations : Ask(v) \/ Answer(v) \/ GiveUp(v)
    \/ \E v, w \in Conversations : Copy(v, w)
    \/ \E gone \in SUBSET Conversations : Forget(gone)

Spec == IsoInit /\ [][IsoNext]_isoVars
=============================================================================
