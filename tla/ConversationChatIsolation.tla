----------------------- MODULE ConversationChatIsolation -----------------------
(***************************************************************************)
(* The conversation path of chatCompletion implements                      *)
(* IsolatedConversations although all conversations share one cache.  A    *)
(* conversation's history is the content of its snapshot's KV bytes, not   *)
(* the token ids kept beside them.                                         *)
(***************************************************************************)
EXTENDS ConversationChat

\* The marker of a conversation without a snapshot is neither a list of token
\* ids, padded or not, nor a snapshot.
ASSUME MarkerAssumption ==
    /\ None \notin Seq(Tokens \cup {-1})
    /\ None \notin SnapshotType

Content(kv) == [k \in DOMAIN kv |-> kv[k][1]]

HistoryOf(v) == IF pool[v].snap = None THEN None ELSE Content(pool[v].snap.kv)

Answering(v) == {c \in Calls : Open(c) /\ call[c].conv = v}

TurnOf(v) == IF Live(v) /\ Answering(v) # {}
             THEN call[CHOOSE c \in Answering(v) : TRUE].prompt
             ELSE None

Isolated == INSTANCE IsolatedConversations WITH
    Conversations <- Convs,
    Vocabulary    <- Tokens,
    Questions     <- Prompts,
    MaxReply      <- MaxTokens,
    NoHistory     <- None,
    NoTurn        <- None,
    history       <- [v \in Convs |-> HistoryOf(v)],
    turn          <- [v \in Convs |-> TurnOf(v)]

\* Two conversations on one model are isolated (engine.ts:946-947): what a turn
\* keeps is its own prompt and reply, whatever the other calls were doing.
ImplementsIsolation == Isolated!Spec
=============================================================================
