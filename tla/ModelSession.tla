----------------------------- MODULE ModelSession -----------------------------
(***************************************************************************)
(* The model-id path of the engine (engine.ts: generateStream with a list  *)
(* of messages or with a string, chat, prepareChatPrompt,                  *)
(* getOrCreateSession, resetModelSession) over the model's working KV      *)
(* cache.  The engine keeps one session per model: a position, a token     *)
(* history and the messages of the last call.  A call whose messages       *)
(* extend them prefills only the new ones, on top of what the cache holds; *)
(* any other call empties the cache.  Nothing serialises these calls, and  *)
(* calls on conversations (ConversationChat) use the same cache.           *)
(*                                                                         *)
(* A message is one slot of the cache, and so is a sampled token.  A call  *)
(* is cut where it awaits a forward or yields a token.                     *)
(***************************************************************************)
EXTENDS Integers, Sequences, FiniteSets, SequencesExt

CONSTANTS
    Calls,       \* invocations under way at a time
    Chats,       \* lists of messages a caller may pass
    Messages,    \* the messages in them
    Reply,       \* a token sampled for a list of messages
    Foreign,     \* a token written for anybody else
    MaxTokens,   \* config.maxTokens of every call
    SessionMax,  \* maxTokens of the engine's session
    TileSize,    \* prefillTileSize
    MaxForeign,  \* bound on the slots a conversation leaves in the cache
    MaxCached    \* bound on the slots in use when a forward begins

ASSUME SessionAssumption ==
    /\ Chats \subseteq Seq(Messages) \ {<<>>}
    /\ Reply \notin Messages
    /\ MaxTokens \in Nat \ {0}
    /\ SessionMax \in Nat \ {0}
    /\ TileSize \in Nat \ {0}
    /\ MaxForeign \in Nat
    /\ MaxCached \in Nat

VARIABLES
    session,  \* the session of the model's record, with the messages it records
    cache,    \* the KV slots in use, nCached of them: what was written at each
    call,     \* the state of each invocation
    skipped   \* history: a call on this cache ended before its prefill was complete

vars == <<session, cache, call, skipped>>

\* Only what lone chats write is told apart.
Pieces == Messages \cup {Reply, Foreign}

nCached == Len(cache)

\* getOrCreateSession makes a session when it is first asked for one.
Fresh == [position |-> 0, history |-> 0, messages |-> <<>>]

\* messageCount is the length of cachedMessages.
Session == [position : Nat, history : Nat, messages : Seq(Messages)]

Invocation ==
    [phase : {"idle", "prefill", "yielded", "decode"},
     list : Seq(Messages),  \* the messages, none for a string
     own : BOOLEAN,         \* its session is not, or no longer, the model's
     todo : Seq(Pieces),    \* what is still to be forwarded
     size : Nat,            \* promptTokenIds.length
     at : Nat,              \* position given to that forward, if the session is the model's
     past : Nat,            \* nCached when that forward began
     generated : Nat,       \* generatedCount
     aborted : BOOLEAN,     \* signal.aborted
     alone : BOOLEAN]       \* history: nobody else has touched the cache since

TypeOK ==
    /\ session \in Session
    /\ cache \in Seq(Pieces)
    /\ call \in [Calls -> Invocation]
    /\ skipped \in BOOLEAN

Idle ==
    [phase |-> "idle", list |-> <<>>, own |-> FALSE, todo |-> <<>>, size |-> 0, at |-> 0,
     past |-> 0, generated |-> 0, aborted |-> FALSE, alone |-> FALSE]

Init ==
    /\ session = Fresh
    /\ cache = <<>>
    /\ call = [c \in Calls |-> Idle]
    /\ skipped = FALSE

Waiting(c) == call[c].phase \in {"prefill", "decode"}
Active(c) == Waiting(c) \/ call[c].phase = "yielded"

\* A chat that has had the cache to itself since it began.
Lone(c) == Active(c) /\ call[c].alone /\ call[c].list # <<>>

\* The calls once somebody else has touched the cache or the session.
Interrupted == [c \in Calls |-> [call[c] EXCEPT !.alone = FALSE]]

\* The cache when a forward that read past in nCached has written pieces; it may
\* have been cut since.
Written(past, pieces) ==
    [i \in 1 .. past |-> IF i <= nCached THEN cache[i] ELSE Foreign] \o pieces

-----------------------------------------------------------------------------
\* prepareChatPrompt

\* Mutant: the messages are not compared.
LeadingMessagesFit(cached, list) == cached # <<>> /\ Len(cached) <= Len(list)

LeadingMessagesMatch(cached, list) == cached # <<>> /\ IsPrefix(cached, list)

\* Mutant: the cache's length is not looked at.
FastPathUnchecked(list) ==
    /\ Len(list) > Len(session.messages)
    /\ LeadingMessagesMatch(session.messages, list)

FastPath(list) ==
    /\ Len(list) > Len(session.messages)
    /\ session.position = nCached
    /\ LeadingMessagesMatch(session.messages, list)

\* Mutant: the last message already formatted is formatted again.
DeltaAndOneMore(list) == SubSeq(list, Len(session.messages), Len(list))

\* formatChatDelta
Delta(list) == SubSeq(list, Len(session.messages) + 1, Len(list))

ToForward(list) == IF FastPath(list) THEN Delta(list) ELSE list

\* The messages are recorded before any of them has been forwarded.
Prepared(list) ==
    IF FastPath(list) THEN [session EXCEPT !.messages = list]
                      ELSE [Fresh EXCEPT !.messages = list]

CacheAfterPrepare(list) == IF FastPath(list) THEN cache ELSE <<>>

\* A call starts, with pieces to forward from position pos on, after n slots.  The
\* generator looks at the signal once before the prefill.
Started(c, list, pieces, pos, n, aborted) ==
    LET begun == [phase |-> "prefill", list |-> list, own |-> (list = <<>>),
                  todo |-> pieces, size |-> Len(pieces), at |-> pos, past |-> n,
                  generated |-> 0, aborted |-> FALSE,
                  alone |-> \A d \in Calls : ~Active(d)]
    IN  call' = [Interrupted EXCEPT ![c] = IF aborted THEN Idle ELSE begun]

\* generateStream with a list of messages, up to the await of the prefill.
BeginChat(c, list, aborted) ==
    /\ call[c].phase = "idle" /\ nCached <= MaxCached
    /\ Started(c, list, ToForward(list), Prepared(list).position,
               Len(CacheAfterPrepare(list)), aborted)
    /\ session' = Prepared(list)
    /\ cache' = CacheAfterPrepare(list)
    /\ skipped' = ((skipped /\ FastPath(list)) \/ aborted)

\* chat, and generateStream with a string: a new session, and the cache as it is.
BeginPrompt(c) ==
    /\ call[c].phase = "idle" /\ nCached <= MaxCached
    /\ Started(c, <<>>, <<Foreign>>, 0, nCached, FALSE)
    /\ UNCHANGED <<session, cache, skipped>>

-----------------------------------------------------------------------------
\* forward and Generator.generate

\* The forward c waits for, of pieces, ends well.
Forwarded(c, pieces) ==
    cache' = Written(call[c].past, IF Lone(c) THEN pieces
                                   ELSE [i \in DOMAIN pieces |-> Foreign])

\* The session moves by forwarded positions and is pushed tokens.  What becomes of
\* a session that is not the model's makes no difference to anybody else.
SessionMoved(c, positions, tokens) ==
    session' = IF call[c].own THEN session
               ELSE [session EXCEPT !.position = @ + positions, !.history = @ + tokens]

\* A long prompt is forwarded in tiles; the next forward begins when one ends.
Tile(c) == SubSeq(call[c].todo, 1, TileSize)

AtNextTile(c) ==
    [call[c] EXCEPT !.todo = SubSeq(call[c].todo, TileSize + 1, Len(call[c].todo)),
                    !.at = call[c].at + TileSize, !.past = call[c].past + TileSize]

PrefillTile(c) ==
    /\ call[c].phase = "prefill"
    /\ Len(call[c].todo) > TileSize
    /\ Forwarded(c, Tile(c))
    /\ call' = [call EXCEPT ![c] = AtNextTile(c)]
    /\ UNCHANGED <<session, skipped>>

\* A token is sampled and yielded; an abort, or a token that stops, ends the call.
Yielded(c) ==
    [phase |-> "yielded", list |-> call[c].list, own |-> call[c].own, todo |-> <<>>,
     size |-> 0, at |-> 0, past |-> 0, generated |-> call[c].generated + 1,
     aborted |-> FALSE, alone |-> call[c].alone]

Sampled(c) ==
    \/ call' = [call EXCEPT ![c] = Idle]
    \/ ~call[c].aborted /\ call' = [call EXCEPT ![c] = Yielded(c)]

\* The last forward of the prefill ends: the session takes note of the prompt.
PrefillDone(c) ==
    /\ call[c].phase = "prefill"
    /\ Len(call[c].todo) <= TileSize
    /\ Forwarded(c, call[c].todo)
    /\ SessionMoved(c, call[c].size, call[c].size)
    /\ Sampled(c)
    /\ UNCHANGED skipped

\* After the token just pushed: shouldStop, an abort, or the budget of the call.
\* The first token may be the end-of-sequence token, the later ones are not.  A
\* session of the call's own may be full at any time.
MayStop(c) == call[c].generated = 1 \/ call[c].own

MustStop(c) ==
    \/ ~call[c].own /\ session.history + 1 >= SessionMax
    \/ call[c].aborted
    \/ call[c].generated >= MaxTokens

Decoding(c) ==
    [call[c] EXCEPT !.phase = "decode", !.at = session.position, !.past = nCached,
                    !.todo = <<Reply>>]

\* The consumer asks for the next token: the one yielded is pushed and forwarded.
Resume(c) ==
    /\ call[c].phase = "yielded"
    /\ SessionMoved(c, 0, 1)
    /\ \/ /\ MayStop(c) \/ MustStop(c)
          /\ call' = [call EXCEPT ![c] = Idle]
       \/ /\ ~MustStop(c) /\ nCached <= MaxCached
          /\ call' = [call EXCEPT ![c] = Decoding(c)]
    /\ UNCHANGED <<cache, skipped>>

DecodeDone(c) ==
    /\ call[c].phase = "decode"
    /\ Forwarded(c, call[c].todo)
    /\ SessionMoved(c, 1, 0)
    /\ Sampled(c)
    /\ UNCHANGED skipped

\* A forward rejects.  Of a tiled prefill the earlier tiles stay in the cache.
Fail(c) ==
    /\ Waiting(c)
    /\ skipped' = (skipped \/ call[c].phase = "prefill")
    /\ call' = [call EXCEPT ![c] = Idle]
    /\ UNCHANGED <<session, cache>>

\* The consumer leaves its loop; the generator stays where it is.
Leave(c) ==
    /\ call[c].phase = "yielded"
    /\ call' = [call EXCEPT ![c] = Idle]
    /\ UNCHANGED <<session, cache, skipped>>

\* controller.abort() during the call.
Abort(c) ==
    /\ Active(c) /\ ~call[c].aborted
    /\ call' = [call EXCEPT ![c].aborted = TRUE]
    /\ UNCHANGED <<session, cache, skipped>>

-----------------------------------------------------------------------------
\* The other users of the model

\* resetModelSession: the record forgets its session and the cache is emptied,
\* whoever is generating.
ResetModelSession ==
    /\ session' = Fresh
    /\ cache' = <<>>
    /\ call' = [c \in Calls |-> [Interrupted[c] EXCEPT !.own = @ \/ Active(c)]]
    /\ skipped' = FALSE

\* A call on a conversation loads its snapshot, truncates, prefills or decodes:
\* the cache holds n tokens of that conversation (ConversationChat).
ConversationStep(n) ==
    /\ cache' = [i \in 1 .. n |-> Foreign]
    /\ call' = Interrupted
    /\ UNCHANGED <<session, skipped>>

CallStep(c) ==
    \/ PrefillTile(c) \/ PrefillDone(c) \/ DecodeDone(c) \/ Fail(c)
    \/ Resume(c) \/ Leave(c)

Next ==
    \/ \E c \in Calls :
          \/ \E list \in Chats : BeginChat(c, list, FALSE) \/ BeginChat(c, list, TRUE)
          \/ BeginPrompt(c)
          \/ CallStep(c)
          \/ Abort(c)
    \/ ResetModelSession
    \/ \E n \in 0 .. MaxForeign : ConversationStep(n)

Spec == Init /\ [][Next]_vars

-----------------------------------------------------------------------------
\* Properties

\* Nobody but such chats has written what is in the cache.
Unmixed == Foreign \notin ToSet(cache)

\* A lone chat forwards every token at the position of the slot it is written to,
\* whatever was done to the cache before: the session's position and the cache's
\* length may be used for one another (prepareChatPrompt).
PositionsMatch ==
    \A c \in Calls : Lone(c) /\ Waiting(c) => call[c].at = call[c].past

\* A lone chat on an unmixed cache reads nothing but its own messages and replies:
\* the engine never extends the cache of another list (leadingMessagesMatch).
NoForeignContext ==
    \A c \in Calls :
        Lone(c) /\ Unmixed => ToSet(cache) \subseteq ToSet(call[c].list) \cup {Reply}

\* The messages among the first i pieces, what was sampled between them left out.
SaidBy(pieces, i) == Cardinality({j \in 1 .. i : pieces[j] # Reply})

\* The messages in pieces are those of list, once each and in order.
Says(pieces, list) ==
    /\ SaidBy(pieces, Len(pieces)) = Len(list)
    /\ \A i \in 1 .. Len(pieces) : pieces[i] # Reply => pieces[i] = list[SaidBy(pieces, i)]

Prefilled(c) == call[c].phase \in {"yielded", "decode"}

\* Such a chat has all its messages in the cache, once each and in order, provided
\* that no chat before it on the same cache ended before its prefill was complete:
\* the delta is what the cache lacks, after retries and failures too.
ContextIsComplete ==
    \A c \in Calls :
        Lone(c) /\ Prefilled(c) /\ Unmixed /\ ~skipped => Says(cache, call[c].list)

\* Without that provision: the fast path "can no longer silently hand back the
\* wrong KV" (eval/reports/prefix-cache-interleaved-2026-05-02/SUMMARY.md:64).
FastPathIsRight ==
    \A c \in Calls : Lone(c) /\ Prefilled(c) /\ Unmixed => Says(cache, call[c].list)

\* Decoding never carries a session past its maxTokens, over however many chats it
\* lasts: the history, which shouldStop looks at, never lags behind the position.
DecodeWithinSession ==
    \A c \in Calls :
        Lone(c) /\ call[c].phase = "decode" /\ Unmixed => call[c].at < SessionMax
=============================================================================
