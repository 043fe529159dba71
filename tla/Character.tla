------------------------------ MODULE Character ------------------------------
(***************************************************************************)
(* A character (characters/character.ts) with its tools (tool-system.ts),  *)
(* and what the character manager does to it.  A chat writes the user's    *)
(* message into the history, streams the engine's answer, runs the tool    *)
(* the answer calls for, and writes the answer.  One flag says that a      *)
(* stream is to go on (active), another that the character was stopped;    *)
(* both are shared by all its chats, which may overlap, and stop,          *)
(* clearHistory and setTools may come at every await and yield.            *)
(***************************************************************************)
EXTENDS Integers, Sequences, SequencesExt

CONSTANTS Chats

VARIABLES
    messages,  \* history: role, and the chat it belongs to
    active,
    stopped,
    engine,    \* an engine is attached
    tools,     \* there is a toolSystem
    chat,      \* where each chat is suspended
    signal,    \* chats whose signal is aborted
    shared,    \* history: chats that another chat has overlapped
    cleared,   \* history: chats under way at a clearHistory
    halted     \* history: chats that were streaming at a stop

vars == <<messages, active, stopped, engine, tools, chat, signal, shared, cleared, halted>>

history == <<shared, cleared, halted>>

Message(role, c) == [role |-> role, chat |-> c]

Roles == {"user", "assistant", "tool"}

TypeOK ==
    /\ messages \in Seq([role : Roles, chat : Chats])
    /\ active \in BOOLEAN /\ stopped \in BOOLEAN
    /\ engine \in BOOLEAN /\ tools \in BOOLEAN
    /\ chat \in [Chats -> {"idle", "stream", "yield", "tool", "over", "failed"}]
    /\ {signal, shared, cleared, halted} \subseteq SUBSET Chats

\* The system message, which stays first, is left out.
Init ==
    /\ messages = <<>>
    /\ active = FALSE
    /\ stopped = FALSE
    /\ engine \in BOOLEAN
    /\ tools \in BOOLEAN
    /\ chat = [c \in Chats |-> "idle"]
    /\ signal = {}
    /\ shared = {} /\ cleared = {} /\ halted = {}

Streaming(c) == chat[c] \in {"stream", "yield"}

UnderWay == {c \in Chats : Streaming(c) \/ chat[c] = "tool"}

Goes(c, phase) == chat' = [chat EXCEPT ![c] = phase]

-----------------------------------------------------------------------------
\* chat

\* The flag after the start of a chat.
ActiveAfterStart(c) == IF stopped \/ c \in signal \/ ~engine THEN active ELSE TRUE

\* From the call to the engine's first chunk.
Chat(c) ==
    /\ chat[c] = "idle"
    /\ messages' = Append(messages, Message("user", c))
    /\ active' = ActiveAfterStart(c)
    /\ Goes(c, IF stopped \/ c \in signal THEN "over" ELSE IF ~engine THEN "failed" ELSE "stream")
    /\ shared' = shared \cup UnderWay \cup (IF UnderWay = {} THEN {} ELSE {c})
    /\ UNCHANGED <<stopped, engine, tools, signal, cleared, halted>>

\* The finally block of the loop over the engine's chunks.
Finally == active' = FALSE

\* A chunk; those without text are passed over.
Chunk(c) ==
    /\ chat[c] = "stream"
    /\ IF ~active \/ c \in signal
       THEN /\ stopped' = FALSE
            /\ Goes(c, "over")
            /\ Finally
       ELSE /\ Goes(c, "yield")
            /\ UNCHANGED <<stopped, active>>
    /\ UNCHANGED <<messages, engine, tools, signal>> /\ UNCHANGED history

Resume(c) ==
    /\ chat[c] = "yield"
    /\ Goes(c, "stream")
    /\ UNCHANGED <<messages, active, stopped, engine, tools, signal>> /\ UNCHANGED history

\* The consumer leaves its loop at a yield, or the engine's stream throws.
Leave(c) ==
    /\ \/ chat[c] = "yield" /\ Goes(c, "over")
       \/ chat[c] = "stream" /\ Goes(c, "failed")
    /\ Finally
    /\ UNCHANGED <<messages, stopped, engine, tools, signal>> /\ UNCHANGED history

\* Mutant: the answer is put before everything.
AnswerBefore(c) == <<Message("assistant", c)>> \o messages

Answer(c) == Append(messages, Message("assistant", c))

\* The stream ends; nobody looks at the flags any more.  The answer may call for a tool.
StreamEnds(c) ==
    /\ chat[c] = "stream"
    /\ Finally
    /\ \/ Goes(c, "over") /\ messages' = Answer(c)
       \/ tools /\ Goes(c, "tool") /\ UNCHANGED messages
    /\ UNCHANGED <<stopped, engine, tools, signal>> /\ UNCHANGED history

\* ToolSystem.execute resolves, with a result or an error of the handler; the result is
\* formatted by the toolSystem of that moment: without one that throws, and so it does
\* when the result cannot be written as JSON.
ToolDone(c) ==
    /\ chat[c] = "tool"
    /\ \/ tools /\ Goes(c, "over") /\ messages' = Append(Answer(c), Message("tool", c))
       \/ Goes(c, "failed") /\ UNCHANGED messages
    /\ UNCHANGED <<active, stopped, engine, tools, signal>> /\ UNCHANGED history

-----------------------------------------------------------------------------
\* The other operations

\* Mutant: a stop is only noted.
ActiveAfterStopKept == active

ActiveAfterStop == FALSE

\* stop, and what remove, stopAll and clear of the manager do to the character.
Stop ==
    /\ stopped' = TRUE
    /\ active' = ActiveAfterStop
    /\ halted' = halted \cup {c \in Chats : Streaming(c)}
    /\ UNCHANGED <<messages, engine, tools, chat, signal, shared, cleared>>

clearHistory ==
    /\ messages' = <<>>
    /\ cleared' = cleared \cup UnderWay
    /\ UNCHANGED <<active, stopped, engine, tools, chat, signal, shared, halted>>

setTools(some) ==
    /\ tools' = some
    /\ UNCHANGED <<messages, active, stopped, engine, chat, signal>> /\ UNCHANGED history

attachEngine ==
    /\ engine' = TRUE
    /\ UNCHANGED <<messages, active, stopped, tools, chat, signal>> /\ UNCHANGED history

Abort(c) ==
    /\ signal' = signal \cup {c}
    /\ UNCHANGED <<messages, active, stopped, engine, tools, chat>> /\ UNCHANGED history

Next ==
    \/ Stop \/ clearHistory \/ attachEngine
    \/ \E some \in BOOLEAN : setTools(some)
    \/ \E c \in Chats : Chat(c) \/ Chunk(c) \/ Resume(c) \/ Leave(c) \/ StreamEnds(c)
                        \/ ToolDone(c) \/ Abort(c)

Spec == Init /\ [][Next]_vars

-----------------------------------------------------------------------------
\* Properties

\* isActive, and the manager's activeCount: the flag is up only while a chat streams,
\* whichever of several chats that overlap ended first.
ActiveIsStreaming == active => \E c \in Chats : Streaming(c)

\* A chat that no other has overlapped yields nothing after a stop.
StopTakesEffect ==
    [][\A c \in halted \ shared : chat'[c] = "yield" => chat[c] = "yield"]_vars

\* The answer of a chat that no other has overlapped stands next to its question, unless
\* the history was cleared meanwhile, and a tool's result stands next to the answer that
\* called for it.
TurnsPaired ==
    \A i \in DOMAIN messages :
        LET c == messages[i].chat IN
        /\ (messages[i].role = "assistant" /\ c \notin shared \cup cleared) =>
                i > 1 /\ messages[i - 1] = Message("user", c)
        /\ messages[i].role = "tool" => i > 1 /\ messages[i - 1] = Message("assistant", c)
=============================================================================
