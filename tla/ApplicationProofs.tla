--------------------------- MODULE ApplicationProofs ---------------------------
(***************************************************************************)
(* Theorems about the parts an application is built from, which share no   *)
(* state: a character, the stream router and the scheduler with its game   *)
(* loop that Application instantiates, and the chat page.                  *)
(*                                                                         *)
(* Character: chats that are under way together have all been marked as    *)
(* shared, and a chat that is not shared, once stopped, streams with the   *)
(* flag down.  Router: what a consumer was given, is about to be given and *)
(* has queued begins what was emitted to it.  Scheduler: a task is in one  *)
(* place at a time, and tasks of one id that execute together have been    *)
(* noted.  Chat page: saved questions have their answers, and what is      *)
(* cleared stays cleared.                                                  *)
(***************************************************************************)
EXTENDS Character, Application, PageInstance, FiniteSets, SequenceTheorems, TLAPS

(***************************************************************************)
(* Character                                                               *)
(***************************************************************************)

Turn == [role : Roles, chat : Chats]

\* A turn and its fields.
LEMMA MessageType ==
    ASSUME NEW c \in Chats, NEW role \in Roles
    PROVE  /\ Message(role, c) \in Turn
           /\ Message(role, c).role = role
           /\ Message(role, c).chat = c
BY DEF Message, Turn

\* One more turn.
LEMMA AppendTurn ==
    ASSUME NEW s \in Seq(Turn), NEW m \in Turn
    PROVE  /\ Append(s, m) \in Seq(Turn)
           /\ Len(Append(s, m)) = Len(s) + 1
           /\ DOMAIN Append(s, m) = 1..(Len(s) + 1)
           /\ \A i \in 1..Len(s) : Append(s, m)[i] = s[i]
           /\ Append(s, m)[Len(s) + 1] = m
OBVIOUS

\* The history with the answer of a chat.
LEMMA AnswerTurn ==
    ASSUME TypeOK, NEW c \in Chats
    PROVE  /\ Answer(c) = Append(messages, Message("assistant", c))
           /\ Answer(c) \in Seq(Turn)
BY MessageType, AppendTurn DEF Answer, TypeOK, Turn, Roles

(***************************************************************************)
(* Types                                                                   *)
(***************************************************************************)

\* Every action keeps the types.
LEMMA TypeStep == ASSUME TypeOK, [Next]_vars PROVE TypeOK'
<1> USE DEF TypeOK, history
<1>1. CASE Stop
  BY <1>1 DEF Stop, ActiveAfterStop
<1>2. CASE clearHistory
  BY <1>2 DEF clearHistory, UnderWay
<1>3. CASE attachEngine
  BY <1>3 DEF attachEngine
<1>4. ASSUME NEW some \in BOOLEAN, setTools(some) PROVE TypeOK'
  BY <1>4 DEF setTools
<1>5. ASSUME NEW c \in Chats, Chat(c) PROVE TypeOK'
  <2>1. messages' \in Seq(Turn)
    BY <1>5, MessageType, AppendTurn DEF Chat, Turn, Roles
  <2>2. QED
    BY <1>5, <2>1 DEF Chat, Goes, ActiveAfterStart, UnderWay, Turn
<1>6. ASSUME NEW c \in Chats, Chunk(c) PROVE TypeOK'
  BY <1>6 DEF Chunk, Goes, Finally
<1>7. ASSUME NEW c \in Chats, Resume(c) PROVE TypeOK'
  BY <1>7 DEF Resume, Goes
<1>8. ASSUME NEW c \in Chats, Leave(c) PROVE TypeOK'
  BY <1>8 DEF Leave, Goes, Finally
<1>9. ASSUME NEW c \in Chats, StreamEnds(c) PROVE TypeOK'
  <2>1. messages' \in Seq(Turn)
    BY <1>9, AnswerTurn DEF StreamEnds, Turn
  <2>2. QED
    BY <1>9, <2>1 DEF StreamEnds, Goes, Finally, Turn
<1>10. ASSUME NEW c \in Chats, ToolDone(c) PROVE TypeOK'
  <2>1. Message("tool", c) \in Turn /\ Answer(c) \in Seq(Turn)
    BY <1>10, AnswerTurn, MessageType DEF Roles
  <2>2. Append(Answer(c), Message("tool", c)) \in Seq(Turn)
    BY <2>1, AppendTurn
  <2>3. messages \in Seq(Turn)
    BY DEF Turn
  <2>4. messages' \in Seq(Turn)
    BY <1>10, <2>2, <2>3 DEF ToolDone
  <2>5. QED
    BY <1>10, <2>4 DEF ToolDone, Goes, Turn
<1>11. ASSUME NEW c \in Chats, Abort(c) PROVE TypeOK'
  BY <1>11 DEF Abort
<1>12. CASE UNCHANGED vars
  BY <1>12 DEF vars
<1>13. QED
  BY <1>1, <1>2, <1>3, <1>4, <1>5, <1>6, <1>7, <1>8, <1>9, <1>10, <1>11, <1>12 DEF Next

\* The variables of the character keep their types, for any set of chats.
THEOREM TypeCorrect == Spec => []TypeOK
<1>1. Init => TypeOK
  <2>1. <<>> \in Seq([role : Roles, chat : Chats])
    OBVIOUS
  <2>2. {} \in SUBSET Chats
    OBVIOUS
  <2>3. QED
    BY <2>1, <2>2 DEF Init, TypeOK
<1>2. QED
  BY <1>1, TypeStep, PTL DEF Spec

(***************************************************************************)
(* The flag                                                                *)
(***************************************************************************)

\* A step by which some chat goes on streaming, or the flag falls, keeps the flag true.
LEMMA ActiveStep ==
    ASSUME TypeOK, ActiveIsStreaming, [Next]_vars
    PROVE  ActiveIsStreaming'
<1> USE DEF TypeOK, ActiveIsStreaming, Streaming, history
<1>1. CASE Stop
  BY <1>1 DEF Stop, ActiveAfterStop
<1>2. CASE clearHistory \/ attachEngine \/ \E some \in BOOLEAN : setTools(some)
  BY <1>2 DEF clearHistory, attachEngine, setTools
<1>3. ASSUME NEW c \in Chats, Chat(c) PROVE ActiveIsStreaming'
  BY <1>3 DEF Chat, Goes, ActiveAfterStart
<1>4. ASSUME NEW c \in Chats, Chunk(c) PROVE ActiveIsStreaming'
  BY <1>4 DEF Chunk, Goes, Finally
<1>5. ASSUME NEW c \in Chats, Resume(c) PROVE ActiveIsStreaming'
  BY <1>5 DEF Resume, Goes
<1>6. ASSUME NEW c \in Chats, Leave(c) \/ StreamEnds(c) PROVE ActiveIsStreaming'
  BY <1>6 DEF Leave, StreamEnds, Finally
<1>7. ASSUME NEW c \in Chats, ToolDone(c) PROVE ActiveIsStreaming'
  BY <1>7 DEF ToolDone, Goes
<1>8. ASSUME NEW c \in Chats, Abort(c) PROVE ActiveIsStreaming'
  BY <1>8 DEF Abort
<1>9. CASE UNCHANGED vars
  BY <1>9 DEF vars
<1>10. QED
  BY <1>1, <1>2, <1>3, <1>4, <1>5, <1>6, <1>7, <1>8, <1>9 DEF Next

\* The flag is up only while a chat streams, for any number of chats that overlap.
THEOREM ActiveIsStreamingHolds == Spec => []ActiveIsStreaming
<1>1. Init => ActiveIsStreaming
  BY DEF Init, ActiveIsStreaming
<1>2. QED
  BY <1>1, ActiveStep, TypeCorrect, PTL DEF Spec

(***************************************************************************)
(* Chats that overlap                                                      *)
(***************************************************************************)

\* Of two chats under way each has been overlapped by the other.
Overlapped == \A c, d \in UnderWay : c # d => c \in shared

\* A chat that was streaming at a stop, and that no other has overlapped, streams on with
\* the flag down.
HaltInv ==
    \A c \in halted : /\ chat[c] # "idle"
                      /\ c \notin shared /\ Streaming(c) => ~active

\* A chat under way whose question has not been cleared finds it at the end of the
\* history, unless another chat has overlapped it.
LastInv ==
    \A c \in UnderWay \ (shared \cup cleared) :
        Len(messages) > 0 /\ messages[Len(messages)] = Message("user", c)

OverlapInv == Overlapped /\ HaltInv

\* Every action keeps both facts.
LEMMA OverlapStep == ASSUME TypeOK, OverlapInv, [Next]_vars PROVE OverlapInv'
<1> USE DEF TypeOK, OverlapInv, Overlapped, HaltInv, UnderWay, Streaming, history
<1>1. CASE Stop
  BY <1>1 DEF Stop, ActiveAfterStop
<1>2. CASE clearHistory \/ attachEngine \/ \E some \in BOOLEAN : setTools(some)
  BY <1>2 DEF clearHistory, attachEngine, setTools
<1>3. ASSUME NEW c \in Chats, Chat(c) PROVE OverlapInv'
  <2>1. Overlapped'
    BY <1>3 DEF Chat, Goes
  <2>2. HaltInv'
    BY <1>3 DEF Chat, Goes, ActiveAfterStart
  <2>3. QED
    BY <2>1, <2>2
<1>4. ASSUME NEW c \in Chats, Chunk(c) PROVE OverlapInv'
  BY <1>4 DEF Chunk, Goes, Finally
<1>5. ASSUME NEW c \in Chats, Resume(c) PROVE OverlapInv'
  BY <1>5 DEF Resume, Goes
<1>6. ASSUME NEW c \in Chats, Leave(c) PROVE OverlapInv'
  BY <1>6 DEF Leave, Goes, Finally
<1>7. ASSUME NEW c \in Chats, StreamEnds(c) PROVE OverlapInv'
  BY <1>7 DEF StreamEnds, Goes, Finally
<1>8. ASSUME NEW c \in Chats, ToolDone(c) PROVE OverlapInv'
  BY <1>8 DEF ToolDone, Goes
<1>9. ASSUME NEW c \in Chats, Abort(c) PROVE OverlapInv'
  BY <1>9 DEF Abort
<1>10. CASE UNCHANGED vars
  BY <1>10 DEF vars
<1>11. QED
  BY <1>1, <1>2, <1>3, <1>4, <1>5, <1>6, <1>7, <1>8, <1>9, <1>10 DEF Next

\* Chats that overlap are marked, and a stopped chat streams with the flag down.
THEOREM OverlapInvHolds == Spec => []OverlapInv
<1>1. Init => OverlapInv
  BY DEF Init, OverlapInv, Overlapped, HaltInv, UnderWay, Streaming
<1>2. QED
  BY <1>1, OverlapStep, TypeCorrect, PTL DEF Spec

\* Only a chunk takes a chat to a yield, and it looks at the flag first.
LEMMA NoYieldAfterStop ==
    ASSUME TypeOK, OverlapInv, [Next]_vars
    PROVE  [\A c \in halted \ shared : chat'[c] = "yield" => chat[c] = "yield"]_vars
<1> SUFFICES ASSUME Next, NEW d \in halted \ shared, chat'[d] = "yield"
             PROVE  chat[d] = "yield"
  BY DEF vars
<1> USE DEF TypeOK, history
<1>1. CASE Stop \/ clearHistory \/ attachEngine \/ \E some \in BOOLEAN : setTools(some)
  BY <1>1 DEF Stop, clearHistory, attachEngine, setTools
<1>2. ASSUME NEW c \in Chats,
             Chat(c) \/ Resume(c) \/ Leave(c) \/ StreamEnds(c) \/ ToolDone(c) \/ Abort(c)
      PROVE  chat[d] = "yield"
  BY <1>2 DEF Chat, Resume, Leave, StreamEnds, ToolDone, Abort, Goes
<1>3. ASSUME NEW c \in Chats, Chunk(c) PROVE chat[d] = "yield"
  <2>1. CASE d = c
    BY <1>3, <2>1 DEF Chunk, Goes, OverlapInv, HaltInv, Streaming
  <2>2. CASE d # c
    BY <1>3, <2>2 DEF Chunk, Goes
  <2>3. QED
    BY <2>1, <2>2
<1>4. QED
  BY <1>1, <1>2, <1>3 DEF Next

\* A stop takes effect at the next chunk, however many chats there are.
THEOREM StopTakesEffectHolds == Spec => StopTakesEffect
BY NoYieldAfterStop, TypeCorrect, OverlapInvHolds, PTL DEF Spec, StopTakesEffect

(***************************************************************************)
(* Turns                                                                   *)
(***************************************************************************)

\* An answer with what may not stand between it and its question.
Paired(ms, i, excepted) ==
    /\ (ms[i].role = "assistant" /\ ms[i].chat \notin excepted) =>
            i > 1 /\ ms[i - 1] = Message("user", ms[i].chat)
    /\ ms[i].role = "tool" => i > 1 /\ ms[i - 1] = Message("assistant", ms[i].chat)

AllPaired(ms, excepted) == \A i \in 1..Len(ms) : Paired(ms, i, excepted)

\* TurnsPaired in the form the lemmas speak of.
LEMMA PairedIsTurns == TypeOK => (TurnsPaired <=> AllPaired(messages, shared \cup cleared))
BY DEF TurnsPaired, AllPaired, Paired, TypeOK

\* One more turn leaves the others as they are, and excepting more chats asks less.
LEMMA PairedAppend ==
    ASSUME NEW ms \in Seq(Turn), NEW m \in Turn, NEW ex, NEW more,
           ex \subseteq more, AllPaired(ms, ex),
           m.role = "assistant" /\ m.chat \notin more =>
               Len(ms) > 0 /\ ms[Len(ms)] = Message("user", m.chat),
           m.role = "tool" => Len(ms) > 0 /\ ms[Len(ms)] = Message("assistant", m.chat)
    PROVE  AllPaired(Append(ms, m), more)
<1> DEFINE n == Len(ms) + 1
<1> DEFINE new == Append(ms, m)
<1>1. n \in Nat /\ Len(new) = n /\ new[n] = m
  BY AppendTurn
<1>2. ASSUME NEW i \in 1..Len(ms) PROVE Paired(new, i, more)
  <2>1. new[i] = ms[i] /\ (i > 1 => new[i - 1] = ms[i - 1])
    BY AppendTurn
  <2>2. Paired(ms, i, ex)
    BY DEF AllPaired
  <2>3. QED
    BY <2>1, <2>2 DEF Paired
<1>3. Paired(new, n, more)
  <2>1. Len(ms) > 0 => n > 1 /\ new[n - 1] = ms[Len(ms)]
    BY AppendTurn
  <2>2. QED
    BY <1>1, <2>1 DEF Paired
<1>4. \A i \in 1..n : i \in 1..Len(ms) \/ i = n
  OBVIOUS
<1>5. QED
  BY <1>1, <1>2, <1>3, <1>4 DEF AllPaired

TurnsInv == TurnsPaired /\ LastInv

\* Steps that write nothing and start no chat.
LEMMA TurnsQuiet ==
    ASSUME TypeOK, TurnsInv, messages' = messages, shared' = shared, cleared' = cleared,
           UnderWay' \subseteq UnderWay
    PROVE  TurnsInv'
BY DEF TurnsInv, TurnsPaired, LastInv

\* The question of a new chat is the last turn, and the chats under way are now shared.
LEMMA TurnsChat ==
    ASSUME TypeOK, TypeOK', TurnsInv, NEW c \in Chats, Chat(c)
    PROVE  TurnsInv'
<1> DEFINE m == Message("user", c)
<1>1. messages \in Seq(Turn) /\ m \in Turn /\ m.role = "user"
  BY MessageType DEF TypeOK, Turn, Roles
<1>2. messages' = Append(messages, m) /\ cleared' = cleared
  BY DEF Chat
<1>3. shared \cup cleared \subseteq (shared \cup cleared)' /\ UnderWay \subseteq shared'
  BY DEF Chat
<1>4. AllPaired(messages, shared \cup cleared)
  BY PairedIsTurns DEF TurnsInv
<1> HIDE DEF m
<1>5. AllPaired(messages', (shared \cup cleared)')
  <2>1. ~(m.role = "assistant") /\ ~(m.role = "tool")
    BY <1>1
  <2> DEFINE more == (shared \cup cleared)'
  <2>2. shared \cup cleared \subseteq more
    BY <1>3
  <2> HIDE DEF more
  <2>3. AllPaired(Append(messages, m), more)
    BY <1>1, <1>4, <2>1, <2>2, PairedAppend
  <2>4. QED
    BY <1>2, <2>3 DEF more
<1>6. TurnsPaired'
  BY <1>5, PairedIsTurns DEF TurnsPaired, AllPaired, Paired, TypeOK
<1>7. UnderWay' \subseteq UnderWay \cup {c}
  BY DEF Chat, UnderWay, Streaming, Goes, TypeOK
<1>8. Len(messages') > 0 /\ messages'[Len(messages')] = m
  BY <1>1, <1>2, AppendTurn
<1>9. LastInv'
  BY <1>3, <1>7, <1>8 DEF LastInv, m
<1>10. QED
  BY <1>6, <1>9 DEF TurnsInv

\* The answer of a chat under way follows its question, unless the chat is excepted.
LEMMA TurnsAnswer ==
    ASSUME TypeOK, TurnsInv, NEW c \in UnderWay
    PROVE  AllPaired(Answer(c), shared \cup cleared)
<1> DEFINE m == Message("assistant", c)
<1> DEFINE ex == shared \cup cleared
<1>1. c \in Chats
  BY DEF UnderWay
<1>2. messages \in Seq(Turn) /\ m \in Turn /\ m.role = "assistant" /\ m.chat = c
  BY <1>1, MessageType DEF TypeOK, Turn, Roles
<1>3. AllPaired(messages, ex)
  BY PairedIsTurns DEF TurnsInv
<1>4. c \notin ex => Len(messages) > 0 /\ messages[Len(messages)] = Message("user", c)
  BY DEF TurnsInv, LastInv
<1>5. Answer(c) = Append(messages, m)
  BY DEF Answer
<1> HIDE DEF m, ex
<1>6. AllPaired(Append(messages, m), ex)
  BY <1>2, <1>3, <1>4, PairedAppend
<1>7. QED
  BY <1>5, <1>6 DEF ex

\* While another chat is under way too, both are shared: what one writes leaves LastInv.
LEMMA LastKept ==
    ASSUME TypeOK, OverlapInv, NEW c \in UnderWay, UnderWay' = UnderWay \ {c},
           shared' = shared
    PROVE  LastInv'
BY DEF OverlapInv, Overlapped, LastInv

\* Every action keeps turns paired.
LEMMA TurnsStep ==
    ASSUME TypeOK, TypeOK', OverlapInv, TurnsInv, [Next]_vars
    PROVE  TurnsInv'
<1> USE DEF history
<1>1. CASE Stop \/ attachEngine \/ \E some \in BOOLEAN : setTools(some)
  BY <1>1, TurnsQuiet DEF Stop, attachEngine, setTools, UnderWay, Streaming
<1>2. CASE clearHistory
  <2>1. messages' = <<>> /\ UnderWay' = UnderWay /\ UnderWay \subseteq cleared'
    BY <1>2 DEF clearHistory, UnderWay, Streaming
  <2>2. QED
    BY <2>1 DEF TurnsInv, TurnsPaired, LastInv
<1>3. ASSUME NEW c \in Chats, Chat(c) PROVE TurnsInv'
  BY <1>3, TurnsChat
<1>4. ASSUME NEW c \in Chats, Chunk(c) \/ Resume(c) \/ Leave(c) \/ Abort(c)
      PROVE  TurnsInv'
  BY <1>4, TurnsQuiet DEF Chunk, Resume, Leave, Abort, Goes, UnderWay, Streaming, TypeOK
<1>5. ASSUME NEW c \in Chats, StreamEnds(c) PROVE TurnsInv'
  <2>1. c \in UnderWay /\ shared' = shared /\ cleared' = cleared
    BY <1>5 DEF StreamEnds, UnderWay, Streaming
  <2>2. CASE chat' = [chat EXCEPT ![c] = "over"] /\ messages' = Answer(c)
    <3>1. UnderWay' = UnderWay \ {c}
      BY <2>1, <2>2 DEF UnderWay, Streaming, TypeOK
    <3>2. LastInv'
      BY <2>1, <3>1, LastKept
    <3>3. AllPaired(messages', (shared \cup cleared)')
      BY <2>1, <2>2, TurnsAnswer
    <3>4. TurnsPaired'
      BY <3>3 DEF TurnsPaired, AllPaired, Paired, TypeOK
    <3>5. QED
      BY <3>2, <3>4 DEF TurnsInv
  <2>3. CASE chat' = [chat EXCEPT ![c] = "tool"] /\ messages' = messages
    BY <2>1, <2>3, TurnsQuiet DEF UnderWay, Streaming, TypeOK
  <2>4. QED
    BY <1>5, <2>2, <2>3 DEF StreamEnds, Goes
<1>6. ASSUME NEW c \in Chats, ToolDone(c) PROVE TurnsInv'
  <2>1. c \in UnderWay /\ shared' = shared /\ cleared' = cleared
    BY <1>6 DEF ToolDone, UnderWay
  <2> DEFINE m == Message("tool", c)
  <2>2. CASE chat' = [chat EXCEPT ![c] = "over"] /\ messages' = Append(Answer(c), m)
    <3>1. UnderWay' = UnderWay \ {c}
      BY <2>1, <2>2 DEF UnderWay, Streaming, TypeOK
    <3>2. LastInv'
      BY <2>1, <3>1, LastKept
    <3> DEFINE ex == shared \cup cleared
    <3>3. AllPaired(Answer(c), ex)
      BY <2>1, TurnsAnswer
    <3>4. /\ Answer(c) \in Seq(Turn)
          /\ Len(Answer(c)) > 0
          /\ Answer(c)[Len(Answer(c))] = Message("assistant", c)
      <4>1. Message("assistant", c) \in Turn /\ messages \in Seq(Turn)
        BY MessageType DEF TypeOK, Turn, Roles
      <4>2. QED
        BY <4>1, AppendTurn DEF Answer
    <3>5. m \in Turn /\ m.role = "tool" /\ m.chat = c
      BY MessageType DEF Roles
    <3> HIDE DEF m, ex
    <3>6. AllPaired(Append(Answer(c), m), ex)
      BY <3>3, <3>4, <3>5, PairedAppend
    <3>7. TurnsPaired'
      <4>1. (shared \cup cleared)' = ex
        BY <2>1 DEF ex
      <4>2. AllPaired(messages', (shared \cup cleared)')
        BY <2>2, <3>6, <4>1
      <4>3. QED
        BY <4>2 DEF TurnsPaired, AllPaired, Paired, TypeOK
    <3>8. QED
      BY <3>2, <3>7 DEF TurnsInv
  <2>3. CASE chat' = [chat EXCEPT ![c] = "failed"] /\ messages' = messages
    BY <2>1, <2>3, TurnsQuiet DEF UnderWay, Streaming, TypeOK
  <2>4. QED
    BY <1>6, <2>2, <2>3 DEF ToolDone, Goes
<1>7. CASE UNCHANGED vars
  BY <1>7, TurnsQuiet DEF vars, UnderWay, Streaming
<1>8. QED
  BY <1>1, <1>2, <1>3, <1>4, <1>5, <1>6, <1>7 DEF Next

\* Answers stand next to their questions and tool results next to their answers, for any
\* number of chats, except those that overlapped or whose history was cleared.
THEOREM TurnsPairedHolds == Spec => []TurnsPaired
<1>1. Init => TurnsInv
  BY DEF Init, TurnsInv, TurnsPaired, LastInv, UnderWay, Streaming
<1>2. TurnsInv => TurnsPaired
  BY DEF TurnsInv
<1>3. QED
  BY <1>1, <1>2, TurnsStep, TypeCorrect, OverlapInvHolds, PTL DEF Spec

(***************************************************************************)
(* Stream router                                                           *)
(***************************************************************************)

\* What a consumer was given, is about to be given and has queued.
Kept(c) == received[c] \o Router!UnderWay(c) \o queues[c]

\* The first of n numbered values; all of them unless they were cut off.
Fits(kept, n, cut) ==
    /\ Len(kept) <= n /\ (~cut => Len(kept) = n)
    /\ \A k \in 1 .. Len(kept) : kept[k] = k

\* Whoever is cut off is closed; a promise is resolved once, and before its reader waits
\* for nothing.
Settled(c) ==
    /\ interrupted[c] => closed[c]
    /\ resolve[c] => result[c] = None /\ ~closed[c] /\ queues[c] = <<>>
    /\ reader[c] = "waiting" => resolve[c] \/ result[c] # None

RouterInv ==
    /\ Router!TypeOK
    /\ \A c \in Consumers : Fits(Kept(c), emitted[c], interrupted[c]) /\ Settled(c)

\* The stages of a consumer's values.
LEMMA KeptType ==
    ASSUME Router!RouterConstants, Router!TypeOK, NEW c \in Consumers
    PROVE  /\ received[c] \in Seq(Router!Values) /\ queues[c] \in Seq(Router!Values)
           /\ Router!UnderWay(c) \in Seq(Router!Values)
           /\ Kept(c) \in Seq(Router!Values) /\ emitted[c] \in Nat
<1>1. /\ received[c] \in Seq(Router!Values) /\ queues[c] \in Seq(Router!Values)
      /\ emitted[c] \in 0..MaxEmits /\ result[c] \in Router!Values \cup {None, Done}
  BY DEF Router!TypeOK
<1>2. Router!UnderWay(c) \in Seq(Router!Values)
  BY <1>1 DEF Router!UnderWay
<1>3. QED
  BY <1>1, <1>2 DEF Kept

LEMMA InvServes ==
    ASSUME Router!RouterConstants, RouterInv
    PROVE  Router!ConsumersAreServed
<1> SUFFICES ASSUME NEW c \in Consumers
             PROVE  LET all == [n \in 1 .. emitted[c] |-> n]
                    IN  /\ Router!IsPrefix(Kept(c), all) /\ (~interrupted[c] => Kept(c) = all)
                        /\ resolve[c] => ~closed[c] /\ queues[c] = <<>>
                        /\ reader[c] = "waiting" => resolve[c] \/ result[c] # None
  BY DEF Router!ConsumersAreServed, Kept
<1> DEFINE all  == [n \in 1 .. emitted[c] |-> n]
           kept == Kept(c)
<1>1. /\ kept \in Seq(Router!Values) /\ Len(kept) \in Nat /\ emitted[c] \in Nat
      /\ Fits(kept, emitted[c], interrupted[c]) /\ Settled(c)
      /\ DOMAIN kept = 1 .. Len(kept)
  BY KeptType DEF RouterInv
<1>2. all \in Seq(Nat) /\ DOMAIN all = 1 .. emitted[c] /\ Len(all) = emitted[c] /\ \A n \in 1 .. emitted[c] : all[n] = n
  BY <1>1
<1> HIDE DEF all, kept
<1>3. /\ SubSeq(kept, 1, Len(kept)) = kept
      /\ SubSeq(all, 1, Len(kept)) = kept
  BY <1>1, <1>2 DEF Fits
<1>4. Router!IsPrefix(kept, all)
  BY <1>1, <1>2, <1>3 DEF Fits, Router!IsPrefix
<1>5. ~interrupted[c] => kept = all
  BY <1>1, <1>2 DEF Fits
<1>6. QED
  BY <1>1, <1>4, <1>5 DEF Settled, all, kept

LEMMA RouterInit == Router!RouterConstants /\ Router!Init => RouterInv
<1> SUFFICES ASSUME Router!RouterConstants, Router!Init PROVE RouterInv
  OBVIOUS
<1>1. Router!TypeOK
  BY DEF Router!RouterConstants, Router!Init, Router!TypeOK
<1>2. \A c \in Consumers : Kept(c) = <<>> /\ emitted[c] = 0 /\ Settled(c)
  BY DEF Router!Init, Kept, Router!UnderWay, Settled
<1>3. QED
  BY <1>1, <1>2 DEF RouterInv, Fits

\* One more value for a consumer that is open.
LEMMA FitsMore ==
    ASSUME NEW S, NEW s \in Seq(S), NEW n \in Nat, Fits(s, n, FALSE)
    PROVE  Fits(Append(s, n + 1), n + 1, FALSE)
BY DEF Fits

\* A step keeps the types.
LEMMA RouterTypes ==
    ASSUME Router!RouterConstants, RouterInv, [Router!Next]_Router!vars
    PROVE  Router!TypeOK'
<1>0. Router!TypeOK /\ \A c \in Consumers : resolve[c] => result[c] = None
  BY DEF RouterInv, Settled
<1> USE DEF Router!TypeOK
<1>1. ASSUME NEW i \in Ids, Router!emit(i) PROVE Router!TypeOK'
  <2> DEFINE c == streams[i]
             v == emitted[c] + 1
  <2>1. c \in Consumers /\ v \in Router!Values /\ v \in 0..MaxEmits
    BY <1>0, <1>1 DEF Router!emit, Router!Values, Router!RouterConstants
  <2>2. /\ emitted' = [emitted EXCEPT ![c] = v] /\ UNCHANGED <<streams, reader, received>>
        /\ Router!Push(c, v)
    BY <1>1 DEF Router!emit
  <2> HIDE DEF c, v
  <2>3. CASE resolve[c]
    BY <1>0, <2>1, <2>2, <2>3 DEF Router!Push, Router!Resolved
  <2>4. CASE ~resolve[c]
    <3>1. Append(queues[c], v) \in Seq(Router!Values)
      BY <1>0, <2>1
    <3>2. CASE /\ queues' = [queues EXCEPT ![c] = Append(queues[c], v)]
               /\ UNCHANGED <<closed, interrupted, resolve, result>>
      BY <1>0, <2>1, <2>2, <3>1, <3>2
    <3>3. CASE /\ interrupted' = [interrupted EXCEPT ![c] = TRUE]
               /\ closed' = [closed EXCEPT ![c] = TRUE]
               /\ UNCHANGED <<queues, resolve, result>>
      BY <1>0, <2>1, <2>2, <3>3
    <3>4. QED
      BY <2>2, <2>4, <3>2, <3>3 DEF Router!Push, Router!Close, Router!flags
  <2>5. QED
    BY <2>3, <2>4
<1>2. ASSUME NEW i \in Ids, Router!close(i) \/ Router!interrupt(i) PROVE Router!TypeOK'
  <2>1. streams[i] \in Consumers
    BY <1>0, <1>2 DEF Router!close, Router!interrupt
  <2>2. QED
    BY <1>0, <1>2, <2>1 DEF Router!close, Router!interrupt, Router!Close
<1>3. ASSUME NEW c \in Consumers, Router!Ask(c) PROVE Router!TypeOK'
  <2>1. queues[c] \in Seq(Router!Values) /\ received[c] \in Seq(Router!Values)
    BY <1>0
  <2>2. CASE queues[c] # <<>>
    <3>1. Head(queues[c]) \in Router!Values /\ Tail(queues[c]) \in Seq(Router!Values)
      BY <2>1, <2>2
    <3>2. Append(received[c], Head(queues[c])) \in Seq(Router!Values)
      BY <2>1, <3>1
    <3>3. /\ received' = [received EXCEPT ![c] = Append(received[c], Head(queues[c]))]
          /\ queues' = [queues EXCEPT ![c] = Tail(queues[c])]
          /\ UNCHANGED <<reader, resolve, streams, closed, interrupted, result, emitted>>
      BY <1>3, <2>2 DEF Router!Ask
    <3>4. QED
      BY <1>0, <3>1, <3>2, <3>3
  <2>3. CASE queues[c] = <<>>
    BY <1>0, <1>3, <2>3 DEF Router!Ask
  <2>4. QED
    BY <2>2, <2>3
<1>4. ASSUME NEW c \in Consumers, Router!Wake(c) PROVE Router!TypeOK'
  <2>1. result[c] \in Router!Values \cup {Done} /\ received[c] \in Seq(Router!Values) /\ ~resolve[c]
    BY <1>0, <1>4 DEF Router!Wake
  <2>2. CASE result[c] = Done
    BY <1>0, <1>4, <2>1, <2>2 DEF Router!Wake
  <2>3. CASE result[c] # Done
    <3>1. Append(received[c], result[c]) \in Seq(Router!Values)
      BY <2>1, <2>3
    <3>2. /\ received' = [received EXCEPT ![c] = Append(received[c], result[c])]
          /\ reader' = [reader EXCEPT ![c] = "busy"] /\ result' = [result EXCEPT ![c] = None]
          /\ UNCHANGED <<streams, queues, closed, interrupted, resolve, emitted>>
      BY <1>4, <2>3 DEF Router!Wake
    <3>3. QED
      BY <1>0, <2>1, <3>1, <3>2
  <2>4. QED
    BY <2>2, <2>3
<1>5. ASSUME NEW c \in Consumers, Router!Leave(c) PROVE Router!TypeOK'
  BY <1>0, <1>5 DEF Router!Leave, Router!flags
<1>6. ASSUME NEW c \in Consumers, NEW i \in Ids, Router!createConsumer(c, i) PROVE Router!TypeOK'
  BY <1>0, <1>6 DEF Router!createConsumer, Router!flags
<1>7. CASE UNCHANGED Router!vars
  BY <1>0, <1>7 DEF Router!vars, Router!flags
<1>8. QED
  BY <1>1, <1>2, <1>3, <1>4, <1>5, <1>6, <1>7 DEF Router!Next

\* A step that leaves a consumer's values alone, or cuts it off.
LEMMA FitsStill ==
    ASSUME NEW kept, NEW n, NEW cut, NEW later, Fits(kept, n, cut), cut => later
    PROVE  Fits(kept, n, later)
BY DEF Fits

LEMMA FitsCut ==
    ASSUME NEW S, NEW kept \in Seq(S), NEW n \in Nat, NEW cut, Fits(kept, n, cut)
    PROVE  Fits(kept, n + 1, TRUE)
<1>1. Len(kept) \in Nat
  OBVIOUS
<1>2. QED
  BY <1>1 DEF Fits

\* Values move from stage to stage without changing their order.
LEMMA Stages ==
    ASSUME NEW S, NEW r \in Seq(S), NEW u \in Seq(S), NEW q \in Seq(S), NEW v \in S
    PROVE  /\ r \o u \o Append(q, v) = Append(r \o u \o q, v)
           /\ r \o <<v>> \o <<>> = Append(r \o <<>> \o <<>>, v)
           /\ Append(r, v) \o <<>> \o q = r \o <<v>> \o q
<1>1. r \o u \in Seq(S) /\ r \o <<v>> \in Seq(S)
  OBVIOUS
<1>2. r \o u \o Append(q, v) = Append(r \o u \o q, v)
  BY <1>1, AppendIsConcat, ConcatAssociative
<1>3. r \o <<v>> \o <<>> = r \o <<v>> /\ r \o <<>> \o <<>> = r
  BY <1>1, ConcatEmptySeq
<1>4. Append(r, v) = r \o <<v>> /\ r \o <<v>> \o <<>> = r \o <<v>>
  BY <1>1, AppendIsConcat, ConcatEmptySeq
<1>5. QED
  BY <1>2, <1>3, <1>4

LEMMA StageTaken ==
    ASSUME NEW S, NEW r \in Seq(S), NEW q \in Seq(S), q # <<>>
    PROVE  Append(r, Head(q)) \o <<>> \o Tail(q) = r \o <<>> \o q
<1>1. Head(q) \in S /\ Tail(q) \in Seq(S) /\ q = <<Head(q)>> \o Tail(q)
  OBVIOUS
<1>2. /\ Append(r, Head(q)) \o <<>> \o Tail(q) = r \o <<Head(q)>> \o Tail(q)
      /\ r \o <<>> = r
  BY <1>1, Stages, ConcatEmptySeq
<1>3. r \o <<Head(q)>> \o Tail(q) = r \o (<<Head(q)>> \o Tail(q))
  <2>1. <<Head(q)>> \in Seq(S)
    BY <1>1
  <2>2. QED
    BY <1>1, <2>1, ConcatAssociative
<1>4. QED
  BY <1>1, <1>2, <1>3

\* A value for a consumer that is open comes after the others, or cuts it off.
LEMMA EmitServes ==
    ASSUME Router!RouterConstants, RouterInv, NEW i \in Ids, Router!emit(i), NEW d \in Consumers
    PROVE  Fits(Kept(d), emitted[d], interrupted[d])' /\ Settled(d)'
<1>1. PICK c : c = streams[i]
  OBVIOUS
<1>2. PICK v : v = emitted[c] + 1
  OBVIOUS
<1>3. /\ c \in Consumers /\ ~closed[c] /\ Router!Push(c, v)
      /\ emitted' = [emitted EXCEPT ![c] = v] /\ UNCHANGED <<streams, reader, received>>
  BY <1>1, <1>2 DEF Router!emit, RouterInv, Router!TypeOK
<1>4. Router!TypeOK /\ Fits(Kept(d), emitted[d], interrupted[d]) /\ Settled(d)
  BY DEF RouterInv
<1>5. CASE d # c
  <2>1. /\ emitted'[d] = emitted[d] /\ queues'[d] = queues[d] /\ result'[d] = result[d]
        /\ closed'[d] = closed[d] /\ interrupted'[d] = interrupted[d] /\ resolve'[d] = resolve[d]
        /\ received'[d] = received[d] /\ reader'[d] = reader[d]
    BY <1>3, <1>4, <1>5 DEF Router!Push, Router!Close, Router!Resolved, Router!flags, Router!TypeOK
  <2>2. QED
    BY <1>4, <2>1 DEF Kept, Router!UnderWay, Settled
<1>6. CASE d = c
  <2>1. /\ v \in Router!Values /\ v \notin {None, Done} /\ emitted[d] \in Nat /\ v = emitted[d] + 1
        /\ emitted'[d] = v /\ received'[d] = received[d] /\ reader'[d] = reader[d]
    BY <1>1, <1>2, <1>3, <1>4, <1>6 DEF Router!emit, Router!Values, Router!TypeOK, Router!RouterConstants
  <2>2. ~interrupted[d] /\ ~closed[d]
    BY <1>3, <1>4, <1>6 DEF Settled
  <2>3. /\ received[d] \in Seq(Router!Values) /\ Router!UnderWay(d) \in Seq(Router!Values)
        /\ queues[d] \in Seq(Router!Values) /\ Kept(d) \in Seq(Router!Values)
    BY <1>4, KeptType
  <2>4. ASSUME Kept(d)' = Append(Kept(d), v), UNCHANGED interrupted
        PROVE  Fits(Kept(d), emitted[d], interrupted[d])'
    <3>1. Fits(Kept(d), emitted[d], FALSE)
      BY <1>4, <2>2 DEF Fits
    <3>2. Fits(Append(Kept(d), v), v, FALSE)
      BY <2>1, <2>3, <3>1, FitsMore
    <3>3. Fits(Append(Kept(d), v), v, interrupted[d])
      BY <3>2, FitsStill
    <3>4. QED
      BY <2>1, <2>4, <3>3
  <2>5. CASE resolve[d]
    <3>1. /\ resolve' = [resolve EXCEPT ![d] = FALSE] /\ result' = [result EXCEPT ![d] = v]
          /\ UNCHANGED <<queues, closed, interrupted>>
      BY <1>3, <1>6, <2>5 DEF Router!Push, Router!Resolved
    <3>2. result[d] = None /\ queues[d] = <<>> /\ resolve'[d] = FALSE /\ result'[d] = v
      BY <1>4, <2>5, <3>1 DEF Settled, Router!TypeOK
    <3>3. Router!UnderWay(d) = <<>> /\ Router!UnderWay(d)' = <<v>> /\ queues'[d] = <<>>
      BY <2>1, <3>1, <3>2 DEF Router!UnderWay
    <3>4. Kept(d) = received[d] \o <<>> \o <<>> /\ Kept(d)' = received[d] \o <<v>> \o <<>>
      BY <2>1, <3>2, <3>3 DEF Kept
    <3>5. Kept(d)' = Append(Kept(d), v)
      BY <2>1, <2>3, <3>4, Stages
    <3>6. Settled(d)'
      BY <1>4, <2>1, <2>2, <3>1, <3>2 DEF Settled
    <3>7. QED
      BY <2>4, <3>1, <3>5, <3>6
  <2>6. CASE ~resolve[d] /\ queues' = [queues EXCEPT ![d] = Append(queues[d], v)]
             /\ UNCHANGED <<closed, interrupted, resolve, result>>
    <3>1. queues'[d] = Append(queues[d], v) /\ Router!UnderWay(d)' = Router!UnderWay(d)
      BY <1>4, <2>6 DEF Router!TypeOK, Router!UnderWay
    <3>2. Kept(d)' = received[d] \o Router!UnderWay(d) \o Append(queues[d], v)
      BY <2>1, <3>1 DEF Kept
    <3>3. received[d] \o Router!UnderWay(d) \o Append(queues[d], v)
              = Append(received[d] \o Router!UnderWay(d) \o queues[d], v)
      <4> DEFINE S == Router!Values
                 r == received[d]
                 u == Router!UnderWay(d)
                 q == queues[d]
      <4>1. r \in Seq(S) /\ u \in Seq(S) /\ q \in Seq(S) /\ v \in S
        BY <2>1, <2>3
      <4> HIDE DEF S, r, u, q
      <4>2. r \o u \o Append(q, v) = Append(r \o u \o q, v)
        BY <4>1, Stages
      <4>3. QED
        BY <4>2 DEF r, u, q
    <3>4. Kept(d)' = Append(Kept(d), v)
      BY <3>2, <3>3 DEF Kept
    <3>5. Settled(d)'
      BY <1>4, <2>1, <2>6 DEF Settled
    <3>6. QED
      BY <2>4, <2>6, <3>4, <3>5
  <2>7. CASE ~resolve[d] /\ interrupted' = [interrupted EXCEPT ![d] = TRUE]
             /\ closed' = [closed EXCEPT ![d] = TRUE] /\ UNCHANGED <<queues, resolve, result>>
    <3>1. interrupted'[d] = TRUE /\ closed'[d] = TRUE
      BY <1>4, <2>7 DEF Router!TypeOK
    <3>2. Kept(d)' = Kept(d)
      BY <2>1, <2>7 DEF Kept, Router!UnderWay
    <3>3. Fits(Kept(d), v, TRUE)
      BY <1>4, <2>1, <2>3, FitsCut
    <3>4. Settled(d)'
      BY <1>4, <2>1, <2>7, <3>1 DEF Settled
    <3>5. QED
      BY <2>1, <3>1, <3>2, <3>3, <3>4
  <2>8. QED
    BY <1>3, <1>6, <2>5, <2>6, <2>7 DEF Router!Push, Router!Close, Router!flags
<1>7. QED
  BY <1>5, <1>6

\* A close ends the promise of a consumer that waits, and takes nothing from it.
LEMMA CloseServes ==
    ASSUME Router!RouterConstants, RouterInv, NEW i \in Ids, Router!close(i) \/ Router!interrupt(i),
           NEW d \in Consumers
    PROVE  Fits(Kept(d), emitted[d], interrupted[d])' /\ Settled(d)'
<1>1. PICK c : c = streams[i]
  OBVIOUS
<1>2. /\ c \in Consumers /\ Router!Close(c) /\ UNCHANGED <<queues, reader, emitted, received>>
      /\ interrupted' = interrupted \/ interrupted' = [interrupted EXCEPT ![c] = TRUE]
  BY <1>1 DEF Router!close, Router!interrupt, RouterInv, Router!TypeOK
<1>3. Router!TypeOK /\ Fits(Kept(d), emitted[d], interrupted[d]) /\ Settled(d)
  BY DEF RouterInv
<1>4. Router!UnderWay(d)' = Router!UnderWay(d)
  BY <1>2, <1>3 DEF Router!Close, Router!UnderWay, Settled, Router!TypeOK
<1>5. Kept(d)' = Kept(d)
  BY <1>2, <1>4 DEF Kept
<1>6. interrupted[d] => interrupted'[d]
  BY <1>2, <1>3 DEF Router!TypeOK
<1>7. Fits(Kept(d), emitted[d], interrupted'[d])
  BY <1>3, <1>6, FitsStill
<1>8. Settled(d)'
  BY <1>2, <1>3 DEF Settled, Router!Close, Router!TypeOK, Router!RouterConstants
<1>9. QED
  BY <1>2, <1>5, <1>7, <1>8

\* A consumer is given what comes first.
LEMMA ReaderServes ==
    ASSUME Router!RouterConstants, RouterInv, NEW c \in Consumers, Router!Ask(c) \/ Router!Wake(c),
           NEW d \in Consumers
    PROVE  Fits(Kept(d), emitted[d], interrupted[d])' /\ Settled(d)'
<1>1. Router!TypeOK /\ Fits(Kept(d), emitted[d], interrupted[d]) /\ Settled(d)
      /\ UNCHANGED <<closed, interrupted, emitted>>
  BY DEF RouterInv, Router!Ask, Router!Wake
<1>2. CASE d # c
  <2>1. /\ queues'[d] = queues[d] /\ result'[d] = result[d] /\ resolve'[d] = resolve[d]
        /\ received'[d] = received[d] /\ reader'[d] = reader[d]
    BY <1>1, <1>2 DEF Router!Ask, Router!Wake, Router!TypeOK
  <2>2. QED
    BY <1>1, <2>1 DEF Kept, Router!UnderWay, Settled
<1>3. CASE d = c
  <2>1. /\ received[d] \in Seq(Router!Values) /\ Router!UnderWay(d) \in Seq(Router!Values)
        /\ queues[d] \in Seq(Router!Values)
    BY <1>1, KeptType
  <2>2. SUFFICES Kept(d)' = Kept(d) /\ Settled(d)'
    BY <1>1
  <2>3. CASE Router!Ask(d)
    <3>1. result[d] = None /\ Router!UnderWay(d) = <<>> /\ Router!UnderWay(d)' = <<>>
      BY <1>1, <2>3 DEF Router!Ask, Router!UnderWay, Router!TypeOK
    <3>2. CASE queues[d] # <<>>
      <4>1. /\ received'[d] = Append(received[d], Head(queues[d])) /\ queues'[d] = Tail(queues[d])
            /\ UNCHANGED <<reader, resolve, result>>
        BY <1>1, <2>3, <3>2 DEF Router!Ask, Router!TypeOK
      <4>2. Kept(d)' = Append(received[d], Head(queues[d])) \o <<>> \o Tail(queues[d])
        BY <3>1, <4>1 DEF Kept
      <4>3. Kept(d)' = Kept(d)
        BY <2>1, <3>1, <3>2, <4>2, StageTaken DEF Kept
      <4>4. Settled(d)'
        BY <1>1, <2>3, <3>2, <4>1 DEF Settled
      <4>5. QED
        BY <4>3, <4>4
    <3>3. CASE queues[d] = <<>>
      <4>1. UNCHANGED <<received, queues, result>>
        BY <2>3, <3>3 DEF Router!Ask
      <4>2. Kept(d)' = Kept(d)
        BY <3>1, <4>1 DEF Kept
      <4>3. Settled(d)'
        BY <1>1, <2>3, <3>1, <3>3, <4>1 DEF Settled, Router!Ask, Router!TypeOK
      <4>4. QED
        BY <4>2, <4>3
    <3>4. QED
      BY <3>2, <3>3
  <2>4. CASE Router!Wake(d)
    <3>1. /\ result[d] # None /\ result'[d] = None /\ UNCHANGED <<queues, resolve>>
          /\ Router!UnderWay(d)' = <<>> /\ reader'[d] # "waiting" /\ ~resolve[d]
      BY <1>1, <2>4 DEF Router!Wake, Router!UnderWay, Router!TypeOK, Settled
    <3>2. CASE result[d] = Done
      <4>1. received'[d] = received[d] /\ Router!UnderWay(d) = <<>>
        BY <1>1, <2>4, <3>2 DEF Router!Wake, Router!UnderWay
      <4>2. Kept(d)' = Kept(d)
        BY <3>1, <4>1 DEF Kept
      <4>3. QED
        BY <1>1, <3>1, <4>2 DEF Settled
    <3>3. CASE result[d] # Done
      <4>1. /\ received'[d] = Append(received[d], result[d]) /\ Router!UnderWay(d) = <<result[d]>>
            /\ result[d] \in Router!Values
        BY <1>1, <2>4, <3>1, <3>3 DEF Router!Wake, Router!UnderWay, Router!TypeOK
      <4>2. Kept(d)' = Append(received[d], result[d]) \o <<>> \o queues[d]
        BY <3>1, <4>1 DEF Kept
      <4>3. Append(received[d], result[d]) \o <<>> \o queues[d] = received[d] \o <<result[d]>> \o queues[d]
        <5> DEFINE S == Router!Values
                   r == received[d]
                   q == queues[d]
                   v == result[d]
        <5>1. r \in Seq(S) /\ q \in Seq(S) /\ v \in S
          BY <2>1, <4>1
        <5> HIDE DEF S, r, q, v
        <5>2. Append(r, v) \o <<>> \o q = r \o <<v>> \o q
          BY <5>1, Stages
        <5>3. QED
          BY <5>2 DEF r, q, v
      <4>4. Kept(d)' = Kept(d)
        BY <4>1, <4>2, <4>3 DEF Kept
      <4>5. QED
        BY <1>1, <3>1, <4>4 DEF Settled
    <3>4. QED
      BY <3>2, <3>3
  <2>5. QED
    BY <1>3, <2>3, <2>4
<1>4. QED
  BY <1>2, <1>3

LEMMA RouterStep == Router!RouterConstants /\ RouterInv /\ [Router!Next]_Router!vars => RouterInv'
<1> SUFFICES ASSUME Router!RouterConstants, RouterInv, [Router!Next]_Router!vars,
                    NEW d \in Consumers
             PROVE  Fits(Kept(d), emitted[d], interrupted[d])' /\ Settled(d)'
  BY RouterTypes DEF RouterInv
<1>1. ASSUME NEW i \in Ids, Router!emit(i) \/ Router!close(i) \/ Router!interrupt(i)
      PROVE  Fits(Kept(d), emitted[d], interrupted[d])' /\ Settled(d)'
  BY <1>1, EmitServes, CloseServes
<1>2. ASSUME NEW c \in Consumers, Router!Ask(c) \/ Router!Wake(c)
      PROVE  Fits(Kept(d), emitted[d], interrupted[d])' /\ Settled(d)'
  BY <1>2, ReaderServes
<1>3. Router!TypeOK /\ Fits(Kept(d), emitted[d], interrupted[d]) /\ Settled(d)
  BY DEF RouterInv
<1>4. ASSUME NEW c \in Consumers, Router!Leave(c) \/ \E i \in Ids : Router!createConsumer(c, i)
      PROVE  Fits(Kept(d), emitted[d], interrupted[d])' /\ Settled(d)'
  <2>1. /\ UNCHANGED <<queues, closed, interrupted, resolve, result, emitted, received>>
        /\ reader' = [reader EXCEPT ![c] = "left"] \/ reader' = [reader EXCEPT ![c] = "busy"]
    BY <1>4 DEF Router!Leave, Router!createConsumer, Router!flags
  <2>2. QED
    BY <1>3, <2>1 DEF Kept, Router!UnderWay, Settled, Router!TypeOK
<1>5. CASE UNCHANGED Router!vars
  BY <1>3, <1>5 DEF Router!vars, Router!flags, Kept, Router!UnderWay, Settled
<1>6. QED
  BY <1>1, <1>2, <1>4, <1>5 DEF Router!Next

\* Each consumer is given what was emitted to it, in order and all of it unless it was
\* cut off, and nobody waits on a closed stream or with values queued, for any number of
\* consumers, identifiers and values and any depth of the queues.
THEOREM ConsumersAreServedHolds == Router!Spec => []ConsumersAreServed
<1>1. Router!Init => RouterInv
  BY RouterInit, RouterAssumption
<1>2. RouterInv /\ [Router!Next]_Router!vars => RouterInv'
  BY RouterStep, RouterAssumption
<1>3. RouterInv => ConsumersAreServed
  BY InvServes, RouterAssumption DEF ConsumersAreServed
<1>4. QED
  BY <1>1, <1>2, <1>3, PTL DEF Router!Spec

(***************************************************************************)
(* Scheduler and game loop                                                 *)
(***************************************************************************)

\* The tasks that the other frames await.
Others(f) == Frame!Executing \ {frame[f]}

\* A task is in one place at a time, and executes in one frame; it is aborted only
\* after it has left the queue, where it never comes back.
PlacesApart ==
    /\ frame \in [Frames -> Tasks \cup {None}]
    /\ fresh \subseteq Tasks /\ queue \subseteq Tasks
    /\ fresh \cap queue = {}
    /\ (fresh \cup queue) \cap (Frame!Executing \cup aborted) = {}
    /\ \A f, g \in Frames : frame[f] = frame[g] /\ frame[f] # None => f = g

\* Tasks of one id that execute together have been noted.
ReuseNoted ==
    \A t, u \in Frame!Executing : t # u /\ Id[t] = Id[u] => Id[t] \in reused

FrameInv == PlacesApart /\ ReuseNoted /\ Frame!RunningIsExecuting

LEMMA FrameInit == Frame!FrameConstants /\ Frame!Init => FrameInv
<1> SUFFICES ASSUME Frame!FrameConstants, Frame!Init PROVE FrameInv
  OBVIOUS
<1>1. Frame!Executing = {} /\ DOMAIN running = {}
  BY DEF Frame!Init, Frame!Executing
<1>2. QED
  BY <1>1 DEF FrameInv, PlacesApart, ReuseNoted, Frame!RunningIsExecuting, Frame!Init

\* The entries run are those of the tasks that other frames await.
Matches(f, run) ==
    /\ \A i \in DOMAIN run : Id[run[i]] = i /\ run[i] \in Others(f) \ aborted
    /\ \A t \in Others(f) \ aborted : Id[t] \in reused \/ \E i \in DOMAIN run : run[i] = t

\* What executes when a frame goes over to another task, or ends.
LEMMA ExecutingAfter ==
    ASSUME PlacesApart, NEW f \in Frames, NEW t, frame' = [frame EXCEPT ![f] = t]
    PROVE  Frame!Executing' = (Others(f) \cup {t}) \ {None}
<1>1. ASSUME NEW u \in Others(f) PROVE u \in Frame!Executing'
  <2>1. PICK g \in Frames : u = frame[g] /\ g # f /\ u # None
    BY <1>1 DEF Others, Frame!Executing
  <2>2. frame'[g] = u
    BY <2>1 DEF PlacesApart
  <2>3. QED
    BY <2>1, <2>2 DEF Frame!Executing
<1>2. t # None => t \in Frame!Executing'
  BY DEF PlacesApart, Frame!Executing
<1>3. ASSUME NEW u \in Frame!Executing' PROVE u \in (Others(f) \cup {t}) \ {None}
  <2>1. PICK g \in Frames : u = frame'[g] /\ u # None
    BY <1>3 DEF Frame!Executing
  <2>2. g # f => frame[g] = u /\ frame[g] # frame[f]
    BY <2>1 DEF PlacesApart
  <2>3. g = f => u = t
    BY <2>1 DEF PlacesApart
  <2>4. QED
    BY <2>1, <2>2, <2>3 DEF Others, Frame!Executing
<1>4. Others(f) \cap {None} = {}
  BY DEF Others, Frame!Executing
<1>5. QED
  BY <1>1, <1>2, <1>3, <1>4

\* A frame goes over to the next task, or ends.
LEMMA FrameGoesOn ==
    ASSUME Frame!FrameConstants, FrameInv, NEW f \in Frames, NEW run, Matches(f, run),
           UNCHANGED <<fresh, aborted>>,
           Frame!StartTask(f, run) \/ Frame!EndFrame(f, run)
    PROVE  FrameInv'
<1> USE DEF FrameInv
<1>0. None \notin Tasks
  BY DEF Frame!FrameConstants
<1>1. CASE Frame!EndFrame(f, run)
  <2>1. /\ running' = run /\ frame' = [frame EXCEPT ![f] = None]
        /\ UNCHANGED <<queue, reused>>
    BY <1>1 DEF Frame!EndFrame
  <2>2. Frame!Executing' = Others(f)
    BY <2>1, ExecutingAfter DEF Others, Frame!Executing
  <2>3. PlacesApart'
    BY <2>1, <2>2 DEF PlacesApart, Others
  <2>4. ReuseNoted'
    BY <2>1, <2>2 DEF ReuseNoted, Others
  <2>5. Frame!RunningIsExecuting'
    BY <2>1, <2>2 DEF Matches, Frame!RunningIsExecuting, Frame!Range
  <2>6. QED
    BY <2>3, <2>4, <2>5
<1>2. CASE Frame!StartTask(f, run)
  <2>1. PICK t \in queue :
            /\ queue' = queue \ {t}
            /\ running' = [i \in DOMAIN run \cup {Id[t]} |-> IF i = Id[t] THEN t ELSE run[i]]
            /\ frame' = [frame EXCEPT ![f] = t]
            /\ reused' = reused \cup (IF Id[t] \in {Id[u] : u \in Others(f)} THEN {Id[t]} ELSE {})
    BY <1>2 DEF Frame!StartTask, Frame!FirstOf, Frame!Left, Others
  <2>2. t \in Tasks /\ t # None /\ t \notin Frame!Executing /\ t \notin aborted
    BY <1>0 DEF PlacesApart
  <2>3. Frame!Executing' = Others(f) \cup {t}
    <3>1. PlacesApart
      OBVIOUS
    <3>2. Frame!Executing' = (Others(f) \cup {t}) \ {None}
      BY <2>1, <3>1, ExecutingAfter
    <3>3. None \notin Others(f)
      BY DEF Others, Frame!Executing
    <3>4. QED
      BY <2>2, <3>2, <3>3
  <2>4. PlacesApart'
    <3>1. frame' \in [Frames -> Tasks \cup {None}]
      BY <2>1, <2>2 DEF PlacesApart
    <3>2. ASSUME NEW g \in Frames, NEW h \in Frames, frame'[g] = frame'[h], frame'[g] # None
          PROVE  g = h
      <4>1. \A k \in Frames : k # f => frame'[k] = frame[k] /\ frame[k] # t
        BY <2>1, <2>2 DEF PlacesApart, Frame!Executing
      <4>2. frame'[f] = t
        BY <2>1 DEF PlacesApart
      <4>3. QED
        BY <3>2, <4>1, <4>2 DEF PlacesApart
    <3>3. QED
      BY <2>1, <2>2, <2>3, <3>1, <3>2 DEF PlacesApart, Others
  <2>5. ReuseNoted'
    BY <2>1, <2>2, <2>3 DEF ReuseNoted, Others
  <2>6. Frame!RunningIsExecuting'
    <3>1. ASSUME NEW i \in DOMAIN running'
          PROVE  Id[running'[i]] = i /\ running'[i] \in (Frame!Executing \ aborted)'
      BY <2>1, <2>2, <2>3 DEF Matches
    <3>2. ASSUME NEW u \in (Frame!Executing \ aborted)'
          PROVE  Id[u] \in reused' \/ \E i \in DOMAIN running' : running'[i] = u
      <4>1. CASE u = t
        BY <2>1, <4>1
      <4>2. CASE u # t
        <5>1. u \in Others(f) \ aborted
          BY <2>3, <4>2
        <5>2. Id[u] \in reused \/ \E i \in DOMAIN run : run[i] = u /\ Id[u] = i
          BY <5>1 DEF Matches
        <5>3. Id[u] = Id[t] => Id[t] \in reused'
          BY <2>1, <5>1
        <5>4. QED
          BY <2>1, <5>2, <5>3
      <4>3. QED
        BY <4>1, <4>2
    <3>3. QED
      BY <3>1, <3>2 DEF Frame!RunningIsExecuting, Frame!Range
  <2>7. QED
    BY <2>4, <2>5, <2>6
<1>3. QED
  BY <1>1, <1>2

\* The entries match what the other frames await, of a frame that awaits nothing.
LEMMA MatchesIdle ==
    ASSUME FrameInv, NEW f \in Frames, frame[f] = None
    PROVE  Matches(f, running)
<1>1. Others(f) = Frame!Executing
  BY DEF Others, Frame!Executing
<1>2. QED
  BY <1>1 DEF FrameInv, Matches, Frame!RunningIsExecuting, Frame!Range

\* And once the entry of the awaited task has gone: an entry of another task that goes
\* with it has the id of both, which has been noted.
LEMMA MatchesSettled ==
    ASSUME FrameInv, NEW f \in Frames, frame[f] # None
    PROVE  Matches(f, Frame!EntryGone(f))
<1> DEFINE i0 == Id[frame[f]]
<1>1. /\ DOMAIN Frame!EntryGone(f) = DOMAIN running \ {i0}
      /\ \A i \in DOMAIN running \ {i0} : Frame!EntryGone(f)[i] = running[i]
  BY DEF Frame!EntryGone, Frame!Without
<1>2. frame[f] \in Frame!Executing
  BY DEF Frame!Executing
<1>3. ASSUME NEW i \in DOMAIN running \ {i0}
      PROVE  Id[running[i]] = i /\ running[i] \in Others(f) \ aborted
  BY <1>3 DEF FrameInv, Frame!RunningIsExecuting, Others
<1>4. ASSUME NEW t \in Others(f) \ aborted
      PROVE  Id[t] \in reused \/ \E i \in DOMAIN running \ {i0} : running[i] = t
  <2>1. t \in Frame!Executing \ aborted /\ t # frame[f]
    BY <1>4 DEF Others
  <2>2. CASE Id[t] = i0
    BY <1>2, <2>1, <2>2 DEF FrameInv, ReuseNoted
  <2>3. CASE Id[t] # i0
    <3>1. Id[t] \in reused \/ \E i \in DOMAIN running : running[i] = t /\ Id[running[i]] = i
      BY <2>1 DEF FrameInv, Frame!RunningIsExecuting, Frame!Range
    <3>2. QED
      BY <2>3, <3>1
  <2>4. QED
    BY <2>2, <2>3
<1>5. QED
  BY <1>1, <1>3, <1>4 DEF Matches

\* A task is queued.
LEMMA EnqueueKeeps ==
    ASSUME FrameInv, NEW t \in Tasks, Frame!enqueue(t)
    PROVE  FrameInv'
<1>1. /\ t \in fresh /\ fresh' = fresh \ {t} /\ queue' = queue \cup {t}
      /\ UNCHANGED <<running, aborted, frame, reused>>
  BY DEF Frame!enqueue
<1>2. Frame!Executing' = Frame!Executing
  BY <1>1 DEF Frame!Executing
<1>3. QED
  BY <1>1, <1>2 DEF FrameInv, PlacesApart, ReuseNoted, Frame!RunningIsExecuting

\* Tasks leave the queue, and others that run are aborted and lose their entries.
LEMMA AbortKeeps ==
    ASSUME FrameInv, NEW gone,
           fresh' = fresh, queue' \subseteq queue, frame' = frame, reused' = reused,
           aborted' = aborted \cup {running[i] : i \in DOMAIN running \cap gone},
           running' = [i \in DOMAIN running \ gone |-> running[i]]
    PROVE  FrameInv'
<1>1. Frame!Executing' = Frame!Executing
  BY DEF Frame!Executing
<1>2. \A i \in DOMAIN running : Id[running[i]] = i /\ running[i] \in Frame!Executing \ aborted
  BY DEF FrameInv, Frame!RunningIsExecuting
<1>3. PlacesApart'
  BY <1>1, <1>2 DEF FrameInv, PlacesApart
<1>4. ReuseNoted'
  BY <1>1 DEF FrameInv, ReuseNoted
<1>5. ASSUME NEW i \in DOMAIN running'
      PROVE  Id[running'[i]] = i /\ running'[i] \in (Frame!Executing \ aborted)'
  BY <1>1, <1>2, <1>5
<1>6. ASSUME NEW t \in (Frame!Executing \ aborted)'
      PROVE  Id[t] \in reused' \/ \E i \in DOMAIN running' : running'[i] = t
  <2>1. t \in Frame!Executing \ aborted
    BY <1>1, <1>6
  <2>2. Id[t] \in reused \/ \E i \in DOMAIN running : running[i] = t
    BY <2>1 DEF FrameInv, Frame!RunningIsExecuting, Frame!Range
  <2>3. ASSUME NEW i \in DOMAIN running, running[i] = t PROVE i \notin gone
    BY <1>6, <2>3
  <2>4. QED
    BY <2>2, <2>3
<1>7. QED
  BY <1>3, <1>4, <1>5, <1>6 DEF FrameInv, Frame!RunningIsExecuting, Frame!Range

\* The scheduler's state stays.
LEMMA SchedulerKeeps ==
    ASSUME FrameInv, UNCHANGED Frame!scheduler
    PROVE  FrameInv'
<1>1. UNCHANGED <<fresh, queue, running, aborted, frame, reused>>
  BY DEF Frame!scheduler
<1>2. Frame!Executing' = Frame!Executing
  BY <1>1 DEF Frame!Executing
<1>3. QED
  BY <1>1, <1>2 DEF FrameInv, PlacesApart, ReuseNoted, Frame!RunningIsExecuting

\* A frame begins.
LEMMA FrameBegins ==
    ASSUME Frame!FrameConstants, FrameInv, NEW f \in Frames, Frame!runFrame(f)
    PROVE  FrameInv'
<1>1. /\ frame[f] = None /\ Frame!StartTask(f, running) /\ UNCHANGED <<fresh, aborted>>
  BY DEF Frame!runFrame
<1>2. Matches(f, running)
  BY <1>1, MatchesIdle
<1>3. QED
  BY <1>1, <1>2, FrameGoesOn

\* Every step keeps the invariant.
LEMMA FrameStep ==
    ASSUME Frame!FrameConstants, FrameInv, [Frame!Next]_(Frame!vars)
    PROVE  FrameInv'
<1>1. ASSUME NEW t \in Tasks, Frame!enqueue(t) PROVE FrameInv'
  BY <1>1, EnqueueKeeps
<1>2. ASSUME NEW i \in Frame!TaskIds, Frame!DequeueQueued(i) PROVE FrameInv'
  <2>1. /\ queue' \subseteq queue /\ UNCHANGED <<fresh, running, aborted, frame, reused>>
    BY <1>2 DEF Frame!DequeueQueued, Frame!Left
  <2>2. Frame!Executing' = Frame!Executing
    BY <2>1 DEF Frame!Executing
  <2>3. QED
    BY <2>1, <2>2 DEF FrameInv, PlacesApart, ReuseNoted, Frame!RunningIsExecuting
<1>3. ASSUME NEW i \in Frame!TaskIds, Frame!DequeueRunning(i) PROVE FrameInv'
  <2>1. PICK gone : gone = {i}
    OBVIOUS
  <2>2. /\ fresh' = fresh /\ queue' \subseteq queue /\ frame' = frame /\ reused' = reused
        /\ aborted' = aborted \cup {running[j] : j \in DOMAIN running \cap gone}
        /\ running' = [j \in DOMAIN running \ gone |-> running[j]]
    BY <1>3, <2>1 DEF Frame!DequeueRunning, Frame!Without
  <2>3. QED
    BY <2>2, AbortKeeps
<1>4. ASSUME NEW m, Frame!preemptModel(m) PROVE FrameInv'
  <2>1. PICK gone : gone = {i \in DOMAIN running : ModelOf[running[i]] = m}
    OBVIOUS
  <2>2. /\ fresh' = fresh /\ queue' \subseteq queue /\ frame' = frame /\ reused' = reused
        /\ aborted' = aborted \cup {running[j] : j \in DOMAIN running \cap gone}
        /\ running' = [j \in DOMAIN running \ gone |-> running[j]]
    BY <1>4, <2>1 DEF Frame!preemptModel, Frame!Without, Frame!Left
  <2>3. QED
    BY <2>2, AbortKeeps
<1>5. ASSUME Frame!clear PROVE FrameInv'
  <2>1. PICK gone : gone = DOMAIN running
    OBVIOUS
  <2>2. /\ fresh' = fresh /\ queue' \subseteq queue /\ frame' = frame /\ reused' = reused
        /\ aborted' = aborted \cup {running[j] : j \in DOMAIN running \cap gone}
        /\ running' = [j \in DOMAIN running \ gone |-> running[j]]
    BY <1>5, <2>1 DEF Frame!clear, Frame!Left, Frame!Range
  <2>3. QED
    BY <2>2, AbortKeeps
<1>6. ASSUME NEW f \in Frames, Frame!runFrame(f) PROVE FrameInv'
  BY <1>6, FrameBegins
<1>7. ASSUME NEW f \in Frames, Frame!TaskSettles(f) PROVE FrameInv'
  <2>1. PICK run : run = Frame!EntryGone(f)
    OBVIOUS
  <2>2. /\ frame[f] # None /\ UNCHANGED <<fresh, aborted>>
        /\ Frame!StartTask(f, run) \/ Frame!EndFrame(f, run)
    BY <1>7, <2>1 DEF Frame!TaskSettles
  <2>3. Matches(f, run)
    BY <2>1, <2>2, MatchesSettled
  <2>4. QED
    BY <2>2, <2>3, FrameGoesOn
<1>8. ASSUME Frame!start \/ Frame!stop \/ Frame!pause \/ Frame!resume PROVE FrameInv'
  <2>1. UNCHANGED Frame!scheduler
    BY <1>8 DEF Frame!start, Frame!stop, Frame!pause, Frame!resume
  <2>2. QED
    BY <2>1, SchedulerKeeps
<1>9. ASSUME NEW t \in Timers, Frame!tick(t) PROVE FrameInv'
  <2>1. (\E f \in Frames : Frame!runFrame(f)) \/ UNCHANGED Frame!scheduler
    BY <1>9 DEF Frame!tick
  <2>2. QED
    BY <1>6, <2>1, SchedulerKeeps
<1>10. ASSUME UNCHANGED Frame!vars PROVE FrameInv'
  <2>1. UNCHANGED Frame!scheduler
    BY <1>10 DEF Frame!vars, Frame!scheduler
  <2>2. QED
    BY <2>1, SchedulerKeeps
<1>11. QED
  BY <1>1, <1>2, <1>3, <1>4, <1>5, <1>6, <1>7, <1>8, <1>9, <1>10 DEF Frame!Next, Frame!RunFrame

\* The entries of the scheduler are the tasks that execute and have not been aborted,
\* unless an id was started again while a task of that id still executed.
THEOREM RunningIsExecutingHolds == Frame!Spec => []RunningIsExecuting
<1>1. Frame!Init => FrameInv
  BY FrameInit, FrameAssumption
<1>2. FrameInv /\ [Frame!Next]_(Frame!vars) => FrameInv'
  BY FrameStep, FrameAssumption
<1>3. FrameInv => RunningIsExecuting
  BY DEF FrameInv, RunningIsExecuting
<1>4. QED
  BY <1>1, <1>2, <1>3, PTL DEF Frame!Spec

(***************************************************************************)
(* The chat page                                                           *)
(*                                                                         *)
(* PageTypes, and three invariants about those who wait.  OwnerInv: a      *)
(* request or a write that is waited for finds the one who waits, who      *)
(* waits for no other.  TurnInv: the messages of a conversation that is    *)
(* not odd alternate, and end with a question exactly while one turn is in *)
(* it.  ClearInv: behind the disposal of the page's conversation nothing   *)
(* else is exported, so that after it every export that is under way finds *)
(* its conversation gone.                                                  *)
(***************************************************************************)

PageRoles == {"user", "assistant"}
LoadState == [phase  : {"none", "init", "loading", "ready", "failed"},
              engine : Page!Engines]
SendState == [phase : {"idle", "creating", "turn", "exporting", "putting"},
              conv : Nat \cup {Nothing}, engine : Page!Engines,
              got : BOOLEAN, mixed : BOOLEAN, stop : BOOLEAN]
Slot      == [messages : Seq(PageRoles), odd : BOOLEAN]
ResumeState == [phase : {"none", "loading", "asked"}, load : Page!Engines,
                meta : Slot \cup {Nothing}]
PageRequest == [kind   : {"create", "start", "export", "dispose", "import"},
                by     : Sends \cup Clears \cup {Nothing},
                conv   : Nat \cup {Nothing},
                handle : Page!Engines]
PageConv  == [engine : Page!Engines, gone : BOOLEAN, messages : Seq(PageRoles), odd : BOOLEAN]
PageWrite == [blob : {Page!Saved, Nothing}, by : Sends \cup {Nothing}]

PageTypes ==
    /\ pageEngine \in Page!Engines /\ loaded \in Page!Engines
    /\ conv \in (1..Len(convs)) \cup {Nothing}
    /\ card \in Slot \cup {Nothing}
    /\ load \in [Loads -> LoadState]
    /\ send \in [Sends -> SendState]
    /\ resume \in ResumeState
    /\ up \subseteq Loads
    /\ requests \in [Page!Engines -> Seq(PageRequest)]
    /\ convs \in Seq(PageConv)
    /\ meta \in Slot \cup {Nothing}
    /\ blob \in {Page!Saved, Nothing}
    /\ writes \in Seq(PageWrite)
    /\ pageCleared \in BOOLEAN

\* A conversation is there for whoever is in a turn of it.
TurnsThere == \A s \in Sends : send[s].phase = "turn" => send[s].conv \in 1..Len(convs)

\* What is offered is taken once.
CardTaken ==
    resume.phase # "none" => /\ card = Nothing
                             /\ resume.meta \in Slot
                             /\ resume.load \in Loads

(* What the requests and the writes under way know of those who wait.      *)

\* These are waited for.
Asks(r) == r.kind \in {"create", "export", "import"}

Waits(q, e, i, s) ==
    /\ i \in DOMAIN q[e]
    /\ q[e][i].by = s
    /\ Asks(q[e][i])

NoneWaits(q, waiting) == \A f \in Page!Engines, i \in Nat, x \in waiting : ~Waits(q, f, i, x)

OnlyAt(q, e, waiting) ==
    \A f \in Page!Engines, i \in Nat, x \in waiting : Waits(q, f, i, x) => f = e /\ i = 1

RequestRight(r, sends, resuming, n) ==
    /\ r.kind = "create" /\ r.by \in Sends => sends[r.by].phase = "creating"
    /\ r.kind = "export" => r.by \in Sends /\ sends[r.by].phase = "exporting"
    /\ r.kind \in {"create", "import"} /\ r.by \notin Sends
         => r.by = Nothing /\ resuming.phase = "asked"
    /\ r.kind = "import" => r.by = Nothing
    /\ r.kind \in {"create", "import"} \/ r.conv \in 1..n

\* A request is right about the one who waits for it, who waits for no other.
QueuesRight(q, sends, resuming, n) ==
    /\ \A e \in Page!Engines : \A i \in DOMAIN q[e] : RequestRight(q[e][i], sends, resuming, n)
    /\ \A e, f \in Page!Engines, i, j \in Nat, s \in Sends \cup {Nothing} :
           Waits(q, e, i, s) /\ Waits(q, f, j, s) => e = f /\ i = j

WritesRight(w, sends) ==
    /\ \A i \in 1..Len(w) : w[i].by # Nothing => sends[w[i].by].phase = "putting"
    /\ \A i, j \in 1..Len(w) : w[i].by # Nothing /\ w[i].by = w[j].by => i = j

OwnerInv ==
    /\ TurnsThere /\ CardTaken
    /\ QueuesRight(requests, send, resume, Len(convs))
    /\ WritesRight(writes, send)

\* A request at the end of a queue.
LEMMA Posted ==
    ASSUME NEW q \in [Page!Engines -> Seq(PageRequest)], NEW e \in Page!Engines,
           NEW r \in PageRequest, NEW p, p = [q EXCEPT ![e] = Append(@, r)]
    PROVE  /\ p \in [Page!Engines -> Seq(PageRequest)]
           /\ Len(q[e]) \in Nat /\ Len(p[e]) = Len(q[e]) + 1 /\ p[e][Len(q[e]) + 1] = r
           /\ \A f \in Page!Engines : DOMAIN q[f] \subseteq DOMAIN p[f]
           /\ \A f \in Page!Engines : \A i \in DOMAIN q[f] : p[f][i] = q[f][i]
           /\ \A f \in Page!Engines : \A i \in DOMAIN p[f] :
                i \in DOMAIN q[f] \/ (f = e /\ i = Len(q[e]) + 1)
<1>1. /\ Append(q[e], r) \in Seq(PageRequest)
      /\ Len(Append(q[e], r)) = Len(q[e]) + 1
      /\ Append(q[e], r)[Len(q[e]) + 1] = r
      /\ \A i \in 1..Len(q[e]) : Append(q[e], r)[i] = q[e][i]
      /\ Len(q[e]) \in Nat
  <2> DEFINE s == q[e]
  <2>1. s \in Seq(PageRequest)
    OBVIOUS
  <2> HIDE DEF s
  <2>2. /\ Append(s, r) \in Seq(PageRequest)
        /\ Len(Append(s, r)) = Len(s) + 1
        /\ Append(s, r)[Len(s) + 1] = r
        /\ \A i \in 1..Len(s) : Append(s, r)[i] = s[i]
        /\ Len(s) \in Nat
    BY <2>1
  <2>3. QED
    BY <2>2 DEF s
<1> DEFINE t == Append(q[e], r)
<1>2. p[e] = t /\ \A f \in Page!Engines : f # e => p[f] = q[f]
  OBVIOUS
<1>3. p \in [Page!Engines -> Seq(PageRequest)]
  BY <1>1
<1>4. t \in Seq(PageRequest) /\ Len(t) = Len(q[e]) + 1 /\ t[Len(q[e]) + 1] = r
      /\ \A i \in 1..Len(q[e]) : t[i] = q[e][i]
  BY <1>1
<1> HIDE DEF t
<1>5. DOMAIN t = 1..(Len(q[e]) + 1) /\ DOMAIN q[e] = 1..Len(q[e])
  BY <1>4
<1>6. QED
  BY <1>1, <1>2, <1>3, <1>4, <1>5

\* The request at the head of a queue is served.
LEMMA TakenOff ==
    ASSUME NEW q \in [Page!Engines -> Seq(PageRequest)], NEW e \in Page!Engines,
           q[e] # <<>>, NEW p, p = [q EXCEPT ![e] = Tail(@)]
    PROVE  /\ p \in [Page!Engines -> Seq(PageRequest)]
           /\ 1 \in DOMAIN q[e] /\ Head(q[e]) = q[e][1] /\ Head(q[e]) \in PageRequest
           /\ \A i \in DOMAIN p[e] : i + 1 \in DOMAIN q[e] /\ p[e][i] = q[e][i + 1]
           /\ \A f \in Page!Engines : f # e => p[f] = q[f]
<1> DEFINE s == q[e]
<1>1. s \in Seq(PageRequest) /\ s # <<>>
  OBVIOUS
<1>2. p[e] = Tail(s) /\ \A f \in Page!Engines : f # e => p[f] = q[f]
  OBVIOUS
<1> HIDE DEF s
<1>3. /\ Tail(s) \in Seq(PageRequest)
      /\ 1 \in DOMAIN s /\ Head(s) = s[1] /\ Head(s) \in PageRequest
      /\ \A i \in DOMAIN Tail(s) : i + 1 \in DOMAIN s /\ Tail(s)[i] = s[i + 1]
  BY <1>1
<1>4. p \in [Page!Engines -> Seq(PageRequest)]
  BY <1>3 DEF s
<1>5. QED
  BY <1>2, <1>3, <1>4 DEF s

(* Types                                                                   *)

LEMMA PageSets ==
    /\ Page!Engines = Loads \cup {Nothing}
    /\ Nothing \notin Nat /\ Nothing \notin Loads /\ Nothing \notin Sends /\ Nothing \notin Clears
BY PageAssumption DEF Page!Engines, Page!PageConstants

LEMMA LoadingTypes ==
    ASSUME PageTypes, NEW l \in Loads,
           \/ Page!ModelChange(l) \/ Page!InitDone(l) \/ Page!LoadDone(l)
           \/ Page!LoadFails(l)
    PROVE  PageTypes'
<1>1. UNCHANGED <<conv, card, send, resume, requests, convs, meta, blob, writes, pageCleared>>
  BY DEF Page!ModelChange, Page!loadModelById, Page!InitDone, Page!LoadDone, Page!LoadFails,
         Page!page, Page!worker, Page!slot
<1>2. load' \in [Loads -> LoadState]
  <2>1. load \in [Loads -> LoadState] /\ pageEngine \in Page!Engines /\ load[l] \in LoadState
    BY DEF PageTypes
  <2>2. QED
    BY <2>1, PageSets DEF LoadState, Page!ModelChange, Page!loadModelById,
       Page!InitDone, Page!LoadDone, Page!LoadFails
<1>3. pageEngine' \in Page!Engines /\ loaded' \in Page!Engines /\ up' \subseteq Loads
  BY PageSets DEF PageTypes, Page!ModelChange, Page!loadModelById, Page!InitDone, Page!LoadDone,
     Page!LoadFails, Page!page, Page!worker
<1>4. Page!Engines' = Page!Engines
  BY DEF Page!Engines
<1>5. QED
  BY <1>1, <1>2, <1>3, <1>4 DEF PageTypes

\* A conversation is put in the place of another.
LEMMA ConvPut ==
    ASSUME NEW C \in Seq(PageConv), NEW c \in 1..Len(C), NEW r \in PageConv,
           NEW D, D = [C EXCEPT ![c] = r]
    PROVE  /\ D \in Seq(PageConv) /\ Len(D) = Len(C) /\ D[c] = r
           /\ \A d \in 1..Len(C) : d # c => D[d] = C[d]
BY ExceptSeq

\* A conversation gets one more message.
Said(C, c, role) == [C EXCEPT ![c].messages = Append(@, role)]

LEMMA MoreMessages ==
    ASSUME NEW C \in Seq(PageConv), NEW c \in 1..Len(C), NEW role \in PageRoles
    PROVE  /\ Said(C, c, role) \in Seq(PageConv) /\ Len(Said(C, c, role)) = Len(C)
           /\ \A d \in 1..Len(C) : d # c => Said(C, c, role)[d] = C[d]
           /\ Said(C, c, role)[c].engine = C[c].engine
           /\ Said(C, c, role)[c].gone = C[c].gone
           /\ Said(C, c, role)[c].odd = C[c].odd
           /\ Said(C, c, role)[c].messages = Append(C[c].messages, role)
           /\ C[c].messages \in Seq(PageRoles)
<1>1. C[c] \in PageConv
  OBVIOUS
<1>2. C[c].messages \in Seq(PageRoles)
  BY <1>1 DEF PageConv
<1>3. PICK m \in Seq(PageRoles) : m = Append(C[c].messages, role)
  <2> DEFINE a == Append(C[c].messages, role)
  <2>1. a \in Seq(PageRoles)
    BY <1>2
  <2>2. QED
    BY <2>1
<1>4. PICK x \in PageConv : x = [C[c] EXCEPT !.messages = m]
  BY <1>1, <1>3 DEF PageConv
<1>5. x.engine = C[c].engine /\ x.gone = C[c].gone /\ x.odd = C[c].odd /\ x.messages = m
  BY <1>1, <1>4 DEF PageConv
<1>6. Said(C, c, role) = [C EXCEPT ![c] = x]
  BY <1>3, <1>4 DEF Said
<1>7. /\ Said(C, c, role) \in Seq(PageConv) /\ Len(Said(C, c, role)) = Len(C)
      /\ Said(C, c, role)[c] = x
      /\ \A d \in 1..Len(C) : d # c => Said(C, c, role)[d] = C[d]
  BY <1>6, ConvPut
<1>8. QED
  BY <1>2, <1>3, <1>5, <1>7

LEMMA BeginTypes ==
    ASSUME PageTypes, NEW s \in Sends, NEW C \in Seq(PageConv), NEW c \in 1..Len(C),
           Page!BeginTurn(s, c, C)
    PROVE  /\ convs' \in Seq(PageConv) /\ Len(convs') = Len(C)
           /\ send' \in [Sends -> SendState]
           /\ pageCleared' = FALSE
<1>1. convs' \in Seq(PageConv) /\ Len(convs') = Len(C)
  <2>1. "user" \in PageRoles
    BY DEF PageRoles
  <2>2. convs' = Said(C, c, "user")
    BY DEF Page!BeginTurn, Said
  <2>3. QED
    BY <2>1, <2>2, MoreMessages
<1>2. send' \in [Sends -> SendState]
  <2>1. c \in Nat /\ pageEngine \in Page!Engines /\ (Page!InTurn # {}) \in BOOLEAN
    BY DEF PageTypes
  <2>2. [Page!NoSend EXCEPT !.phase = "turn", !.conv = c, !.engine = pageEngine,
                            !.mixed = Page!InTurn # {}] \in SendState
    BY <2>1 DEF SendState, Page!NoSend
  <2>3. \A t \in Sends : send[t] \in SendState /\ [send[t] EXCEPT !.mixed = TRUE] \in SendState
    BY DEF PageTypes, SendState
  <2>4. QED
    BY <2>2, <2>3 DEF Page!BeginTurn
<1>3. QED
  BY <1>1, <1>2 DEF Page!BeginTurn

LEMMA RequestType ==
    ASSUME PageTypes, NEW kind \in {"create", "start", "export", "dispose", "import"},
           NEW by \in Sends \cup Clears \cup {Nothing}, NEW c \in Nat \cup {Nothing}
    PROVE  Page!Request(kind, by, c) \in PageRequest
BY DEF PageTypes, PageRequest, Page!Request

LEMMA ConvType == PageTypes => conv \in Nat \cup {Nothing}
BY DEF PageTypes

LEMMA SendTypes ==
    ASSUME PageTypes, NEW s \in Sends, Page!Send(s)
    PROVE  PageTypes'
<1>1. UNCHANGED <<pageEngine, loaded, conv, card, load, resume, up, meta, blob, writes>>
      /\ Page!Engines' = Page!Engines
  BY DEF Page!Send, Page!slot, Page!Engines
<1>2. CASE conv # Nothing
  <2>1. Page!BeginTurn(s, conv, convs) /\ Page!Post(pageEngine, Page!Request("start", s, conv))
    BY <1>2 DEF Page!Send
  <2>2. conv \in 1..Len(convs) /\ convs \in Seq(PageConv)
    BY <1>2 DEF PageTypes
  <2>3. /\ convs' \in Seq(PageConv) /\ Len(convs') = Len(convs)
        /\ send' \in [Sends -> SendState] /\ pageCleared' = FALSE
    BY <2>1, <2>2, BeginTypes
  <2>4. requests' \in [Page!Engines -> Seq(PageRequest)]
    <3>1. Page!Request("start", s, conv) \in PageRequest
      BY <2>2, RequestType
    <3>2. QED
      BY <2>1, <3>1, Posted DEF Page!Post, PageTypes
  <2>5. QED
    BY <1>1, <2>3, <2>4 DEF PageTypes
<1>3. CASE conv = Nothing
  <2>1. /\ send' = [send EXCEPT ![s] = [Page!NoSend EXCEPT !.phase = "creating"]]
        /\ Page!Post(pageEngine, Page!Request("create", s, Nothing))
        /\ UNCHANGED <<convs, pageCleared>>
    BY <1>3 DEF Page!Send
  <2>2. send' \in [Sends -> SendState]
    <3>1. [Page!NoSend EXCEPT !.phase = "creating"] \in SendState
      BY DEF Page!NoSend, SendState, Page!Engines
    <3>2. QED
      BY <2>1, <3>1 DEF PageTypes
  <2>4. requests' \in [Page!Engines -> Seq(PageRequest)]
    <3>1. Page!Request("create", s, Nothing) \in PageRequest
      BY RequestType
    <3>2. QED
      BY <2>1, <3>1, Posted DEF Page!Post, PageTypes
  <2>5. QED
    BY <1>1, <2>1, <2>2, <2>4 DEF PageTypes
<1>4. QED
  BY <1>2, <1>3

\* A turn leaves its conversation with these messages.
LEMMA TurnedIs ==
    ASSUME PageTypes, NEW s \in Sends, send[s].conv \in 1..Len(convs),
           NEW m \in Seq(PageRoles), NEW failed \in BOOLEAN
    PROVE  /\ Page!Turned(s, m, failed) \in Seq(PageConv)
           /\ Len(Page!Turned(s, m, failed)) = Len(convs)
           /\ \A d \in 1..Len(convs) : d # send[s].conv => Page!Turned(s, m, failed)[d] = convs[d]
           /\ Page!Turned(s, m, failed)[send[s].conv].engine = convs[send[s].conv].engine
           /\ Page!Turned(s, m, failed)[send[s].conv].gone = convs[send[s].conv].gone
           /\ Page!Turned(s, m, failed)[send[s].conv].messages = m
           /\ Page!Turned(s, m, failed)[send[s].conv].odd
                = (convs[send[s].conv].odd \/ failed \/ send[s].mixed)
<1>1. send[s] \in SendState /\ convs \in Seq(PageConv)
  BY DEF PageTypes
<1>2. send[s].mixed \in BOOLEAN
  BY <1>1 DEF SendState
<1>3. PICK c \in 1..Len(convs) : c = send[s].conv
  OBVIOUS
<1>4. convs[c] \in PageConv
  BY <1>1
<1>5. (convs[c].odd \/ failed \/ send[s].mixed) \in BOOLEAN
  BY <1>2, <1>4 DEF PageConv
<1> DEFINE r == [convs[c] EXCEPT !.messages = m, !.odd = @ \/ failed \/ send[s].mixed]
<1>a. r \in PageConv
  BY <1>4, <1>5 DEF PageConv
<1>6. PICK x \in PageConv : x = r
  BY <1>a
<1>7. /\ x.engine = convs[c].engine /\ x.gone = convs[c].gone
      /\ x.odd = (convs[c].odd \/ failed \/ send[s].mixed) /\ x.messages = m
  BY <1>4, <1>5, <1>6 DEF PageConv
<1>b. Page!Turned(s, m, failed) = [convs EXCEPT ![c] = r]
  BY <1>1, <1>3 DEF Page!Turned
<1>8. Page!Turned(s, m, failed) = [convs EXCEPT ![c] = x]
  BY <1>6, <1>b
<1> HIDE DEF r
<1>9. /\ Page!Turned(s, m, failed) \in Seq(PageConv)
      /\ Len(Page!Turned(s, m, failed)) = Len(convs)
      /\ Page!Turned(s, m, failed)[c] = x
      /\ \A d \in 1..Len(convs) : d # c => Page!Turned(s, m, failed)[d] = convs[d]
  BY <1>1, <1>8, ConvPut
<1>10. QED
  BY <1>3, <1>7, <1>9

LEMMA AfterTurnTypes ==
    ASSUME PageTypes, NEW s \in Sends, NEW C \in Seq(PageConv), Len(C) = Len(convs),
           Page!AfterTurn(s, C)
    PROVE  PageTypes'
<1>1. /\ UNCHANGED <<pageEngine, loaded, conv, card, load, resume, up, blob, writes, pageCleared>>
      /\ convs' = C /\ Page!Engines' = Page!Engines
  BY DEF Page!AfterTurn, Page!counts, Page!Engines
<1>2. send[s] \in SendState
  BY DEF PageTypes
<1>3. CASE conv # Nothing /\ loaded # Nothing
  <2>1. /\ meta' = [messages |-> C[conv].messages, odd |-> C[conv].odd \/ send[s].mixed]
        /\ send' = [send EXCEPT ![s].phase = "exporting"]
        /\ Page!Post(pageEngine, Page!Request("export", s, conv))
    BY <1>3 DEF Page!AfterTurn, Page!ToSave
  <2>2. C[conv] \in PageConv
    BY <1>3 DEF PageTypes
  <2>3. meta' \in Slot
    <3>1. C[conv].messages \in Seq(PageRoles) /\ (C[conv].odd \/ send[s].mixed) \in BOOLEAN
      BY <1>2, <2>2 DEF PageConv, SendState
    <3>2. QED
      BY <2>1, <3>1 DEF Slot
  <2>4. send' \in [Sends -> SendState]
    BY <1>2, <2>1 DEF SendState, PageTypes
  <2>5. requests' \in [Page!Engines -> Seq(PageRequest)]
    <3>1. Page!Request("export", s, conv) \in PageRequest
      BY ConvType, RequestType
    <3>2. QED
      BY <2>1, <3>1, Posted DEF Page!Post, PageTypes
  <2>6. QED
    BY <1>1, <2>3, <2>4, <2>5 DEF PageTypes
<1>4. CASE ~(conv # Nothing /\ loaded # Nothing)
  <2>1. send' = [send EXCEPT ![s].phase = "idle"] /\ UNCHANGED <<meta, requests>>
    BY <1>4 DEF Page!AfterTurn, Page!ToSave
  <2>2. send' \in [Sends -> SendState]
    BY <1>2, <2>1 DEF SendState, PageTypes
  <2>3. QED
    BY <1>1, <2>1, <2>2 DEF PageTypes
<1>5. QED
  BY <1>3, <1>4

\* What a turn that was stopped leaves are messages.
LEMMA MessagesLeft ==
    ASSUME PageTypes, NEW s \in Sends, send[s].conv \in 1..Len(convs)
    PROVE  /\ Page!Messages(s) \in Seq(PageRoles)
           /\ Append(Page!Messages(s), "assistant") \in Seq(PageRoles)
           /\ Page!Stopped(Page!Messages(s), send[s].got) \in Seq(PageRoles)
<1>1. convs[send[s].conv] \in PageConv
  BY DEF PageTypes
<1>2. PICK m \in Seq(PageRoles) : m = Page!Messages(s)
  BY <1>1 DEF PageConv, Page!Messages
<1>4. Append(m, "assistant") \in Seq(PageRoles) /\ Page!Front(m) \in Seq(PageRoles)
  BY <1>2 DEF PageRoles, Page!Front
<1>5. QED
  BY <1>2, <1>4 DEF Page!Stopped

LEMMA StreamTypes ==
    ASSUME PageTypes, NEW s \in Sends,
           \/ Page!Chunk(s) \/ Page!Stop(s) \/ Page!Saving(s) \/ Page!Throw(s) \/ Page!Release(s)
    PROVE  PageTypes'
<1>1. /\ UNCHANGED <<pageEngine, loaded, conv, card, load, resume, up, requests, convs, meta, blob,
                     writes, pageCleared>>
      /\ Page!Engines' = Page!Engines
  BY DEF Page!Chunk, Page!Stop, Page!Saving, Page!Throw, Page!Release,
         Page!page, Page!worker, Page!slot, Page!Engines
<1>2. send' \in [Sends -> SendState]
  <2>1. send[s] \in SendState /\ send \in [Sends -> SendState]
    BY DEF PageTypes
  <2>2. [send[s] EXCEPT !.got = TRUE] \in SendState /\ [send[s] EXCEPT !.stop = TRUE] \in SendState
    BY <2>1 DEF SendState
  <2>3. \/ send' = send
        \/ send' = [send EXCEPT ![s] = [send[s] EXCEPT !.got = TRUE]]
        \/ send' = [send EXCEPT ![s] = [send[s] EXCEPT !.stop = TRUE]]
    BY DEF Page!Chunk, Page!Stop, Page!Saving, Page!Throw, Page!Release
  <2>4. QED
    BY <2>1, <2>2, <2>3
<1>3. QED
  BY <1>1, <1>2 DEF PageTypes

\* A request is served.
LEMMA ServedIs ==
    ASSUME PageTypes, NEW e \in Page!Engines, requests[e] # <<>>
    PROVE  /\ Page!Served(e) \in [Page!Engines -> Seq(PageRequest)]
           /\ 1 \in DOMAIN requests[e]
           /\ Head(requests[e]) = requests[e][1] /\ Head(requests[e]) \in PageRequest
           /\ \A i \in DOMAIN Page!Served(e)[e] :
                 /\ i \in Nat /\ i + 1 \in DOMAIN requests[e]
                 /\ Page!Served(e)[e][i] = requests[e][i + 1]
           /\ \A f \in Page!Engines : f # e => Page!Served(e)[f] = requests[f]
<1>1. Page!Served(e) = [requests EXCEPT ![e] = Tail(@)]
  BY DEF Page!Served
<1>2. requests \in [Page!Engines -> Seq(PageRequest)]
  BY DEF PageTypes
<1>3. /\ Page!Served(e) \in [Page!Engines -> Seq(PageRequest)]
      /\ 1 \in DOMAIN requests[e] /\ Head(requests[e]) = requests[e][1]
      /\ Head(requests[e]) \in PageRequest
      /\ \A i \in DOMAIN Page!Served(e)[e] :
            i + 1 \in DOMAIN requests[e] /\ Page!Served(e)[e][i] = requests[e][i + 1]
      /\ \A f \in Page!Engines : f # e => Page!Served(e)[f] = requests[f]
  BY <1>1, <1>2, TakenOff
<1>4. DOMAIN Page!Served(e)[e] \subseteq Nat
  BY <1>3
<1>5. QED
  BY <1>3, <1>4

\* A conversation is added.
LEMMA CreatedIs ==
    ASSUME PageTypes, NEW e \in Page!Engines, NEW m \in Seq(PageRoles), NEW odd \in BOOLEAN
    PROVE  /\ Page!Created(e, m, odd) \in Seq(PageConv)
           /\ Len(convs) \in Nat
           /\ Len(Page!Created(e, m, odd)) = Len(convs) + 1
           /\ \A c \in 1..Len(convs) : Page!Created(e, m, odd)[c] = convs[c]
           /\ Page!Created(e, m, odd)[Len(convs) + 1].engine = e
           /\ Page!Created(e, m, odd)[Len(convs) + 1].gone = FALSE
           /\ Page!Created(e, m, odd)[Len(convs) + 1].messages = m
<1>1. PICK x \in PageConv : x = [engine |-> e, gone |-> FALSE, messages |-> m, odd |-> odd]
  BY DEF PageConv
<1>2. convs \in Seq(PageConv)
  BY DEF PageTypes
<1>3. Page!Created(e, m, odd) = Append(convs, x)
  BY <1>1 DEF Page!Created
<1>4. QED
  BY <1>1, <1>2, <1>3

\* The conversations are these and one more.
IsCreated(C, e, m, odd) ==
    /\ C \in Seq(PageConv)
    /\ Len(C) = Len(convs) + 1
    /\ \A c \in 1..Len(convs) : C[c] = convs[c]
    /\ C[Len(convs) + 1].engine = e
    /\ C[Len(convs) + 1].messages = m
    /\ C[Len(convs) + 1].odd = odd

LEMMA CreatedBoth ==
    ASSUME PageTypes, NEW e \in Page!Engines, NEW m \in Seq(PageRoles), NEW odd \in BOOLEAN
    PROVE  IsCreated(Page!Created(e, m, odd), e, m, odd)
<1>1. PICK x \in PageConv : x = [engine |-> e, gone |-> FALSE, messages |-> m, odd |-> odd]
  BY DEF PageConv
<1>2. convs \in Seq(PageConv)
  BY DEF PageTypes
<1>3. Page!Created(e, m, odd) = Append(convs, x)
  BY <1>1 DEF Page!Created
<1>4. IsCreated(Append(convs, x), e, m, odd)
  BY <1>1, <1>2 DEF IsCreated
<1>5. QED
  BY <1>3, <1>4

LEMMA CreateTypes ==
    ASSUME PageTypes, NEW e \in Page!Engines, NEW s \in Sends, Page!Create(e, s)
    PROVE  PageTypes'
<1>1. /\ UNCHANGED <<pageEngine, loaded, card, load, resume, up, meta, blob, writes>>
      /\ Page!Engines' = Page!Engines
  BY DEF Page!Create, Page!slot, Page!Engines
<1>2. Page!Served(e) \in [Page!Engines -> Seq(PageRequest)]
  BY ServedIs DEF Page!Create, Page!Serving
<1>3. CASE Page!HandleOf(e)
  <2>1. /\ conv' = Len(convs) + 1
        /\ Page!BeginTurn(s, conv', Page!Created(e, <<>>, FALSE))
        /\ requests' = [Page!Served(e) EXCEPT ![pageEngine] =
                          Append(@, Page!Request("start", s, conv'))]
    BY <1>3 DEF Page!Create
  <2>2. PICK C \in Seq(PageConv) :
           C = Page!Created(e, <<>>, FALSE) /\ Len(convs) \in Nat /\ Len(C) = Len(convs) + 1
    <3>1. <<>> \in Seq(PageRoles) /\ FALSE \in BOOLEAN
      OBVIOUS
    <3> DEFINE C == Page!Created(e, <<>>, FALSE)
    <3>2. C \in Seq(PageConv) /\ Len(convs) \in Nat /\ Len(C) = Len(convs) + 1
      BY <3>1, CreatedIs
    <3> HIDE DEF C
    <3>3. \E D \in Seq(PageConv) : D = C /\ Len(convs) \in Nat /\ Len(D) = Len(convs) + 1
      BY <3>2
    <3>4. QED
      BY <3>3 DEF C
  <2>a. conv' = Len(convs) + 1
    BY <2>1
  <2>3. PICK c \in 1..Len(C) : c = conv'
    <3>1. Len(convs) \in Nat /\ Len(C) = Len(convs) + 1
      BY <2>2, Zenon
    <3>2. conv' \in 1..Len(C)
      BY <2>a, <3>1
    <3>3. QED
      BY <3>2
  <2>4. Page!BeginTurn(s, c, C)
    BY <2>1, <2>2, <2>3
  <2>5. /\ convs' \in Seq(PageConv) /\ Len(convs') = Len(C)
        /\ send' \in [Sends -> SendState] /\ pageCleared' = FALSE
    BY <2>4, BeginTypes
  <2>6. requests' \in [Page!Engines -> Seq(PageRequest)]
    <3>1. Page!Request("start", s, c) \in PageRequest
      BY RequestType
    <3>2. pageEngine \in Page!Engines
      BY DEF PageTypes
    <3>3. requests' = [Page!Served(e) EXCEPT ![pageEngine] =
                         Append(@, Page!Request("start", s, c))]
      BY <2>1, <2>3
    <3>4. QED
      BY <1>2, <3>1, <3>2, <3>3, Posted
  <2>7. conv' \in (1..Len(convs')) \cup {Nothing}
    BY <2>3, <2>5
  <2>8. QED
    BY <1>1, <2>5, <2>6, <2>7 DEF PageTypes
<1>4. CASE ~Page!HandleOf(e)
  <2>1. /\ send' = [send EXCEPT ![s].phase = "idle"]
        /\ requests' = Page!Served(e)
        /\ UNCHANGED <<conv, convs, pageCleared>>
    BY <1>4 DEF Page!Create
  <2>2. send' \in [Sends -> SendState]
    BY <2>1 DEF PageTypes, SendState
  <2>3. QED
    BY <1>1, <1>2, <2>1, <2>2 DEF PageTypes
<1>5. QED
  BY <1>3, <1>4

LEMMA StartTypes ==
    ASSUME PageTypes, NEW e \in Page!Engines, NEW s \in Sends, Page!Start(e, s)
    PROVE  PageTypes'
<1>1. /\ UNCHANGED <<pageEngine, loaded, conv, card, load, send, resume, up, convs, meta, blob,
                     writes, pageCleared>>
      /\ Page!Engines' = Page!Engines /\ requests' = Page!Served(e)
  BY DEF Page!Start, Page!page, Page!slot, Page!Engines
<1>2. Page!Served(e) \in [Page!Engines -> Seq(PageRequest)]
  BY ServedIs DEF Page!Start, Page!Serving
<1>3. QED
  BY <1>1, <1>2 DEF PageTypes

LEMMA ExportTypes ==
    ASSUME PageTypes, NEW e \in Page!Engines, NEW s \in Sends, Page!Export(e, s)
    PROVE  PageTypes'
<1>1. /\ UNCHANGED <<pageEngine, loaded, conv, card, load, resume, up, convs, meta, blob, pageCleared>>
      /\ Page!Engines' = Page!Engines /\ requests' = Page!Served(e)
  BY DEF Page!Export, Page!counts, Page!Engines
<1>2. Page!Served(e) \in [Page!Engines -> Seq(PageRequest)]
  BY ServedIs DEF Page!Export, Page!Serving
<1>3. /\ \/ send' = [send EXCEPT ![s].phase = "putting"]
         \/ send' = [send EXCEPT ![s].phase = "idle"]
      /\ \/ writes' = Append(writes, [blob |-> Page!Saved, by |-> s])
         \/ writes' = writes
  BY DEF Page!Export
<1>4. send' \in [Sends -> SendState]
  <2>1. send \in [Sends -> SendState] /\ send[s] \in SendState
    BY DEF PageTypes
  <2>2. [send[s] EXCEPT !.phase = "putting"] \in SendState
        /\ [send[s] EXCEPT !.phase = "idle"] \in SendState
    BY <2>1 DEF SendState
  <2>3. QED
    BY <1>3, <2>1, <2>2
<1>5. writes' \in Seq(PageWrite)
  <2>1. [blob |-> Page!Saved, by |-> s] \in PageWrite /\ writes \in Seq(PageWrite)
    BY DEF PageTypes, PageWrite
  <2>2. QED
    BY <1>3, <2>1
<1>6. QED
  BY <1>1, <1>2, <1>4, <1>5 DEF PageTypes

LEMMA CommitIs ==
    ASSUME PageTypes, Page!Commit
    PROVE  /\ UNCHANGED <<pageEngine, loaded, conv, card, load, resume, up, requests, convs, gen, meta,
                          pageCleared>>
           /\ Len(writes) \in Nat \ {0} /\ writes[1] \in PageWrite /\ blob' = writes[1].blob
           /\ send' = [s \in Sends |-> IF writes[1].by = s THEN [send[s] EXCEPT !.phase = "idle"]
                                       ELSE send[s]]
           /\ writes' \in Seq(PageWrite) /\ Len(writes') = Len(writes) - 1
           /\ \A i \in 1..Len(writes') : writes'[i] = writes[i + 1]
<1>1. writes \in Seq(PageWrite) /\ writes # <<>> /\ writes' = Tail(writes)
  BY DEF PageTypes, Page!Commit
<1>2. Head(writes) = writes[1] /\ Len(writes) \in Nat \ {0} /\ writes[1] \in PageWrite
  BY <1>1
<1>3. /\ writes' \in Seq(PageWrite) /\ Len(writes') = Len(writes) - 1
      /\ \A i \in 1..Len(writes') : writes'[i] = writes[i + 1]
  BY <1>1
<1>4. blob' = writes[1].blob
      /\ send' = [s \in Sends |-> IF writes[1].by = s THEN [send[s] EXCEPT !.phase = "idle"]
                                       ELSE send[s]]
  BY <1>2 DEF Page!Commit
<1>5. QED
  BY <1>2, <1>3, <1>4 DEF Page!Commit, Page!page, Page!worker

LEMMA CommitTypes ==
    ASSUME PageTypes, Page!Commit
    PROVE  PageTypes'
<1>1. send' \in [Sends -> SendState]
  <2>1. \A s \in Sends : send[s] \in SendState /\ [send[s] EXCEPT !.phase = "idle"] \in SendState
    BY DEF PageTypes, SendState
  <2>2. QED
    BY <2>1, CommitIs
<1>2. blob' \in {Page!Saved, Nothing}
  BY CommitIs DEF PageWrite
<1>3. QED
  BY <1>1, <1>2, CommitIs DEF PageTypes, Page!Engines

LEMMA ClearTypes ==
    ASSUME PageTypes, NEW k \in Clears, Page!Clear(k)
    PROVE  PageTypes'
<1>1. /\ UNCHANGED <<pageEngine, loaded, conv, card, load, send, resume, up, convs, gen, meta, blob,
                     writes, pageCleared>>
      /\ Page!Engines' = Page!Engines /\ conv # Nothing
      /\ Page!Post(pageEngine, Page!Request("dispose", k, conv))
  BY DEF Page!Clear, Page!page, Page!slot, Page!Engines
<1>2. requests' \in [Page!Engines -> Seq(PageRequest)]
  <2>1. Page!Request("dispose", k, conv) \in PageRequest
    BY ConvType, RequestType
  <2>2. QED
    BY <1>1, <2>1, Posted DEF Page!Post, PageTypes
<1>3. QED
  BY <1>1, <1>2 DEF PageTypes

\* A conversation is disposed of.
Disposed(e) ==
    [d \in DOMAIN convs |->
        [convs[d] EXCEPT !.gone = @ \/ d \in Page!Named(e, Head(requests[e]).conv)]]

LEMMA DisposedIs ==
    ASSUME PageTypes, NEW e \in Page!Engines, Head(requests[e]).conv \in 1..Len(convs)
    PROVE  /\ Disposed(e) \in Seq(PageConv) /\ Len(Disposed(e)) = Len(convs)
           /\ \A d \in 1..Len(convs) :
                 /\ Disposed(e)[d].engine = convs[d].engine
                 /\ Disposed(e)[d].messages = convs[d].messages
                 /\ Disposed(e)[d].odd = convs[d].odd
                 /\ convs[d].gone => Disposed(e)[d].gone
           /\ Page!Alive(e, Head(requests[e]).conv) => Disposed(e)[Head(requests[e]).conv].gone
<1>1. PICK c \in 1..Len(convs) : c = Head(requests[e]).conv
  OBVIOUS
<1>2. convs \in Seq(PageConv) /\ Len(convs) \in Nat /\ DOMAIN convs = 1..Len(convs)
  BY DEF PageTypes
<1> DEFINE Gone(d) == convs[d].gone \/ d \in Page!Named(e, c)
           Made(d) == [convs[d] EXCEPT !.gone = Gone(d)]
<1>3. \A d \in 1..Len(convs) :
         /\ Made(d) \in PageConv
         /\ Made(d).engine = convs[d].engine /\ Made(d).messages = convs[d].messages
         /\ Made(d).odd = convs[d].odd
         /\ Made(d).gone = Gone(d)
  <2>1. TAKE d \in 1..Len(convs)
  <2>2. convs[d] \in PageConv
    BY <1>2
  <2>3. Gone(d) \in BOOLEAN
    BY <2>2 DEF PageConv
  <2> HIDE DEF Gone
  <2>4. QED
    BY <2>2, <2>3 DEF PageConv
<1>4. Disposed(e) = [d \in 1..Len(convs) |-> Made(d)]
  BY <1>1, <1>2 DEF Disposed
<1> HIDE DEF Made
<1>5. Disposed(e) \in Seq(PageConv) /\ Len(Disposed(e)) = Len(convs)
      /\ \A d \in 1..Len(convs) : Disposed(e)[d] = Made(d)
  BY <1>2, <1>3, <1>4
<1>6. \A d \in 1..Len(convs) : convs[d].gone => Made(d).gone
  BY <1>3, Zenon
<1>7. ASSUME Page!Alive(e, c)
      PROVE  Made(c).gone
  <2>1. c \in Page!Named(e, c)
    BY <1>2, <1>7 DEF Page!Named, Page!Alive
  <2>2. QED
    BY <1>3, <2>1, Zenon
<1>8. QED
  BY <1>1, <1>3, <1>5, <1>6, <1>7

LEMMA DeleteTypes ==
    ASSUME PageTypes
    PROVE  Append(writes, Page!Delete) \in Seq(PageWrite)
<1>1. writes \in Seq(PageWrite) /\ Page!Delete \in PageWrite
  BY DEF PageTypes, PageWrite, Page!Delete
<1>2. QED
  BY <1>1

LEMMA DisposeTypes ==
    ASSUME PageTypes, OwnerInv, NEW e \in Page!Engines, NEW k \in Clears, Page!Dispose(e, k)
    PROVE  PageTypes'
<1>1. /\ UNCHANGED <<pageEngine, loaded, card, load, send, resume, up, gen, blob>>
      /\ Page!Engines' = Page!Engines /\ conv' = Nothing /\ meta' = Nothing
      /\ requests' = Page!Served(e) /\ writes' = Append(writes, Page!Delete)
  BY DEF Page!Dispose, Page!Engines
<1>2. convs' = Disposed(e)
  BY DEF Page!Dispose, Disposed
<1>3. pageCleared' = (Head(requests[e]).conv = conv /\ ~Page!ExportedElsewhere(e))
  BY DEF Page!Dispose
<1>4. requests[e] # <<>> /\ Head(requests[e]).kind = "dispose"
  BY DEF Page!Dispose, Page!Serving
<1>5. /\ Page!Served(e) \in [Page!Engines -> Seq(PageRequest)]
      /\ 1 \in DOMAIN requests[e] /\ Head(requests[e]) = requests[e][1]
  BY <1>4, ServedIs
<1>6. Head(requests[e]).conv \in 1..Len(convs)
  <2>1. RequestRight(requests[e][1], send, resume, Len(convs))
    BY <1>5 DEF OwnerInv, QueuesRight
  <2>2. QED
    BY <1>4, <1>5, <2>1 DEF RequestRight
<1>7. convs' \in Seq(PageConv)
  BY <1>2, <1>6, DisposedIs
<1>8. pageCleared' \in BOOLEAN
  BY <1>3
<1>9. QED
  BY <1>1, <1>5, <1>7, <1>8, DeleteTypes DEF PageTypes

LEMMA ReloadTypes ==
    ASSUME PageTypes, Page!Reload
    PROVE  PageTypes'
<1>1. load' = [l \in Loads |-> Page!NoLoad] /\ send' = [s \in Sends |-> Page!NoSend]
      /\ resume' = Page!NoResume /\ requests' = [e \in Page!Engines |-> <<>>]
      /\ Page!Engines' = Page!Engines
  BY DEF Page!Reload, PageTypes, Page!Engines
<1>2. Page!NoLoad \in LoadState /\ Page!NoSend \in SendState /\ Page!NoResume \in ResumeState
  BY PageSets DEF Page!NoLoad, Page!NoSend, Page!NoResume, LoadState, SendState, ResumeState
<1>3. UNCHANGED <<meta, blob>> /\ card' = meta /\ convs' = <<>> /\ writes' = <<>>
      /\ pageEngine' = Nothing /\ loaded' = Nothing /\ conv' = Nothing /\ up' = {} /\ pageCleared' = FALSE
  BY DEF Page!Reload
<1>4. requests' \in [Page!Engines -> Seq(PageRequest)] /\ load' \in [Loads -> LoadState]
      /\ send' \in [Sends -> SendState] /\ resume' \in ResumeState
  BY <1>1, <1>2
<1>5. convs' \in Seq(PageConv) /\ writes' \in Seq(PageWrite) /\ pageCleared' \in BOOLEAN
      /\ meta' \in Slot \cup {Nothing} /\ card' \in Slot \cup {Nothing}
      /\ blob' \in {Page!Saved, Nothing}
  <2>1. meta' \in Slot \cup {Nothing} /\ card' \in Slot \cup {Nothing}
        /\ blob' \in {Page!Saved, Nothing}
    BY <1>3 DEF PageTypes
  <2>2. convs' \in Seq(PageConv) /\ writes' \in Seq(PageWrite)
    BY <1>3
  <2>3. pageCleared' \in BOOLEAN
    BY <1>3
  <2>4. QED
    BY <2>1, <2>2, <2>3
<1>6. QED
  BY <1>1, <1>3, <1>4, <1>5, PageSets DEF PageTypes

LEMMA DiscardTypes ==
    ASSUME PageTypes, Page!Discard
    PROVE  PageTypes'
<1>1. /\ UNCHANGED <<pageEngine, loaded, conv, load, send, resume, up, requests, convs, blob, pageCleared>>
      /\ Page!Engines' = Page!Engines /\ card' = Nothing /\ meta' = Nothing
      /\ writes' = Append(writes, Page!Delete)
  BY DEF Page!Discard, Page!worker, Page!Engines
<1>2. QED
  BY <1>1, DeleteTypes DEF PageTypes

LEMMA ResumeTypes ==
    ASSUME PageTypes, NEW l \in Loads, Page!Resume(l)
    PROVE  PageTypes'
<1>1. /\ UNCHANGED <<conv, send, up, requests, convs, meta, blob, writes>>
      /\ pageEngine' = Nothing /\ (loaded' = loaded \/ loaded' = Nothing)
      /\ Page!Engines' = Page!Engines /\ card' = Nothing /\ pageCleared' = FALSE
      /\ resume' = [phase |-> "loading", load |-> l, meta |-> card]
  BY DEF Page!Resume, Page!loadModelById, Page!worker, Page!slot, Page!Engines
<1>2. load' \in [Loads -> LoadState]
  BY DEF PageTypes, LoadState, Page!Resume, Page!loadModelById
<1>3. resume' \in ResumeState
  BY <1>1, PageSets DEF PageTypes, ResumeState
<1>4. QED
  BY <1>1, <1>2, <1>3, PageSets DEF PageTypes

\* The request that the Resume handler makes.
LEMMA AskedFor ==
    ASSUME PageTypes, OwnerInv, Page!ResumeLoaded, load[resume.load].phase # "failed"
    PROVE  \E r \in PageRequest, l \in Loads :
             /\ l = resume.load /\ load[l].phase = "ready" /\ load[l].engine \in Page!Engines
             /\ r.kind \in {"create", "import"} /\ r.by = Nothing /\ r.conv = Nothing
             /\ r.handle = l
             /\ requests' = [requests EXCEPT ![load[l].engine] = Append(@, r)]
             /\ resume' = [resume EXCEPT !.phase = "asked"] /\ writes = <<>>
<1>1. PICK l \in Loads : l = resume.load
  BY DEF OwnerInv, CardTaken, Page!ResumeLoaded
<1>2. load[l] \in LoadState
  BY DEF PageTypes
<1>3. /\ load[l].phase = "ready" /\ writes = <<>>
      /\ resume' = [resume EXCEPT !.phase = "asked"]
      /\ requests' = [requests EXCEPT ![load[l].engine] =
            Append(@, [kind |-> IF blob # Nothing THEN "import" ELSE "create",
                       by |-> Nothing, conv |-> Nothing, handle |-> l])]
  BY <1>1 DEF Page!ResumeLoaded
<1>4. PICK kind \in {"create", "import"} : kind = IF blob # Nothing THEN "import" ELSE "create"
  OBVIOUS
<1>5. PICK r \in PageRequest : r = [kind |-> kind, by |-> Nothing, conv |-> Nothing, handle |-> l]
  BY <1>1, PageSets DEF PageRequest
<1>6. load[l].engine \in Page!Engines
  BY <1>2 DEF LoadState
<1>7. QED
  BY <1>1, <1>3, <1>4, <1>5, <1>6

LEMMA ResumeLoadedTypes ==
    ASSUME PageTypes, OwnerInv, Page!ResumeLoaded
    PROVE  PageTypes'
<1>1. /\ UNCHANGED <<pageEngine, loaded, conv, card, load, send, up, convs, meta, blob, writes,
                     pageCleared>>
      /\ Page!Engines' = Page!Engines
  BY DEF Page!ResumeLoaded, Page!page, Page!slot, Page!Engines
<1>2. CASE load[resume.load].phase = "failed"
  <2>1. resume' = Page!NoResume /\ requests' = requests
    BY <1>2 DEF Page!ResumeLoaded
  <2>2. resume' \in ResumeState
    BY <2>1, PageSets DEF Page!NoResume, ResumeState
  <2>3. QED
    BY <1>1, <2>1, <2>2 DEF PageTypes
<1>3. CASE load[resume.load].phase # "failed"
  <2>1. PICK r \in PageRequest, f \in Page!Engines :
          requests' = [requests EXCEPT ![f] = Append(@, r)]
    BY <1>3, AskedFor
  <2>2. requests' \in [Page!Engines -> Seq(PageRequest)]
    BY <2>1, Posted DEF PageTypes
  <2>3. resume' = [resume EXCEPT !.phase = "asked"] /\ resume \in ResumeState
    BY <1>3, AskedFor DEF PageTypes
  <2>4. resume' \in ResumeState
    BY <2>3 DEF ResumeState
  <2>5. QED
    BY <1>1, <2>2, <2>4 DEF PageTypes
<1>4. QED
  BY <1>2, <1>3

\* Who is served and asked to resume was asked.
LEMMA WasAsked ==
    ASSUME PageTypes, OwnerInv, NEW e \in Page!Engines,
           Page!Serving(e, "import", Nothing) \/ Page!Serving(e, "create", Nothing)
    PROVE  /\ resume.phase = "asked" /\ card = Nothing /\ resume.meta \in Slot
           /\ requests[e] # <<>> /\ 1 \in DOMAIN requests[e]
           /\ Head(requests[e]) = requests[e][1]
<1>1. /\ requests[e] # <<>> /\ 1 \in DOMAIN requests[e]
      /\ Head(requests[e]) = requests[e][1]
      /\ requests[e][1].by = Nothing /\ requests[e][1].kind \in {"create", "import"}
  BY ServedIs DEF Page!Serving
<1>2. RequestRight(requests[e][1], send, resume, Len(convs))
  BY <1>1 DEF OwnerInv, QueuesRight
<1>3. resume.phase = "asked"
  BY <1>1, <1>2, PageSets DEF RequestRight
<1>4. QED
  BY <1>1, <1>3 DEF OwnerInv, CardTaken

\* What comes of a conversation that is resumed.
ResumedInto(e) ==
    /\ Page!Serving(e, "import", Nothing) \/ Page!Serving(e, "create", Nothing)
    /\ Page!HandleOf(e)
    /\ convs' = Page!Created(e, resume.meta.messages, resume.meta.odd)
    /\ conv' = Len(convs) + 1
    /\ resume' = Page!NoResume /\ requests' = Page!Served(e) /\ pageCleared' = FALSE
    /\ UNCHANGED <<pageEngine, loaded, card, load, send, up, gen, meta, blob, writes>>

AskedAgain(e) ==
    /\ Page!Serving(e, "import", Nothing)
    /\ requests' = [requests EXCEPT ![e] =
                      Append(Tail(@), [Head(requests[e]) EXCEPT !.kind = "create"])]
    /\ UNCHANGED <<pageEngine, loaded, conv, card, load, send, resume, up, convs, gen, meta, blob,
                   writes, pageCleared>>

NotResumed(e) ==
    /\ Page!Serving(e, "create", Nothing)
    /\ resume' = Page!NoResume /\ requests' = Page!Served(e)
    /\ UNCHANGED <<pageEngine, loaded, conv, card, load, send, up, convs, gen, meta, blob, writes,
                   pageCleared>>

LEMMA ResumedCases ==
    ASSUME NEW e \in Page!Engines, Page!Resumed(e)
    PROVE  ResumedInto(e) \/ AskedAgain(e) \/ NotResumed(e)
<1>1. CASE /\ Page!Serving(e, "import", Nothing) \/ Page!Serving(e, "create", Nothing)
           /\ Page!HandleOf(e)
           /\ convs' = Page!Created(e, resume.meta.messages, resume.meta.odd)
           /\ conv' = Len(convs) + 1
           /\ resume' = Page!NoResume /\ requests' = Page!Served(e) /\ pageCleared' = FALSE
           /\ UNCHANGED <<pageEngine, loaded, sendDisabled, abortController, card, load, send, clearing,
                          up, gen, Page!slot, Page!counts>>
  BY <1>1 DEF ResumedInto, Page!slot
<1>2. CASE /\ Page!Serving(e, "import", Nothing)
           /\ requests' = [requests EXCEPT ![e] =
                             Append(Tail(@), [Head(@) EXCEPT !.kind = "create"])]
           /\ UNCHANGED <<Page!page, load, send, clearing, resume, up, convs, gen, Page!slot,
                          Page!counts, pageCleared>>
  BY <1>2 DEF AskedAgain, Page!page, Page!slot
<1>3. CASE /\ Page!Serving(e, "create", Nothing) /\ ~Page!HandleOf(e)
           /\ resume' = Page!NoResume /\ requests' = Page!Served(e)
           /\ UNCHANGED <<Page!page, load, send, clearing, up, convs, gen, Page!slot, Page!counts,
                          pageCleared>>
  BY <1>3 DEF NotResumed, Page!page, Page!slot
<1>4. QED
  BY <1>1, <1>2, <1>3 DEF Page!Resumed

\* The request that follows an import that failed.
LEMMA AgainIs ==
    ASSUME PageTypes, NEW e \in Page!Engines, AskedAgain(e)
    PROVE  /\ requests' \in [Page!Engines -> Seq(PageRequest)]
           /\ 1 \in DOMAIN requests[e] /\ requests[e][1].kind = "import"
           /\ requests[e][1].by = Nothing
           /\ Len(requests'[e]) = Len(requests[e]) /\ Len(requests[e]) \in Nat \ {0}
           /\ \A i \in 1..(Len(requests[e]) - 1) : requests'[e][i] = requests[e][i + 1]
           /\ requests'[e][Len(requests[e])].kind = "create"
           /\ requests'[e][Len(requests[e])].by = Nothing
           /\ requests'[e][Len(requests[e])].handle = requests[e][1].handle
           /\ \A f \in Page!Engines : f # e => requests'[f] = requests[f]
<1>1. PICK q \in Seq(PageRequest) : q = requests[e]
  BY DEF PageTypes
<1>2. q # <<>> /\ Head(q).kind = "import" /\ Head(q).by = Nothing
  BY <1>1 DEF AskedAgain, Page!Serving
<1>3. Head(q) = q[1] /\ q[1] \in PageRequest
  BY <1>2
<1>4. PICK x \in PageRequest : x = [Head(q) EXCEPT !.kind = "create"]
  BY <1>3 DEF PageRequest
<1>5. x.kind = "create" /\ x.by = Nothing /\ x.handle = Head(q).handle
  BY <1>2, <1>3, <1>4 DEF PageRequest
<1>6. PICK t \in Seq(PageRequest) : t = Append(Tail(q), x)
  <2>1. Tail(q) \in Seq(PageRequest)
    BY <1>2
  <2>2. Append(Tail(q), x) \in Seq(PageRequest)
    BY <2>1
  <2>3. QED
    BY <2>2, Zenon
<1>7. /\ Len(t) = Len(q) /\ Len(q) \in Nat \ {0} /\ t[Len(q)] = x
      /\ \A i \in 1..(Len(q) - 1) : t[i] = q[i + 1]
  BY <1>2, <1>6
<1>8. requests' = [requests EXCEPT ![e] = t]
  BY <1>1, <1>4, <1>6 DEF AskedAgain
<1>9. /\ requests' \in [Page!Engines -> Seq(PageRequest)] /\ requests'[e] = t
      /\ \A f \in Page!Engines : f # e => requests'[f] = requests[f]
  BY <1>8 DEF PageTypes
<1>10. QED
  BY <1>1, <1>2, <1>3, <1>5, <1>7, <1>9

LEMMA ResumedTypes ==
    ASSUME PageTypes, OwnerInv, NEW e \in Page!Engines, Page!Resumed(e)
    PROVE  PageTypes'
<1>1. Page!Engines' = Page!Engines
  BY DEF Page!Engines
<1>2. CASE ResumedInto(e)
  <2>1. resume.meta \in Slot /\ requests[e] # <<>>
    BY <1>2, WasAsked DEF ResumedInto
  <2>2. resume.meta.messages \in Seq(PageRoles) /\ resume.meta.odd \in BOOLEAN
    BY <2>1 DEF Slot
  <2>3. convs' \in Seq(PageConv) /\ Len(convs') = Len(convs) + 1 /\ Len(convs) \in Nat
    <3>1. PICK m \in Seq(PageRoles), odd \in BOOLEAN :
            m = resume.meta.messages /\ odd = resume.meta.odd
      BY <2>2
    <3>2. convs' = Page!Created(e, m, odd)
      BY <1>2, <3>1 DEF ResumedInto
    <3>3. /\ Page!Created(e, m, odd) \in Seq(PageConv) /\ Len(convs) \in Nat
          /\ Len(Page!Created(e, m, odd)) = Len(convs) + 1
      BY CreatedIs
    <3>4. QED
      BY <3>2, <3>3
  <2>4. requests' \in [Page!Engines -> Seq(PageRequest)]
    BY <1>2, <2>1, ServedIs DEF ResumedInto
  <2>5. resume' \in ResumeState
    BY <1>2, PageSets DEF ResumedInto, Page!NoResume, ResumeState
  <2>6. conv' \in 1..Len(convs')
    BY <1>2, <2>3 DEF ResumedInto
  <2>7. QED
    BY <1>1, <1>2, <2>3, <2>4, <2>5, <2>6 DEF ResumedInto, PageTypes
<1>3. CASE AskedAgain(e)
  <2>1. requests' \in [Page!Engines -> Seq(PageRequest)]
    BY <1>3, AgainIs
  <2>2. QED
    BY <1>1, <1>3, <2>1 DEF AskedAgain, PageTypes
<1>4. CASE NotResumed(e)
  <2>1. requests' \in [Page!Engines -> Seq(PageRequest)]
    BY <1>4, ServedIs DEF NotResumed, Page!Serving
  <2>2. resume' \in ResumeState
    BY <1>4, PageSets DEF NotResumed, Page!NoResume, ResumeState
  <2>3. QED
    BY <1>1, <1>4, <2>1, <2>2 DEF NotResumed, PageTypes
<1>5. QED
  BY <1>2, <1>3, <1>4, ResumedCases

LEMMA TurnTypes ==
    ASSUME PageTypes, OwnerInv, NEW s \in Sends,
           Page!TurnDone(s) \/ Page!TurnStopped(s) \/ Page!TurnFails(s)
    PROVE  PageTypes'
<1>1. send[s].conv \in 1..Len(convs)
  BY DEF OwnerInv, TurnsThere, Page!TurnDone, Page!TurnStopped, Page!TurnFails
<1>2. PICK m \in Seq(PageRoles), failed \in BOOLEAN :
        Page!AfterTurn(s, Page!Turned(s, m, failed))
  BY <1>1, MessagesLeft DEF Page!TurnDone, Page!TurnStopped, Page!TurnFails
<1>3. PICK C \in Seq(PageConv) : C = Page!Turned(s, m, failed) /\ Len(C) = Len(convs)
  BY <1>1, TurnedIs
<1>4. QED
  BY <1>2, <1>3, AfterTurnTypes

(* Who waits for what.                                                     *)

\* None but these move.
OthersKept(movers, sends, sends2, resuming, resuming2, n, n2) ==
    /\ \A t \in Sends \ movers : sends2[t].phase = sends[t].phase
    /\ Nothing \notin movers => resuming2.phase = resuming.phase
    /\ n <= n2

LEMMA RightKept ==
    ASSUME NEW r, NEW sends, NEW sends2, NEW resuming, NEW resuming2, NEW n \in Nat, NEW n2 \in Nat,
           NEW movers, OthersKept(movers, sends, sends2, resuming, resuming2, n, n2),
           RequestRight(r, sends, resuming, n),
           Asks(r) => r.by \notin movers
    PROVE  RequestRight(r, sends2, resuming2, n2)
<1>1. r.kind \in {"create", "import"} \/ r.conv \in 1..n2
  BY DEF OthersKept, RequestRight
<1>2. QED
  BY <1>1 DEF OthersKept, RequestRight, Asks

LEMMA PostedRight ==
    ASSUME NEW q \in [Page!Engines -> Seq(PageRequest)], NEW e \in Page!Engines,
           NEW r \in PageRequest, NEW p, p = [q EXCEPT ![e] = Append(@, r)],
           NEW sends, NEW sends2, NEW resuming, NEW resuming2, NEW n \in Nat, NEW n2 \in Nat,
           NEW movers, OthersKept(movers, sends, sends2, resuming, resuming2, n, n2),
           QueuesRight(q, sends, resuming, n),
           NoneWaits(q, movers),
           RequestRight(r, sends2, resuming2, n2),
           Asks(r) => r.by \in movers
    PROVE  QueuesRight(p, sends2, resuming2, n2)
<1>1. /\ p \in [Page!Engines -> Seq(PageRequest)]
      /\ Len(q[e]) \in Nat /\ Len(p[e]) = Len(q[e]) + 1 /\ p[e][Len(q[e]) + 1] = r
      /\ \A f \in Page!Engines : \A i \in DOMAIN q[f] : p[f][i] = q[f][i]
      /\ \A f \in Page!Engines : \A i \in DOMAIN p[f] :
            i \in DOMAIN q[f] \/ (f = e /\ i = Len(q[e]) + 1)
  BY Posted
<1>2. ASSUME NEW f \in Page!Engines, NEW i \in DOMAIN q[f]
      PROVE  RequestRight(q[f][i], sends2, resuming2, n2)
  <2>1. RequestRight(q[f][i], sends, resuming, n)
    BY DEF QueuesRight
  <2>2. i \in Nat
    OBVIOUS
  <2>3. Asks(q[f][i]) => q[f][i].by \notin movers
    BY <2>2 DEF Waits, NoneWaits
  <2>4. QED
    BY <2>1, <2>3, RightKept
<1>3. ASSUME NEW f \in Page!Engines, NEW i \in DOMAIN p[f]
      PROVE  RequestRight(p[f][i], sends2, resuming2, n2)
  BY <1>1, <1>2
<1>4. ASSUME NEW f \in Page!Engines, NEW g \in Page!Engines, NEW i \in Nat, NEW j \in Nat,
             NEW s \in Sends \cup {Nothing}, Waits(p, f, i, s), Waits(p, g, j, s)
      PROVE  f = g /\ i = j
  <2>1. CASE s \in movers
    <3>a. ~Waits(q, f, i, s) /\ ~Waits(q, g, j, s)
      BY <2>1 DEF NoneWaits
    <3>1. f = e /\ i = Len(q[e]) + 1
      BY <1>1, <1>4, <3>a DEF Waits
    <3>2. g = e /\ j = Len(q[e]) + 1
      BY <1>1, <1>4, <3>a DEF Waits
    <3>3. QED
      BY <3>1, <3>2
  <2>2. CASE s \notin movers
    <3>1. Waits(q, f, i, s)
      BY <1>1, <1>4, <2>2 DEF Waits, NoneWaits
    <3>2. Waits(q, g, j, s)
      BY <1>1, <1>4, <2>2 DEF Waits, NoneWaits
    <3>3. QED
      BY <3>1, <3>2 DEF QueuesRight
  <2>3. QED
    BY <2>1, <2>2
<1>5. QED
  BY <1>3, <1>4 DEF QueuesRight

Put(q, e, r) == [q EXCEPT ![e] = Append(@, r)]

LEMMA PutRight ==
    ASSUME NEW q \in [Page!Engines -> Seq(PageRequest)], NEW e \in Page!Engines,
           NEW r \in PageRequest,
           NEW sends, NEW sends2, NEW resuming, NEW resuming2, NEW n \in Nat, NEW n2 \in Nat,
           NEW movers, OthersKept(movers, sends, sends2, resuming, resuming2, n, n2),
           QueuesRight(q, sends, resuming, n), NoneWaits(q, movers),
           RequestRight(r, sends2, resuming2, n2), Asks(r) => r.by \in movers
    PROVE  QueuesRight(Put(q, e, r), sends2, resuming2, n2)
<1> DEFINE p == Put(q, e, r)
<1>1. p = [q EXCEPT ![e] = Append(@, r)]
  BY DEF Put
<1> HIDE DEF p
<1>2. QED
  BY <1>1, PostedRight DEF p

LEMMA ServedRight ==
    ASSUME NEW q \in [Page!Engines -> Seq(PageRequest)], NEW e \in Page!Engines,
           q[e] # <<>>, NEW p, p = [q EXCEPT ![e] = Tail(@)],
           NEW sends, NEW sends2, NEW resuming, NEW resuming2, NEW n \in Nat, NEW n2 \in Nat,
           NEW movers, OthersKept(movers, sends, sends2, resuming, resuming2, n, n2),
           QueuesRight(q, sends, resuming, n),
           OnlyAt(q, e, movers)
    PROVE  /\ QueuesRight(p, sends2, resuming2, n2)
           /\ NoneWaits(p, movers)
<1>1. /\ p \in [Page!Engines -> Seq(PageRequest)]
      /\ \A i \in DOMAIN p[e] : i + 1 \in DOMAIN q[e] /\ p[e][i] = q[e][i + 1]
      /\ \A f \in Page!Engines : f # e => p[f] = q[f]
  BY TakenOff
<1>2. \A f \in Page!Engines : \A i \in DOMAIN p[f] : i \in Nat \ {0}
  BY <1>1
<1>3. ASSUME NEW f \in Page!Engines, NEW i \in DOMAIN p[f]
      PROVE  \E j \in DOMAIN q[f] : /\ p[f][i] = q[f][j] /\ j \in Nat
                                    /\ j = (IF f = e THEN i + 1 ELSE i)
  BY <1>1, <1>2
<1>4. ASSUME NEW f \in Page!Engines, NEW i \in DOMAIN p[f]
      PROVE  /\ RequestRight(p[f][i], sends2, resuming2, n2)
             /\ Asks(p[f][i]) => p[f][i].by \notin movers
  <2>1. PICK j \in DOMAIN q[f] : /\ p[f][i] = q[f][j] /\ j \in Nat
                                 /\ j = (IF f = e THEN i + 1 ELSE i)
    BY <1>3
  <2>2. ~(f = e /\ j = 1)
    BY <1>2, <2>1
  <2>3. RequestRight(q[f][j], sends, resuming, n)
    BY DEF QueuesRight
  <2>4. Asks(q[f][j]) => q[f][j].by \notin movers
    BY <2>1, <2>2 DEF Waits, NoneWaits, OnlyAt
  <2>5. QED
    BY <2>1, <2>3, <2>4, RightKept
<1>5. ASSUME NEW f \in Page!Engines, NEW g \in Page!Engines, NEW i \in Nat, NEW j \in Nat,
             NEW s \in Sends \cup {Nothing}, Waits(p, f, i, s), Waits(p, g, j, s)
      PROVE  f = g /\ i = j
  <2>1. i \in DOMAIN p[f] /\ j \in DOMAIN p[g]
    BY <1>5 DEF Waits, NoneWaits, OnlyAt
  <2>2. PICK k \in DOMAIN q[f] : /\ p[f][i] = q[f][k] /\ k \in Nat
                                 /\ k = (IF f = e THEN i + 1 ELSE i)
    BY <1>3, <2>1
  <2>3. PICK l \in DOMAIN q[g] : /\ p[g][j] = q[g][l] /\ l \in Nat
                                 /\ l = (IF g = e THEN j + 1 ELSE j)
    BY <1>3, <2>1
  <2>4. Waits(q, f, k, s) /\ Waits(q, g, l, s)
    BY <1>5, <2>2, <2>3 DEF Waits, NoneWaits, OnlyAt
  <2>5. f = g /\ k = l
    BY <2>2, <2>3, <2>4 DEF QueuesRight
  <2>6. QED
    BY <2>2, <2>3, <2>5
<1>6. NoneWaits(p, movers)
  BY <1>4 DEF Waits, NoneWaits, OnlyAt
<1>7. QED
  BY <1>4, <1>5, <1>6 DEF QueuesRight

\* The requests but the first of an engine.
Taken(q, e) == [q EXCEPT ![e] = Tail(@)]

LEMMA TakenRight ==
    ASSUME NEW q \in [Page!Engines -> Seq(PageRequest)], NEW e \in Page!Engines, q[e] # <<>>,
           NEW sends, NEW sends2, NEW resuming, NEW resuming2, NEW n \in Nat, NEW n2 \in Nat,
           NEW movers, OthersKept(movers, sends, sends2, resuming, resuming2, n, n2),
           QueuesRight(q, sends, resuming, n), OnlyAt(q, e, movers)
    PROVE  QueuesRight(Taken(q, e), sends2, resuming2, n2)
<1> DEFINE p == Taken(q, e)
<1>1. p = [q EXCEPT ![e] = Tail(@)]
  BY DEF Taken
<1> HIDE DEF p
<1>2. QED
  BY <1>1, ServedRight DEF p

LEMMA SameRight ==
    ASSUME NEW q \in [Page!Engines -> Seq(PageRequest)],
           NEW sends, NEW sends2, NEW resuming, NEW resuming2, NEW n \in Nat, NEW n2 \in Nat,
           NEW movers, OthersKept(movers, sends, sends2, resuming, resuming2, n, n2),
           QueuesRight(q, sends, resuming, n),
           NoneWaits(q, movers)
    PROVE  QueuesRight(q, sends2, resuming2, n2)
<1>1. ASSUME NEW f \in Page!Engines, NEW i \in DOMAIN q[f]
      PROVE  RequestRight(q[f][i], sends2, resuming2, n2)
  <2>1. RequestRight(q[f][i], sends, resuming, n) /\ i \in Nat
    BY DEF QueuesRight
  <2>2. Asks(q[f][i]) => q[f][i].by \notin movers
    BY <2>1 DEF Waits, NoneWaits
  <2>3. QED
    BY <2>1, <2>2, RightKept
<1>2. QED
  BY <1>1 DEF QueuesRight

\* Who is not asking for anything waits for nothing.
LEMMA NotWaiting ==
    ASSUME NEW q, NEW sends, NEW resuming, NEW n, QueuesRight(q, sends, resuming, n),
           NEW s \in Sends \cup {Nothing},
           IF s = Nothing THEN resuming.phase # "asked"
           ELSE sends[s].phase \notin {"creating", "exporting"}
    PROVE  NoneWaits(q, {s})
<1>1. SUFFICES ASSUME NEW f \in Page!Engines, NEW i \in Nat, Waits(q, f, i, s)
               PROVE  FALSE
  BY DEF NoneWaits
<1>2. RequestRight(q[f][i], sends, resuming, n)
  BY <1>1 DEF QueuesRight, Waits
<1>3. QED
  BY <1>1, <1>2, PageSets DEF RequestRight, Waits, Asks

\* Who is being served waits for that alone.
LEMMA WaitsThere ==
    ASSUME NEW q \in [Page!Engines -> Seq(PageRequest)], NEW sends, NEW resuming, NEW n,
           QueuesRight(q, sends, resuming, n),
           NEW e \in Page!Engines, NEW s \in Sends \cup {Nothing}, Waits(q, e, 1, s)
    PROVE  OnlyAt(q, e, {s})
BY DEF QueuesRight, OnlyAt

LEMMA Writers ==
    ASSUME NEW w \in Seq(PageWrite)
    PROVE  \A i \in 1..Len(w) : w[i].by \in Sends \cup {Nothing}
<1>1. \A i \in 1..Len(w) : w[i] \in PageWrite
  OBVIOUS
<1>2. QED
  BY <1>1 DEF PageWrite

LEMMA WritesKept ==
    ASSUME NEW w \in Seq(PageWrite), NEW sends, NEW sends2, WritesRight(w, sends),
           \A s \in Sends : sends[s].phase = "putting" => sends2[s].phase = "putting"
    PROVE  /\ WritesRight(w, sends2)
           /\ WritesRight(Append(w, Page!Delete), sends2)
<1>1. \A i \in 1..Len(w) : w[i].by \in Sends \cup {Nothing}
  BY Writers
<1>2. WritesRight(w, sends2)
  BY <1>1 DEF WritesRight
<1>3. PICK d \in PageWrite : d = Page!Delete
  BY DEF Page!Delete, PageWrite
<1>4. d.by = Nothing
  BY <1>3 DEF Page!Delete
<1>5. WritesRight(Append(w, d), sends2)
  <2>1. Len(w) \in Nat /\ Len(Append(w, d)) = Len(w) + 1 /\ Append(w, d)[Len(w) + 1] = d
        /\ \A i \in 1..Len(w) : Append(w, d)[i] = w[i]
    OBVIOUS
  <2>2. \A i \in 1..(Len(w) + 1) : i \in 1..Len(w) \/ i = Len(w) + 1
    BY <2>1
  <2>3. QED
    BY <1>2, <1>4, <2>1, <2>2 DEF WritesRight
<1>6. QED
  BY <1>2, <1>3, <1>5

LEMMA WritesPut ==
    ASSUME NEW w \in Seq(PageWrite), NEW sends, NEW sends2, WritesRight(w, sends),
           NEW s \in Sends, sends[s].phase # "putting", sends2[s].phase = "putting",
           NEW d \in PageWrite, d.by = s,
           \A t \in Sends \ {s} : sends2[t].phase = sends[t].phase
    PROVE  WritesRight(Append(w, d), sends2)
<1>1. \A i \in 1..Len(w) : w[i].by \in Sends \cup {Nothing}
  BY Writers
<1>2. \A i \in 1..Len(w) : w[i].by # s
  BY PageSets DEF WritesRight
<1>3. Len(w) \in Nat /\ Len(Append(w, d)) = Len(w) + 1 /\ Append(w, d)[Len(w) + 1] = d
      /\ \A i \in 1..Len(w) : Append(w, d)[i] = w[i]
  OBVIOUS
<1>4. \A i \in 1..(Len(w) + 1) : i \in 1..Len(w) \/ i = Len(w) + 1
  BY <1>3
<1>5. QED
  BY <1>1, <1>2, <1>3, <1>4 DEF WritesRight

LEMMA WritesDone ==
    ASSUME NEW w \in Seq(PageWrite), NEW sends, NEW sends2, WritesRight(w, sends), w # <<>>,
           \A t \in Sends : w[1].by # t => sends2[t].phase = sends[t].phase,
           NEW v \in Seq(PageWrite), Len(v) = Len(w) - 1, \A i \in 1..Len(v) : v[i] = w[i + 1]
    PROVE  WritesRight(v, sends2)
<1>1. \A i \in 1..Len(w) : w[i].by \in Sends \cup {Nothing}
  BY Writers
<1>2. Len(w) \in Nat \ {0}
  OBVIOUS
<1>3. \A i \in 1..Len(v) : i \in Nat /\ i + 1 \in 1..Len(w) /\ i + 1 # 1
  BY <1>2
<1>4. 1 \in 1..Len(w)
  BY <1>2
<1>5. \A i \in 1..Len(v) : v[i].by # Nothing => v[i].by # w[1].by /\ v[i].by \in Sends
  BY <1>1, <1>3, <1>4 DEF WritesRight
<1>6. \A i \in 1..Len(v) : v[i].by # Nothing => sends2[v[i].by].phase = "putting"
  BY <1>3, <1>5 DEF WritesRight
<1>7. ASSUME NEW i \in 1..Len(v), NEW j \in 1..Len(v), v[i].by # Nothing, v[i].by = v[j].by
      PROVE  i = j
  <2>1. i + 1 \in 1..Len(w) /\ j + 1 \in 1..Len(w) /\ w[i + 1].by # Nothing
        /\ w[i + 1].by = w[j + 1].by
    BY <1>3, <1>7
  <2>2. i + 1 = j + 1
    BY <2>1 DEF WritesRight
  <2>3. QED
    BY <1>3, <2>2
<1>8. QED
  BY <1>6, <1>7 DEF WritesRight

\* A step that moves nobody.
LEMMA OwnerSame ==
    ASSUME PageTypes, OwnerInv, PageTypes',
           UNCHANGED <<requests, resume>>, Len(convs') = Len(convs),
           card' = card \/ card' = Nothing,
           writes' = writes \/ writes' = Append(writes, Page!Delete),
           \A s \in Sends : send'[s].phase = send[s].phase /\ send'[s].conv = send[s].conv
    PROVE  OwnerInv'
<1>1. TurnsThere' /\ CardTaken'
  BY DEF OwnerInv, TurnsThere, CardTaken
<1>2. requests \in [Page!Engines -> Seq(PageRequest)] /\ Len(convs) \in Nat
      /\ writes \in Seq(PageWrite)
  BY DEF PageTypes
<1>3. OthersKept({}, send, send', resume, resume', Len(convs), Len(convs'))
  BY <1>2 DEF OthersKept
<1>4. QueuesRight(requests, send', resume', Len(convs'))
  <2>1. NoneWaits(requests, {})
    BY DEF NoneWaits
  <2>2. QED
    BY <1>2, <1>3, <2>1, SameRight DEF OwnerInv
<1>5. WritesRight(writes', send')
  BY <1>2, WritesKept DEF OwnerInv
<1>6. QED
  BY <1>1, <1>4, <1>5 DEF OwnerInv

LEMMA QuietOwner ==
    ASSUME PageTypes, OwnerInv, PageTypes',
           \/ \E l \in Loads : \/ Page!ModelChange(l) \/ Page!InitDone(l)
                               \/ Page!LoadDone(l) \/ Page!LoadFails(l)
           \/ \E s \in Sends : \/ Page!Chunk(s) \/ Page!Stop(s) \/ Page!Saving(s)
                               \/ Page!Throw(s) \/ Page!Release(s)
           \/ Page!Discard
    PROVE  OwnerInv'
<1>1. CASE \E l \in Loads : \/ Page!ModelChange(l) \/ Page!InitDone(l)
                            \/ Page!LoadDone(l) \/ Page!LoadFails(l)
  <2>1. UNCHANGED <<card, send, resume, requests, convs, writes>>
    BY <1>1 DEF Page!ModelChange, Page!loadModelById, Page!InitDone, Page!LoadDone, Page!LoadFails,
       Page!page, Page!worker, Page!slot
  <2>2. QED
    BY <2>1, OwnerSame
<1>2. CASE \E s \in Sends : \/ Page!Chunk(s) \/ Page!Stop(s) \/ Page!Saving(s)
                            \/ Page!Throw(s) \/ Page!Release(s)
  <2>1. UNCHANGED <<card, resume, requests, convs, writes>>
    BY <1>2 DEF Page!Chunk, Page!Stop, Page!Saving, Page!Throw, Page!Release,
       Page!page, Page!worker, Page!slot
  <2>2. PICK s \in Sends : \/ send' = send
                           \/ send' = [send EXCEPT ![s].got = TRUE]
                           \/ send' = [send EXCEPT ![s].stop = TRUE]
    BY <1>2 DEF Page!Chunk, Page!Stop, Page!Saving, Page!Throw, Page!Release
  <2>a. send \in [Sends -> SendState] /\ \A t \in Sends : send[t] \in SendState
    BY DEF PageTypes
  <2>b. /\ [send[s] EXCEPT !.got = TRUE].phase = send[s].phase
        /\ [send[s] EXCEPT !.got = TRUE].conv = send[s].conv
        /\ [send[s] EXCEPT !.stop = TRUE].phase = send[s].phase
        /\ [send[s] EXCEPT !.stop = TRUE].conv = send[s].conv
    BY <2>a DEF SendState
  <2>3. \A t \in Sends : send'[t].phase = send[t].phase /\ send'[t].conv = send[t].conv
    BY <2>2, <2>a, <2>b
  <2>4. QED
    BY <2>1, <2>3, OwnerSame
<1>3. CASE Page!Discard
  <2>1. UNCHANGED <<send, resume, requests, convs>> /\ card' = Nothing
        /\ writes' = Append(writes, Page!Delete)
    BY <1>3 DEF Page!Discard, Page!worker
  <2>2. QED
    BY <2>1, OwnerSame
<1>4. QED
  BY <1>1, <1>2, <1>3

\* A send goes on to its next await.
LEMMA PhaseSet ==
    ASSUME PageTypes, NEW s \in Sends, NEW phase,
           send' = [send EXCEPT ![s].phase = phase]
    PROVE  /\ send'[s].phase = phase /\ send'[s].conv = send[s].conv
           /\ send'[s].mixed = send[s].mixed
           /\ \A t \in Sends \ {s} : send'[t] = send[t]
<1>1. send \in [Sends -> SendState] /\ send[s] \in SendState
  BY DEF PageTypes
<1>2. /\ [send[s] EXCEPT !.phase = phase].phase = phase
      /\ [send[s] EXCEPT !.phase = phase].conv = send[s].conv
      /\ [send[s] EXCEPT !.phase = phase].mixed = send[s].mixed
  BY <1>1 DEF SendState
<1>3. QED
  BY <1>1, <1>2

LEMMA BeginIs ==
    ASSUME PageTypes, NEW s \in Sends, NEW c, NEW C, Page!BeginTurn(s, c, C)
    PROVE  /\ send'[s].phase = "turn" /\ send'[s].conv = c
           /\ (Page!InTurn # {}) => send'[s].mixed
           /\ \A t \in Sends \ {s} : /\ send'[t].phase = send[t].phase
                                     /\ send'[t].conv = send[t].conv
                                     /\ t \in Page!InTurn => send'[t].mixed
                                     /\ t \notin Page!InTurn => send'[t] = send[t]
<1>1. \A t \in Sends : send[t] \in SendState
  BY DEF PageTypes
<1> DEFINE own == [Page!NoSend EXCEPT !.phase = "turn", !.conv = c, !.engine = pageEngine,
                                      !.mixed = Page!InTurn # {}]
<1>2. send' = [t \in Sends |-> IF t = s THEN own
                               ELSE IF t \in Page!InTurn THEN [send[t] EXCEPT !.mixed = TRUE]
                               ELSE send[t]]
  BY DEF Page!BeginTurn
<1>3. own.phase = "turn" /\ own.conv = c /\ ((Page!InTurn # {}) => own.mixed)
  BY DEF Page!NoSend
<1>4. \A t \in Sends : /\ [send[t] EXCEPT !.mixed = TRUE].phase = send[t].phase
                       /\ [send[t] EXCEPT !.mixed = TRUE].conv = send[t].conv
                       /\ [send[t] EXCEPT !.mixed = TRUE].mixed
  BY <1>1 DEF SendState
<1> HIDE DEF own
<1>5. QED
  BY <1>2, <1>3, <1>4

\* A send that is not about to put anything moves.
LEMMA MovesWrites ==
    ASSUME PageTypes, OwnerInv, NEW s \in Sends, send[s].phase # "putting",
           \A t \in Sends \ {s} : send'[t].phase = send[t].phase, writes' = writes
    PROVE  WritesRight(writes', send')
<1>1. writes \in Seq(PageWrite)
  BY DEF PageTypes
<1>2. QED
  BY <1>1, WritesKept DEF OwnerInv

LEMMA PostedOwner ==
    ASSUME PageTypes, OwnerInv, PageTypes', NEW s \in Sends \cup {Nothing},
           NEW e \in Page!Engines, NEW r \in PageRequest,
           requests' = [requests EXCEPT ![e] = Append(@, r)],
           OthersKept({s}, send, send', resume, resume', Len(convs), Len(convs')),
           NoneWaits(requests, {s}),
           RequestRight(r, send', resume', Len(convs')),
           Asks(r) => r.by = s
    PROVE  QueuesRight(requests', send', resume', Len(convs'))
<1>1. requests \in [Page!Engines -> Seq(PageRequest)] /\ Len(convs) \in Nat /\ Len(convs') \in Nat
  BY DEF PageTypes
<1>2. QueuesRight(requests, send, resume, Len(convs))
  BY DEF OwnerInv
<1>3. Asks(r) => r.by \in {s}
  OBVIOUS
<1>4. requests' = Put(requests, e, r)
  BY DEF Put
<1>5. QueuesRight(Put(requests, e, r), send', resume', Len(convs'))
  BY <1>1, <1>2, <1>3, PutRight
<1>6. QED
  BY <1>4, <1>5

LEMMA SendOwner ==
    ASSUME PageTypes, OwnerInv, PageTypes', NEW s \in Sends, Page!Send(s)
    PROVE  OwnerInv'
<1>1. UNCHANGED <<resume, card, writes>> /\ send[s].phase = "idle"
      /\ requests \in [Page!Engines -> Seq(PageRequest)] /\ pageEngine \in Page!Engines
      /\ Len(convs) \in Nat
  BY DEF Page!Send, Page!slot, PageTypes
<1>2. CardTaken'
  BY <1>1 DEF OwnerInv, CardTaken
<1>3. NoneWaits(requests, {s})
  BY <1>1, NotWaiting, PageSets DEF OwnerInv
<1>4. CASE conv # Nothing
  <2>1. Page!BeginTurn(s, conv, convs) /\ Page!Post(pageEngine, Page!Request("start", s, conv))
    BY <1>4 DEF Page!Send
  <2>2. conv \in 1..Len(convs) /\ convs \in Seq(PageConv)
    BY <1>4 DEF PageTypes
  <2>3. Len(convs') = Len(convs)
    BY <2>1, <2>2, BeginTypes
  <2>4. /\ send'[s].phase = "turn" /\ send'[s].conv = conv
        /\ \A t \in Sends \ {s} : send'[t].phase = send[t].phase /\ send'[t].conv = send[t].conv
    BY <2>1, BeginIs
  <2>5. TurnsThere'
    BY <2>2, <2>3, <2>4 DEF OwnerInv, TurnsThere
  <2> DEFINE r == Page!Request("start", s, conv)
  <2>6. r \in PageRequest /\ r.kind = "start" /\ r.conv = conv
    BY <2>2, RequestType DEF Page!Request
  <2>7. requests' = [requests EXCEPT ![pageEngine] = Append(@, r)]
    BY <2>1 DEF Page!Post
  <2> HIDE DEF r
  <2>8. OthersKept({s}, send, send', resume, resume', Len(convs), Len(convs'))
    BY <1>1, <2>3, <2>4 DEF OthersKept
  <2>9. RequestRight(r, send', resume', Len(convs'))
    BY <2>2, <2>3, <2>6 DEF RequestRight
  <2>10. QueuesRight(requests', send', resume', Len(convs'))
    BY <1>1, <1>3, <2>6, <2>7, <2>8, <2>9, PostedOwner DEF Asks
  <2>11. WritesRight(writes', send')
    BY <1>1, <2>4, MovesWrites
  <2>12. QED
    BY <1>2, <2>5, <2>10, <2>11 DEF OwnerInv
<1>5. CASE conv = Nothing
  <2>1. /\ send' = [send EXCEPT ![s] = [Page!NoSend EXCEPT !.phase = "creating"]]
        /\ Page!Post(pageEngine, Page!Request("create", s, Nothing))
        /\ UNCHANGED convs
    BY <1>5 DEF Page!Send
  <2>2. send \in [Sends -> SendState]
    BY DEF PageTypes
  <2>3. /\ send'[s].phase = "creating"
        /\ \A t \in Sends \ {s} : send'[t] = send[t]
    BY <2>1, <2>2 DEF Page!NoSend
  <2>4. TurnsThere'
    BY <2>1, <2>3 DEF OwnerInv, TurnsThere
  <2> DEFINE r == Page!Request("create", s, Nothing)
  <2>5. r \in PageRequest /\ r.kind = "create" /\ r.by = s
    BY RequestType DEF Page!Request
  <2>6. requests' = [requests EXCEPT ![pageEngine] = Append(@, r)]
    BY <2>1 DEF Page!Post
  <2> HIDE DEF r
  <2>7. OthersKept({s}, send, send', resume, resume', Len(convs), Len(convs'))
    BY <1>1, <2>1, <2>3 DEF OthersKept
  <2>8. RequestRight(r, send', resume', Len(convs'))
    BY <2>3, <2>5 DEF RequestRight
  <2>9. QueuesRight(requests', send', resume', Len(convs'))
    BY <1>1, <1>3, <2>5, <2>6, <2>7, <2>8, PostedOwner
  <2>10. WritesRight(writes', send')
    BY <1>1, <2>3, MovesWrites
  <2>11. QED
    BY <1>2, <2>4, <2>9, <2>10 DEF OwnerInv
<1>6. QED
  BY <1>4, <1>5

LEMMA TurnOwner ==
    ASSUME PageTypes, OwnerInv, PageTypes', NEW s \in Sends, send[s].phase = "turn",
           NEW C \in Seq(PageConv), Len(C) = Len(convs), Page!AfterTurn(s, C)
    PROVE  OwnerInv'
<1>1. UNCHANGED <<resume, card, writes>> /\ convs' = C
      /\ requests \in [Page!Engines -> Seq(PageRequest)] /\ pageEngine \in Page!Engines
      /\ Len(convs) \in Nat
  BY DEF Page!AfterTurn, Page!slot, PageTypes
<1>2. CardTaken'
  BY <1>1 DEF OwnerInv, CardTaken
<1>3. NoneWaits(requests, {s})
  BY NotWaiting, PageSets DEF OwnerInv
<1>4. CASE conv # Nothing /\ loaded # Nothing
  <2>1. /\ send' = [send EXCEPT ![s].phase = "exporting"]
        /\ Page!Post(pageEngine, Page!Request("export", s, conv))
    BY <1>4 DEF Page!AfterTurn, Page!ToSave
  <2>2. conv \in 1..Len(convs)
    BY <1>4 DEF PageTypes
  <2>3. send'[s].phase = "exporting" /\ \A t \in Sends \ {s} : send'[t] = send[t]
    BY <2>1, PhaseSet
  <2>4. TurnsThere'
    BY <1>1, <2>3 DEF OwnerInv, TurnsThere
  <2> DEFINE r == Page!Request("export", s, conv)
  <2>5. r \in PageRequest /\ r.kind = "export" /\ r.by = s /\ r.conv = conv
    BY ConvType, RequestType DEF Page!Request
  <2>6. requests' = [requests EXCEPT ![pageEngine] = Append(@, r)]
    BY <2>1 DEF Page!Post
  <2> HIDE DEF r
  <2>7. OthersKept({s}, send, send', resume, resume', Len(convs), Len(convs'))
    BY <1>1, <2>3 DEF OthersKept
  <2>8. RequestRight(r, send', resume', Len(convs'))
    BY <1>1, <2>2, <2>3, <2>5 DEF RequestRight
  <2>9. QueuesRight(requests', send', resume', Len(convs'))
    BY <1>1, <1>3, <2>5, <2>6, <2>7, <2>8, PostedOwner
  <2>10. WritesRight(writes', send')
    BY <1>1, <2>3, MovesWrites
  <2>11. QED
    BY <1>2, <2>4, <2>9, <2>10 DEF OwnerInv
<1>5. CASE ~(conv # Nothing /\ loaded # Nothing)
  <2>1. send' = [send EXCEPT ![s].phase = "idle"] /\ UNCHANGED requests
    BY <1>5 DEF Page!AfterTurn, Page!ToSave
  <2>2. send'[s].phase = "idle" /\ \A t \in Sends \ {s} : send'[t] = send[t]
    BY <2>1, PhaseSet
  <2>3. TurnsThere'
    BY <1>1, <2>2 DEF OwnerInv, TurnsThere
  <2>4. OthersKept({s}, send, send', resume, resume', Len(convs), Len(convs'))
    BY <1>1, <2>2 DEF OthersKept
  <2>5. QueuesRight(requests', send', resume', Len(convs'))
    BY <1>1, <1>3, <2>1, <2>4, SameRight DEF OwnerInv
  <2>6. WritesRight(writes', send')
    BY <1>1, <2>2, MovesWrites
  <2>7. QED
    BY <1>2, <2>3, <2>5, <2>6 DEF OwnerInv
<1>6. QED
  BY <1>4, <1>5

LEMMA ServedOwner ==
    ASSUME PageTypes, OwnerInv, PageTypes', NEW e \in Page!Engines, requests[e] # <<>>,
           NEW movers, OnlyAt(requests, e, movers),
           OthersKept(movers, send, send', resume, resume', Len(convs), Len(convs'))
    PROVE  QueuesRight(Page!Served(e), send', resume', Len(convs'))
<1>1. requests \in [Page!Engines -> Seq(PageRequest)] /\ Len(convs) \in Nat /\ Len(convs') \in Nat
  BY DEF PageTypes
<1>2. QueuesRight(requests, send, resume, Len(convs))
  BY DEF OwnerInv
<1>3. Page!Served(e) = Taken(requests, e)
  BY DEF Taken, Page!Served
<1>4. QueuesRight(Taken(requests, e), send', resume', Len(convs'))
  BY <1>1, <1>2, TakenRight
<1>5. QED
  BY <1>3, <1>4

\* A send that is served waits for that.
LEMMA SendServed ==
    ASSUME PageTypes, OwnerInv, NEW e \in Page!Engines, NEW s \in Sends, NEW kind,
           Page!Serving(e, kind, s)
    PROVE  /\ requests[e] # <<>>
           /\ requests[e][1] = Head(requests[e]) /\ requests[e][1] \in PageRequest
           /\ requests[e][1].kind = kind /\ requests[e][1].by = s
           /\ RequestRight(requests[e][1], send, resume, Len(convs))
           /\ kind \in {"create", "export"} => OnlyAt(requests, e, {s})
<1>1. requests[e] # <<>>
  BY DEF Page!Serving
<1>2. /\ 1 \in DOMAIN requests[e] /\ requests[e][1] = Head(requests[e])
      /\ requests[e][1] \in PageRequest
  BY <1>1, ServedIs
<1>3. requests[e][1].kind = kind /\ requests[e][1].by = s
  BY <1>2 DEF Page!Serving
<1>4. RequestRight(requests[e][1], send, resume, Len(convs))
  BY <1>2 DEF OwnerInv, QueuesRight
<1>5. ASSUME kind \in {"create", "export"}
      PROVE  OnlyAt(requests, e, {s})
  <2>1. Waits(requests, e, 1, s)
    BY <1>2, <1>3, <1>5 DEF Waits, Asks
  <2>2. requests \in [Page!Engines -> Seq(PageRequest)]
        /\ QueuesRight(requests, send, resume, Len(convs))
    BY DEF PageTypes, OwnerInv
  <2>3. QED
    BY <2>1, <2>2, WaitsThere
<1>6. QED
  BY <1>1, <1>2, <1>3, <1>4, <1>5

LEMMA CreateOwner ==
    ASSUME PageTypes, OwnerInv, PageTypes', NEW e \in Page!Engines, NEW s \in Sends,
           Page!Create(e, s)
    PROVE  OwnerInv'
<1>1. UNCHANGED <<card, resume, writes>> /\ Page!Serving(e, "create", s)
  BY DEF Page!Create, Page!slot
<1>2. requests[e] # <<>> /\ OnlyAt(requests, e, {s}) /\ send[s].phase = "creating"
  BY <1>1, SendServed DEF RequestRight
<1>3. CardTaken'
  BY <1>1 DEF OwnerInv, CardTaken
<1>4. CASE Page!HandleOf(e)
  <2>1. /\ conv' = Len(convs) + 1
        /\ Page!BeginTurn(s, conv', Page!Created(e, <<>>, FALSE))
        /\ requests' = [Page!Served(e) EXCEPT ![pageEngine] =
                          Append(@, Page!Request("start", s, conv'))]
    BY <1>4 DEF Page!Create
  <2>2. Len(convs) \in Nat /\ Len(convs') = Len(convs) + 1
    <3> DEFINE C == Page!Created(e, <<>>, FALSE)
    <3>1. C \in Seq(PageConv) /\ Len(convs) \in Nat /\ Len(C) = Len(convs) + 1
      <4>1. <<>> \in Seq(PageRoles) /\ FALSE \in BOOLEAN
        OBVIOUS
      <4>2. QED
        BY <4>1, CreatedIs
    <3>2. Page!BeginTurn(s, conv', C)
      BY <2>1
    <3> HIDE DEF C
    <3>3. conv' \in 1..Len(C)
      <4>1. conv' = Len(convs) + 1
        BY <2>1
      <4>2. QED
        BY <3>1, <4>1
    <3>4. Len(convs') = Len(C)
      BY <3>1, <3>2, <3>3, BeginTypes
    <3>5. QED
      BY <3>1, <3>4
  <2>3. /\ send'[s].phase = "turn" /\ send'[s].conv = conv'
        /\ \A t \in Sends \ {s} : send'[t].phase = send[t].phase /\ send'[t].conv = send[t].conv
    BY <2>1, BeginIs
  <2>4. conv' \in 1..Len(convs')
    <3>1. conv' = Len(convs) + 1
      BY <2>1
    <3>2. QED
      BY <2>2, <3>1
  <2>5. TurnsThere'
    BY <2>2, <2>3, <2>4 DEF OwnerInv, TurnsThere
  <2>6. OthersKept({s}, send, send', resume, resume', Len(convs), Len(convs'))
    BY <1>1, <2>2, <2>3 DEF OthersKept
  <2>7. QueuesRight(Page!Served(e), send', resume', Len(convs'))
    BY <1>2, <2>6, ServedOwner
  <2> DEFINE r == Page!Request("start", s, conv')
  <2>8. r \in PageRequest /\ r.kind = "start" /\ r.conv = conv'
    BY <2>4, RequestType DEF Page!Request
  <2>9. requests' = Put(Page!Served(e), pageEngine, r)
    BY <2>1 DEF Put
  <2> HIDE DEF r
  <2>10. RequestRight(r, send', resume', Len(convs'))
    BY <2>4, <2>8 DEF RequestRight
  <2>11. QueuesRight(Put(Page!Served(e), pageEngine, r), send', resume', Len(convs'))
    <3>1. Page!Served(e) \in [Page!Engines -> Seq(PageRequest)]
      BY <1>2, ServedIs
    <3>2. pageEngine \in Page!Engines /\ Len(convs') \in Nat
      BY DEF PageTypes
    <3>3. OthersKept({}, send', send', resume', resume', Len(convs'), Len(convs'))
      BY <3>2 DEF OthersKept
    <3>4. NoneWaits(Page!Served(e), {}) /\ ~Asks(r)
      BY <2>8 DEF NoneWaits, Asks
    <3>5. QED
      BY <2>7, <2>8, <2>10, <3>1, <3>2, <3>3, <3>4, PutRight
  <2>12. WritesRight(writes', send')
    BY <1>1, <1>2, <2>3, MovesWrites
  <2>13. QED
    BY <1>3, <2>5, <2>9, <2>11, <2>12 DEF OwnerInv
<1>5. CASE ~Page!HandleOf(e)
  <2>1. send' = [send EXCEPT ![s].phase = "idle"] /\ requests' = Page!Served(e)
        /\ UNCHANGED convs
    BY <1>5 DEF Page!Create
  <2>2. send'[s].phase = "idle" /\ \A t \in Sends \ {s} : send'[t] = send[t]
    BY <2>1, PhaseSet
  <2>3. TurnsThere'
    BY <2>1, <2>2 DEF OwnerInv, TurnsThere
  <2>4. OthersKept({s}, send, send', resume, resume', Len(convs), Len(convs'))
    BY <1>1, <2>1, <2>2 DEF OthersKept, PageTypes
  <2>5. QueuesRight(Page!Served(e), send', resume', Len(convs'))
    BY <1>2, <2>4, ServedOwner
  <2>6. WritesRight(writes', send')
    BY <1>1, <1>2, <2>2, MovesWrites
  <2>7. QED
    BY <1>3, <2>1, <2>3, <2>5, <2>6 DEF OwnerInv
<1>6. QED
  BY <1>4, <1>5

LEMMA NoMove ==
    PageTypes => OthersKept({}, send, send, resume, resume, Len(convs), Len(convs))
BY DEF PageTypes, OthersKept

LEMMA StartOwner ==
    ASSUME PageTypes, OwnerInv, PageTypes', NEW e \in Page!Engines, NEW s \in Sends,
           Page!Start(e, s)
    PROVE  OwnerInv'
<1>1. UNCHANGED <<card, send, resume, convs, writes>> /\ requests' = Page!Served(e)
      /\ requests[e] # <<>>
  BY DEF Page!Start, Page!page, Page!slot, Page!Serving
<1>2. OnlyAt(requests, e, {})
  BY DEF OnlyAt
<1>3. OthersKept({}, send, send', resume, resume', Len(convs), Len(convs'))
  BY <1>1, NoMove
<1>4. QueuesRight(requests', send', resume', Len(convs'))
  BY <1>1, <1>2, <1>3, ServedOwner
<1>5. QED
  BY <1>1, <1>4 DEF OwnerInv, TurnsThere, CardTaken

LEMMA ExportOwner ==
    ASSUME PageTypes, OwnerInv, PageTypes', NEW e \in Page!Engines, NEW s \in Sends,
           Page!Export(e, s)
    PROVE  OwnerInv'
<1>1. UNCHANGED <<card, resume, convs>> /\ Page!Serving(e, "export", s)
      /\ requests' = Page!Served(e)
  BY DEF Page!Export
<1>2. requests[e] # <<>> /\ OnlyAt(requests, e, {s}) /\ send[s].phase = "exporting"
  BY <1>1, SendServed DEF RequestRight
<1>3. \/ /\ writes' = Append(writes, [blob |-> Page!Saved, by |-> s])
         /\ send' = [send EXCEPT ![s].phase = "putting"]
      \/ /\ writes' = writes
         /\ send' = [send EXCEPT ![s].phase = "idle"]
  BY DEF Page!Export
<1>4. send'[s].phase \in {"putting", "idle"} /\ \A t \in Sends \ {s} : send'[t] = send[t]
  BY <1>3, PhaseSet
<1>5. CardTaken' /\ TurnsThere'
  BY <1>1, <1>4 DEF OwnerInv, CardTaken, TurnsThere
<1>6. OthersKept({s}, send, send', resume, resume', Len(convs), Len(convs'))
  BY <1>1, <1>4 DEF OthersKept, PageTypes
<1>7. QueuesRight(requests', send', resume', Len(convs'))
  BY <1>1, <1>2, <1>6, ServedOwner
<1>8. WritesRight(writes', send')
  <2>1. CASE writes' = writes
    BY <1>2, <1>4, <2>1, MovesWrites
  <2>2. CASE /\ writes' = Append(writes, [blob |-> Page!Saved, by |-> s])
             /\ send' = [send EXCEPT ![s].phase = "putting"]
    <3>1. send'[s].phase = "putting"
      BY <2>2, PhaseSet
    <3>2. PICK d \in PageWrite : d = [blob |-> Page!Saved, by |-> s]
      BY DEF PageWrite
    <3>3. d.by = s
      BY <3>2
    <3>4. writes \in Seq(PageWrite) /\ WritesRight(writes, send) /\ writes' = Append(writes, d)
      BY <2>2, <3>2 DEF PageTypes, OwnerInv
    <3>5. WritesRight(Append(writes, d), send')
      BY <1>2, <1>4, <3>1, <3>3, <3>4, WritesPut
    <3>6. QED
      BY <3>4, <3>5
  <2>3. QED
    BY <1>3, <2>1, <2>2
<1>9. QED
  BY <1>5, <1>7, <1>8 DEF OwnerInv

LEMMA CommitOwner ==
    ASSUME PageTypes, OwnerInv, PageTypes', Page!Commit
    PROVE  OwnerInv'
<1>1. UNCHANGED <<card, resume, requests, convs>>
  BY CommitIs
<1>2. writes \in Seq(PageWrite) /\ writes # <<>> /\ WritesRight(writes, send)
  BY DEF PageTypes, OwnerInv, Page!Commit
<1>3. /\ writes[1].by \in Sends \cup {Nothing} /\ Len(writes) \in Nat \ {0}
      /\ writes' \in Seq(PageWrite) /\ Len(writes') = Len(writes) - 1
      /\ \A i \in 1..Len(writes') : writes'[i] = writes[i + 1]
  BY CommitIs DEF PageWrite
<1>4. \A t \in Sends : /\ writes[1].by # t => send'[t] = send[t]
                       /\ writes[1].by = t => send'[t].phase = "idle"
  <2>1. \A t \in Sends : [send[t] EXCEPT !.phase = "idle"].phase = "idle"
    BY DEF PageTypes, SendState
  <2>2. QED
    BY <2>1, CommitIs
<1>5. \A t \in Sends : writes[1].by = t => send[t].phase = "putting"
  BY <1>2, <1>3, PageSets DEF WritesRight
<1>6. CardTaken' /\ TurnsThere'
  BY <1>1, <1>4 DEF OwnerInv, CardTaken, TurnsThere
<1>7. OthersKept(Sends \cap {writes[1].by}, send, send', resume, resume', Len(convs), Len(convs'))
  BY <1>1, <1>4 DEF OthersKept, PageTypes
<1>8. NoneWaits(requests, Sends \cap {writes[1].by})
  <2>1. ASSUME NEW x \in Sends, writes[1].by = x
        PROVE  NoneWaits(requests, {x})
    <3>1. send[x].phase = "putting"
      BY <1>5, <2>1
    <3>2. QED
      BY <3>1, NotWaiting, PageSets DEF OwnerInv
  <2>2. QED
    BY <2>1 DEF NoneWaits
<1>9. QueuesRight(requests, send', resume', Len(convs'))
  <2>1. requests \in [Page!Engines -> Seq(PageRequest)] /\ Len(convs) \in Nat
        /\ Len(convs') \in Nat /\ QueuesRight(requests, send, resume, Len(convs))
    BY DEF PageTypes, OwnerInv
  <2>2. QED
    BY <1>7, <1>8, <2>1, SameRight
<1>10. WritesRight(writes', send')
  <2>1. \A t \in Sends : writes[1].by # t => send'[t].phase = send[t].phase
    BY <1>4
  <2>2. QED
    BY <1>2, <1>3, <2>1, WritesDone
<1>11. QED
  BY <1>1, <1>6, <1>9, <1>10 DEF OwnerInv

LEMMA ClearOwner ==
    ASSUME PageTypes, OwnerInv, PageTypes', NEW k \in Clears, Page!Clear(k)
    PROVE  OwnerInv'
<1>1. /\ UNCHANGED <<card, send, resume, convs, writes>>
      /\ conv # Nothing /\ pageEngine \in Page!Engines
      /\ Page!Post(pageEngine, Page!Request("dispose", k, conv))
  BY DEF Page!Clear, Page!page, Page!slot, PageTypes
<1>2. conv \in 1..Len(convs)
  BY <1>1 DEF PageTypes
<1> DEFINE r == Page!Request("dispose", k, conv)
<1>3. r \in PageRequest /\ r.kind = "dispose" /\ r.conv = conv
  BY ConvType, RequestType DEF Page!Request
<1>4. requests' = Put(requests, pageEngine, r)
  BY <1>1 DEF Put, Page!Post
<1> HIDE DEF r
<1>5. RequestRight(r, send, resume, Len(convs)) /\ ~Asks(r)
  BY <1>2, <1>3 DEF RequestRight, Asks
<1>6. NoneWaits(requests, {})
  BY DEF NoneWaits
<1>7. QueuesRight(Put(requests, pageEngine, r), send, resume, Len(convs))
  <2>1. requests \in [Page!Engines -> Seq(PageRequest)] /\ Len(convs) \in Nat
        /\ QueuesRight(requests, send, resume, Len(convs))
    BY DEF PageTypes, OwnerInv
  <2>2. QED
    BY <1>1, <1>3, <1>5, <1>6, <2>1, NoMove, PutRight
<1>8. QED
  BY <1>1, <1>4, <1>7 DEF OwnerInv, TurnsThere, CardTaken

LEMMA DisposeOwner ==
    ASSUME PageTypes, OwnerInv, PageTypes', NEW e \in Page!Engines, NEW k \in Clears,
           Page!Dispose(e, k)
    PROVE  OwnerInv'
<1>1. /\ UNCHANGED <<card, send, resume>>
      /\ requests' = Page!Served(e) /\ requests[e] # <<>>
      /\ writes' = Append(writes, Page!Delete)
  BY DEF Page!Dispose, Page!Serving
<1>2. DOMAIN convs' = DOMAIN convs
  BY DEF Page!Dispose
<1>3. Len(convs') = Len(convs)
  BY <1>2 DEF PageTypes
<1>4. OnlyAt(requests, e, {})
  BY DEF OnlyAt
<1>5. OthersKept({}, send, send', resume, resume', Len(convs), Len(convs'))
  BY <1>1, <1>3, NoMove
<1>6. QueuesRight(requests', send', resume', Len(convs'))
  BY <1>1, <1>4, <1>5, ServedOwner
<1>7. WritesRight(writes', send')
  BY <1>1, WritesKept DEF OwnerInv, PageTypes
<1>8. QED
  BY <1>1, <1>3, <1>6, <1>7 DEF OwnerInv, TurnsThere, CardTaken

LEMMA ReloadOwner ==
    ASSUME PageTypes, OwnerInv, PageTypes', Page!Reload
    PROVE  OwnerInv'
<1>1. /\ send' = [s \in Sends |-> Page!NoSend] /\ resume' = Page!NoResume
      /\ requests' = [e \in Page!Engines |-> <<>>] /\ writes' = <<>>
  BY DEF Page!Reload, PageTypes
<1>2. TurnsThere' /\ CardTaken'
  BY <1>1 DEF TurnsThere, CardTaken, Page!NoSend, Page!NoResume
<1>3. QueuesRight(requests', send', resume', Len(convs'))
  BY <1>1 DEF QueuesRight, Waits
<1>4. WritesRight(writes', send')
  BY <1>1 DEF WritesRight
<1>5. QED
  BY <1>2, <1>3, <1>4 DEF OwnerInv

\* The Resume handler moves, and waits for nothing before.
LEMMA HandlerMoves ==
    ASSUME PageTypes, OwnerInv, PageTypes', UNCHANGED <<send, convs, writes>>,
           resume.phase # "asked" \/ resume'.phase = resume.phase
    PROVE  /\ OthersKept({Nothing}, send, send', resume, resume', Len(convs), Len(convs'))
           /\ resume.phase # "asked" => NoneWaits(requests, {Nothing})
           /\ TurnsThere' /\ WritesRight(writes', send')
<1>1. OthersKept({Nothing}, send, send', resume, resume', Len(convs), Len(convs'))
  BY PageSets DEF OthersKept, PageTypes
<1>2. resume.phase # "asked" => NoneWaits(requests, {Nothing})
  BY NotWaiting DEF OwnerInv
<1>3. QED
  BY <1>1, <1>2 DEF OwnerInv, TurnsThere

LEMMA ResumeOwner ==
    ASSUME PageTypes, OwnerInv, PageTypes', NEW l \in Loads, Page!Resume(l)
    PROVE  OwnerInv'
<1>1. /\ UNCHANGED <<send, requests, convs, writes>> /\ card # Nothing /\ card' = Nothing
      /\ resume' = [phase |-> "loading", load |-> l, meta |-> card]
  BY DEF Page!Resume, Page!worker, Page!slot
<1>2. resume.phase # "asked"
  BY <1>1 DEF OwnerInv, CardTaken
<1>3. CardTaken'
  BY <1>1 DEF CardTaken, PageTypes
<1>4. /\ OthersKept({Nothing}, send, send', resume, resume', Len(convs), Len(convs'))
      /\ NoneWaits(requests, {Nothing}) /\ TurnsThere' /\ WritesRight(writes', send')
  BY <1>1, <1>2, HandlerMoves
<1>5. QueuesRight(requests, send', resume', Len(convs'))
  <2>1. requests \in [Page!Engines -> Seq(PageRequest)] /\ Len(convs) \in Nat
        /\ Len(convs') \in Nat /\ QueuesRight(requests, send, resume, Len(convs))
    BY DEF PageTypes, OwnerInv
  <2>2. QED
    BY <1>4, <2>1, SameRight
<1>6. QED
  BY <1>1, <1>3, <1>4, <1>5 DEF OwnerInv

LEMMA ResumeLoadedOwner ==
    ASSUME PageTypes, OwnerInv, PageTypes', Page!ResumeLoaded
    PROVE  OwnerInv'
<1>1. UNCHANGED <<card, send, convs, writes>> /\ resume.phase = "loading"
  BY DEF Page!ResumeLoaded, Page!page, Page!slot
<1>2. resume \in ResumeState
  BY DEF PageTypes
<1>3. /\ OthersKept({Nothing}, send, send', resume, resume', Len(convs), Len(convs'))
      /\ NoneWaits(requests, {Nothing}) /\ TurnsThere' /\ WritesRight(writes', send')
  BY <1>1, HandlerMoves
<1>4. requests \in [Page!Engines -> Seq(PageRequest)] /\ Len(convs) \in Nat
      /\ Len(convs') \in Nat /\ QueuesRight(requests, send, resume, Len(convs))
  BY DEF PageTypes, OwnerInv
<1>5. CASE load[resume.load].phase = "failed"
  <2>1. resume' = Page!NoResume /\ requests' = requests
    BY <1>5 DEF Page!ResumeLoaded
  <2>2. CardTaken'
    BY <2>1 DEF CardTaken, Page!NoResume
  <2>3. QueuesRight(requests, send', resume', Len(convs'))
    BY <1>3, <1>4, SameRight
  <2>4. QED
    BY <1>3, <2>1, <2>2, <2>3 DEF OwnerInv
<1>6. CASE load[resume.load].phase # "failed"
  <2>1. PICK r \in PageRequest, l \in Loads :
             /\ load[l].engine \in Page!Engines
             /\ r.kind \in {"create", "import"} /\ r.by = Nothing
             /\ requests' = [requests EXCEPT ![load[l].engine] = Append(@, r)]
             /\ resume' = [resume EXCEPT !.phase = "asked"]
    BY <1>6, AskedFor
  <2>2. resume'.phase = "asked" /\ resume'.meta = resume.meta /\ resume'.load = resume.load
    BY <1>2, <2>1 DEF ResumeState
  <2>3. CardTaken'
    BY <1>1, <2>2 DEF OwnerInv, CardTaken
  <2>4. requests' = Put(requests, load[l].engine, r)
    BY <2>1 DEF Put
  <2>5. RequestRight(r, send', resume', Len(convs')) /\ r.by \in {Nothing}
    BY <2>1, <2>2, PageSets DEF RequestRight
  <2>6. QueuesRight(Put(requests, load[l].engine, r), send', resume', Len(convs'))
    <3>1. PICK f \in Page!Engines : f = load[l].engine
      BY <2>1
    <3>2. QueuesRight(Put(requests, f, r), send', resume', Len(convs'))
      BY <1>3, <1>4, <2>5, PutRight
    <3>3. QED
      BY <3>1, <3>2
  <2>7. QED
    BY <1>3, <2>3, <2>4, <2>6 DEF OwnerInv
<1>7. QED
  BY <1>5, <1>6

LEMMA ResumedOwner ==
    ASSUME PageTypes, OwnerInv, PageTypes', NEW e \in Page!Engines, Page!Resumed(e)
    PROVE  OwnerInv'
<1>1. requests \in [Page!Engines -> Seq(PageRequest)] /\ Len(convs) \in Nat
      /\ Len(convs') \in Nat /\ QueuesRight(requests, send, resume, Len(convs))
  BY DEF PageTypes, OwnerInv
<1>2. UNCHANGED <<send, writes>>
      /\ (Page!Serving(e, "import", Nothing) \/ Page!Serving(e, "create", Nothing))
  BY ResumedCases DEF ResumedInto, AskedAgain, NotResumed
<1>3. /\ resume.phase = "asked" /\ requests[e] # <<>>
      /\ 1 \in DOMAIN requests[e] /\ Head(requests[e]) = requests[e][1]
  BY <1>2, WasAsked
<1>4. OnlyAt(requests, e, {Nothing})
  <2>1. Waits(requests, e, 1, Nothing)
    BY <1>2, <1>3 DEF Waits, Asks, Page!Serving
  <2>2. QED
    BY <1>1, <2>1, WaitsThere
<1>5. CASE ResumedInto(e) \/ NotResumed(e)
  <2>1. resume' = Page!NoResume /\ requests' = Page!Served(e)
    BY <1>5 DEF ResumedInto, NotResumed
  <2>2. Len(convs) <= Len(convs')
    <3>1. CASE ResumedInto(e)
      <4>1. resume.meta \in Slot
        BY <1>2, WasAsked
      <4>2. PICK m \in Seq(PageRoles), odd \in BOOLEAN :
              m = resume.meta.messages /\ odd = resume.meta.odd
        BY <4>1 DEF Slot
      <4>3. convs' = Page!Created(e, m, odd)
        BY <3>1, <4>2 DEF ResumedInto
      <4>4. Len(Page!Created(e, m, odd)) = Len(convs) + 1
        BY CreatedIs
      <4>5. QED
        BY <1>1, <4>3, <4>4
    <3>2. CASE NotResumed(e)
      BY <1>1, <3>2 DEF NotResumed
    <3>3. QED
      BY <1>5, <3>1, <3>2
  <2>3. OthersKept({Nothing}, send, send', resume, resume', Len(convs), Len(convs'))
    BY <1>2, <2>2 DEF OthersKept
  <2>4. QueuesRight(Page!Served(e), send', resume', Len(convs'))
    BY <1>3, <1>4, <2>3, ServedOwner
  <2>5. TurnsThere'
    BY <1>1, <1>2, <2>2 DEF OwnerInv, TurnsThere
  <2>6. CardTaken'
    BY <2>1 DEF CardTaken, Page!NoResume
  <2>7. QED
    BY <1>2, <2>1, <2>4, <2>5, <2>6 DEF OwnerInv
<1>6. CASE AskedAgain(e)
  <2>1. UNCHANGED <<card, resume, convs>>
    BY <1>6 DEF AskedAgain
  <2>2. CardTaken' /\ TurnsThere'
    BY <1>2, <2>1 DEF OwnerInv, CardTaken, TurnsThere
  <2>3. OnlyAt(requests, e, {Nothing}) /\ requests[e] # <<>>
    BY <1>3, <1>4
  <2>4. OthersKept({Nothing}, send, send', resume, resume', Len(convs), Len(convs'))
    BY <1>1, <1>2, <2>1, NoMove DEF OthersKept
  <2>5. QueuesRight(Page!Served(e), send', resume', Len(convs'))
        /\ NoneWaits(Page!Served(e), {Nothing})
    <3> DEFINE p == Page!Served(e)
    <3>1. p = [requests EXCEPT ![e] = Tail(@)]
      BY DEF Page!Served
    <3> HIDE DEF p
    <3>2. OnlyAt(requests, e, {Nothing}) /\ Len(convs) \in Nat /\ Len(convs') \in Nat
      BY <1>1, <1>4
    <3>3. QueuesRight(p, send', resume', Len(convs')) /\ NoneWaits(p, {Nothing})
      BY <1>1, <2>3, <2>4, <3>1, <3>2, ServedRight
    <3>4. QED
      BY <3>3 DEF p
  <2>6. PICK r \in PageRequest : r = [Head(requests[e]) EXCEPT !.kind = "create"]
    <3>1. Head(requests[e]) \in PageRequest
      BY <1>3, ServedIs
    <3>2. QED
      BY <3>1 DEF PageRequest
  <2>7. r.kind = "create" /\ r.by = Nothing
    <3>1. Head(requests[e]) \in PageRequest /\ Head(requests[e]).by = Nothing
      BY <1>2, <1>3, ServedIs DEF Page!Serving
    <3>2. QED
      BY <2>6, <3>1 DEF PageRequest
  <2>8. RequestRight(r, send', resume', Len(convs')) /\ r.by \in {Nothing}
    BY <1>3, <2>1, <2>7, PageSets DEF RequestRight
  <2>9. requests' = Put(Page!Served(e), e, r)
    BY <1>1, <1>6, <2>6 DEF AskedAgain, Put, Page!Served
  <2>10. Page!Served(e) \in [Page!Engines -> Seq(PageRequest)]
    BY <1>3, ServedIs
  <2>11. OthersKept({Nothing}, send', send', resume', resume', Len(convs'), Len(convs'))
    BY <1>1 DEF OthersKept
  <2>12. QueuesRight(Put(Page!Served(e), e, r), send', resume', Len(convs'))
    BY <1>1, <2>5, <2>8, <2>10, <2>11, PutRight
  <2>13. QED
    BY <1>2, <2>1, <2>2, <2>9, <2>12 DEF OwnerInv
<1>7. QED
  BY <1>5, <1>6, ResumedCases

LEMMA EndOwner ==
    ASSUME PageTypes, OwnerInv, PageTypes', NEW s \in Sends,
           Page!TurnDone(s) \/ Page!TurnStopped(s) \/ Page!TurnFails(s)
    PROVE  OwnerInv'
<1>1. send[s].phase = "turn" /\ send[s].conv \in 1..Len(convs)
  BY DEF OwnerInv, TurnsThere, Page!TurnDone, Page!TurnStopped, Page!TurnFails
<1>2. PICK m \in Seq(PageRoles), failed \in BOOLEAN :
        Page!AfterTurn(s, Page!Turned(s, m, failed))
  BY <1>1, MessagesLeft DEF Page!TurnDone, Page!TurnStopped, Page!TurnFails
<1>3. PICK C \in Seq(PageConv) : C = Page!Turned(s, m, failed) /\ Len(C) = Len(convs)
  BY <1>1, TurnedIs
<1>4. QED
  BY <1>1, <1>2, <1>3, TurnOwner

(* Questions and answers.                                                  *)

Alternates(m) == \A i \in DOMAIN m : m[i] = IF i % 2 = 1 THEN "user" ELSE "assistant"
Asked(m) == Len(m) % 2 = 1 /\ Alternates(m)

LEMMA Alternating ==
    ASSUME NEW m \in Seq(PageRoles)
    PROVE  /\ Page!Answered(m) => Asked(Append(m, "user"))
           /\ Asked(m) => Page!Answered(Append(m, "assistant"))
           /\ Asked(m) => Page!Answered(Page!Front(m))
<1>1. Page!Answered(m) <=> Len(m) % 2 = 0 /\ Alternates(m)
  BY DEF Page!Answered, Alternates
<1>2. /\ Len(m) \in Nat /\ DOMAIN m = 1..Len(m)
      /\ \A x : Len(Append(m, x)) = Len(m) + 1 /\ DOMAIN Append(m, x) = 1..(Len(m) + 1)
      /\ \A x : \A i \in 1..Len(m) : Append(m, x)[i] = m[i]
      /\ \A x : Append(m, x)[Len(m) + 1] = x
  OBVIOUS
<1>3. \A i \in 1..(Len(m) + 1) : i \in 1..Len(m) \/ i = Len(m) + 1
  BY <1>2
<1>4. ASSUME Page!Answered(m)
      PROVE  Asked(Append(m, "user"))
  <2>1. (Len(m) + 1) % 2 = 1 /\ Alternates(m)
    BY <1>1, <1>2, <1>4
  <2>2. \A i \in 1..(Len(m) + 1) :
          Append(m, "user")[i] = IF i % 2 = 1 THEN "user" ELSE "assistant"
    BY <1>2, <1>3, <2>1 DEF Alternates
  <2>3. QED
    BY <1>2, <2>1, <2>2 DEF Asked, Alternates
<1>5. ASSUME Asked(m)
      PROVE  Page!Answered(Append(m, "assistant"))
  <2>1. (Len(m) + 1) % 2 = 0 /\ Alternates(m)
    BY <1>2, <1>5 DEF Asked
  <2>2. \A i \in 1..(Len(m) + 1) :
          Append(m, "assistant")[i] = IF i % 2 = 1 THEN "user" ELSE "assistant"
    BY <1>2, <1>3, <2>1 DEF Alternates
  <2>3. QED
    BY <1>2, <2>1, <2>2 DEF Page!Answered
<1>6. ASSUME Asked(m)
      PROVE  Page!Answered(Page!Front(m))
  <2>1. Len(m) % 2 = 1 /\ Alternates(m)
    BY <1>6 DEF Asked
  <2>2. Len(m) \in Nat \ {0} /\ (Len(m) - 1) % 2 = 0
    BY <1>2, <2>1
  <2>3. /\ Len(Page!Front(m)) = Len(m) - 1 /\ DOMAIN Page!Front(m) = 1..(Len(m) - 1)
        /\ \A i \in 1..(Len(m) - 1) : Page!Front(m)[i] = m[i]
    <3>1. PICK n \in Nat : n = Len(m) - 1
      BY <2>2
    <3>2. Page!Front(m) = SubSeq(m, 1, n)
      BY <3>1 DEF Page!Front
    <3>3. 1 \in 1..(Len(m) + 1) /\ n \in (1 - 1)..Len(m)
      BY <1>2, <3>1
    <3>4. /\ Len(SubSeq(m, 1, n)) = n /\ DOMAIN SubSeq(m, 1, n) = 1..n
          /\ \A i \in 1..n : SubSeq(m, 1, n)[i] = m[i]
      BY <1>2, <3>1, <3>3
    <3>5. QED
      BY <3>1, <3>2, <3>4
  <2>4. \A i \in 1..(Len(m) - 1) : i \in 1..Len(m)
    BY <2>2
  <2>5. QED
    BY <1>2, <2>1, <2>2, <2>3, <2>4 DEF Page!Answered, Alternates
<1>7. QED
  BY <1>4, <1>5, <1>6

Turns(sends, t, c) == sends[t].phase = "turn" /\ sends[t].conv = c

\* A conversation that is not odd is answered, or in a turn.
ConvRight(C, sends, c) ==
    ~C[c].odd =>
        \/ Page!Answered(C[c].messages) /\ \A t \in Sends : ~Turns(sends, t, c)
        \/ \E t \in Sends : Turns(sends, t, c) /\ (~sends[t].mixed => Asked(C[c].messages))

MixedRight(sends) ==
    \A s, t \in Sends : s # t /\ sends[s].phase = "turn" /\ sends[t].phase = "turn"
                          => sends[s].mixed

SlotRight(v) == v # Nothing /\ ~v.odd => Page!Answered(v.messages)

TurnInv ==
    /\ SlotRight(card) /\ SlotRight(meta)
    /\ resume.phase # "none" => resume.meta # Nothing /\ SlotRight(resume.meta)
    /\ MixedRight(send)
    /\ \A c \in 1..Len(convs) : ConvRight(convs, send, c)

LEMMA SavedFrom == TurnInv => SavedIsAnswered
BY DEF TurnInv, SlotRight, SavedIsAnswered, Page!SavedIsAnswered

\* A step that begins no turn and ends none.
SameTurns ==
    \A t \in Sends : /\ send'[t].phase = "turn" <=> send[t].phase = "turn"
                     /\ send[t].phase = "turn" => /\ send'[t].conv = send[t].conv
                                                  /\ send'[t].mixed = send[t].mixed

LEMMA TurnsSame ==
    ASSUME SameTurns, NEW C, NEW c, ConvRight(C, send, c)
    PROVE  ConvRight(C, send', c)
BY DEF SameTurns, ConvRight, Turns

LEMMA MixedSame ==
    ASSUME SameTurns, MixedRight(send)
    PROVE  MixedRight(send')
BY DEF SameTurns, MixedRight

LEMMA TurnSame ==
    ASSUME TurnInv, SameTurns,
           card' \in {card, Nothing, meta}, meta' \in {meta, Nothing},
           \/ resume'.phase = "none"
           \/ resume'.phase # "none" /\ resume.phase # "none" /\ resume'.meta = resume.meta
           \/ card # Nothing /\ resume' = [phase |-> "loading", load |-> resume'.load, meta |-> card],
           Len(convs') = Len(convs),
           \A c \in 1..Len(convs) : /\ convs'[c].messages = convs[c].messages
                                    /\ convs'[c].odd = convs[c].odd
    PROVE  TurnInv'
<1>1. SlotRight(card') /\ SlotRight(meta') /\ SlotRight(card)
  BY DEF TurnInv, SlotRight
<1>2. resume'.phase # "none" => resume'.meta # Nothing /\ SlotRight(resume'.meta)
  BY <1>1 DEF TurnInv
<1>3. MixedRight(send')
  BY MixedSame DEF TurnInv
<1>4. ASSUME NEW c \in 1..Len(convs')
      PROVE  ConvRight(convs', send', c)
  <2>1. ConvRight(convs, send', c)
    BY <1>4, TurnsSame DEF TurnInv
  <2>2. QED
    BY <1>4, <2>1 DEF ConvRight
<1>5. QED
  BY <1>1, <1>2, <1>3, <1>4 DEF TurnInv

LEMMA SameWhen ==
    ASSUME \A t \in Sends : \/ send'[t] = send[t]
                            \/ send'[t].phase # "turn" /\ send[t].phase # "turn"
    PROVE  SameTurns
BY DEF SameTurns

LEMMA QuietTurns ==
    ASSUME PageTypes, OwnerInv, TurnInv,
           \/ \E l \in Loads : \/ Page!ModelChange(l) \/ Page!InitDone(l)
                               \/ Page!LoadDone(l) \/ Page!LoadFails(l) \/ Page!Resume(l)
           \/ \E s \in Sends : \/ Page!Chunk(s) \/ Page!Stop(s) \/ Page!Saving(s)
                               \/ Page!Throw(s) \/ Page!Release(s)
           \/ \E k \in Clears : Page!Clear(k)
           \/ \E e \in Page!Engines, s \in Sends : Page!Start(e, s)
           \/ Page!Discard \/ Page!ResumeLoaded
    PROVE  TurnInv'
<1>1. CASE \E l \in Loads : \/ Page!ModelChange(l) \/ Page!InitDone(l)
                            \/ Page!LoadDone(l) \/ Page!LoadFails(l)
  <2>1. UNCHANGED <<card, send, resume, convs, meta>>
    BY <1>1 DEF Page!ModelChange, Page!loadModelById, Page!InitDone, Page!LoadDone, Page!LoadFails,
       Page!page, Page!worker, Page!slot
  <2>2. SameTurns
    BY <2>1, SameWhen
  <2>3. QED
    BY <2>1, <2>2, TurnSame
<1>2. CASE \E l \in Loads : Page!Resume(l)
  <2>1. UNCHANGED <<send, convs, meta>> /\ card # Nothing /\ card' = Nothing
        /\ \E l \in Loads : resume' = [phase |-> "loading", load |-> l, meta |-> card]
    BY <1>2 DEF Page!Resume, Page!worker, Page!slot
  <2>2. resume' = [phase |-> "loading", load |-> resume'.load, meta |-> card]
    BY <2>1
  <2>3. SameTurns
    BY <2>1, SameWhen
  <2>4. QED
    BY <2>1, <2>2, <2>3, TurnSame
<1>3. CASE \E s \in Sends : \/ Page!Chunk(s) \/ Page!Stop(s) \/ Page!Saving(s)
                            \/ Page!Throw(s) \/ Page!Release(s)
  <2>1. UNCHANGED <<card, resume, convs, meta>>
    BY <1>3 DEF Page!Chunk, Page!Stop, Page!Saving, Page!Throw, Page!Release,
       Page!page, Page!worker, Page!slot
  <2>2. PICK s \in Sends : \/ send' = send
                           \/ send' = [send EXCEPT ![s].got = TRUE]
                           \/ send' = [send EXCEPT ![s].stop = TRUE]
    BY <1>3 DEF Page!Chunk, Page!Stop, Page!Saving, Page!Throw, Page!Release
  <2>3. send \in [Sends -> SendState] /\ \A t \in Sends : send[t] \in SendState
    BY DEF PageTypes
  <2>4. /\ [send[s] EXCEPT !.got = TRUE].phase = send[s].phase
        /\ [send[s] EXCEPT !.got = TRUE].conv = send[s].conv
        /\ [send[s] EXCEPT !.got = TRUE].mixed = send[s].mixed
        /\ [send[s] EXCEPT !.stop = TRUE].phase = send[s].phase
        /\ [send[s] EXCEPT !.stop = TRUE].conv = send[s].conv
        /\ [send[s] EXCEPT !.stop = TRUE].mixed = send[s].mixed
    BY <2>3 DEF SendState
  <2>5. \A t \in Sends : /\ send'[t].phase = send[t].phase /\ send'[t].conv = send[t].conv
                         /\ send'[t].mixed = send[t].mixed
    BY <2>2, <2>3, <2>4
  <2>6. SameTurns
    BY <2>5 DEF SameTurns
  <2>7. QED
    BY <2>1, <2>6, TurnSame
<1>4. CASE \/ \E k \in Clears : Page!Clear(k)
           \/ \E e \in Page!Engines, s \in Sends : Page!Start(e, s)
  <2>1. UNCHANGED <<card, send, resume, convs, meta>>
    BY <1>4 DEF Page!Clear, Page!Start, Page!page, Page!worker, Page!slot
  <2>2. SameTurns
    BY <2>1, SameWhen
  <2>3. QED
    BY <2>1, <2>2, TurnSame
<1>5. CASE Page!Discard
  <2>1. UNCHANGED <<send, resume, convs>> /\ card' = Nothing /\ meta' = Nothing
    BY <1>5 DEF Page!Discard, Page!worker
  <2>2. SameTurns
    BY <2>1, SameWhen
  <2>3. QED
    BY <2>1, <2>2, TurnSame
<1>6. CASE Page!ResumeLoaded
  <2>1. UNCHANGED <<card, send, convs, meta>> /\ resume.phase = "loading"
        /\ (resume' = Page!NoResume \/ resume' = [resume EXCEPT !.phase = "asked"])
    BY <1>6 DEF Page!ResumeLoaded, Page!page, Page!slot
  <2>2. SameTurns
    BY <2>1, SameWhen
  <2>3. resume'.phase = "none" \/ (resume'.phase = "asked" /\ resume'.meta = resume.meta)
    BY <2>1 DEF Page!NoResume, PageTypes, ResumeState
  <2>4. QED
    BY <2>1, <2>2, <2>3, TurnSame
<1>7. QED
  BY <1>1, <1>2, <1>3, <1>4, <1>5, <1>6

LEMMA PhaseTurns ==
    ASSUME PageTypes, NEW s \in Sends, send[s].phase # "turn", NEW phase, phase # "turn",
           send' = [send EXCEPT ![s].phase = phase]
    PROVE  SameTurns
<1>1. send'[s].phase = phase /\ \A t \in Sends \ {s} : send'[t] = send[t]
  BY PhaseSet
<1>2. QED
  BY <1>1, SameWhen

LEMMA SlotTurns ==
    ASSUME PageTypes, OwnerInv, TurnInv,
           \/ \E e \in Page!Engines, s \in Sends : Page!Export(e, s)
           \/ \E e \in Page!Engines, k \in Clears : Page!Dispose(e, k)
           \/ Page!Commit \/ Page!Reload
    PROVE  TurnInv'
<1>1. CASE \E e \in Page!Engines, s \in Sends : Page!Export(e, s)
  <2>1. PICK e \in Page!Engines, s \in Sends : Page!Export(e, s)
    BY <1>1
  <2>2. UNCHANGED <<card, resume, convs, meta>> /\ Page!Serving(e, "export", s)
        /\ (send' = [send EXCEPT ![s].phase = "putting"]
              \/ send' = [send EXCEPT ![s].phase = "idle"])
    BY <2>1 DEF Page!Export
  <2>3. send[s].phase = "exporting"
    BY <2>2, SendServed DEF RequestRight
  <2>4. SameTurns
    BY <2>2, <2>3, PhaseTurns
  <2>5. QED
    BY <2>2, <2>4, TurnSame
<1>2. CASE \E e \in Page!Engines, k \in Clears : Page!Dispose(e, k)
  <2>1. PICK e \in Page!Engines, k \in Clears : Page!Dispose(e, k)
    BY <1>2
  <2>2. UNCHANGED <<card, send, resume>> /\ meta' = Nothing /\ convs' = Disposed(e)
        /\ requests[e] # <<>> /\ Head(requests[e]).kind = "dispose"
    BY <2>1 DEF Page!Dispose, Page!Serving, Disposed
  <2>3. 1 \in DOMAIN requests[e] /\ Head(requests[e]) = requests[e][1]
    BY <2>2, ServedIs
  <2>4. RequestRight(requests[e][1], send, resume, Len(convs))
    BY <2>3 DEF OwnerInv, QueuesRight
  <2>5. Head(requests[e]).conv \in 1..Len(convs)
    BY <2>2, <2>3, <2>4 DEF RequestRight
  <2>6. /\ Len(convs') = Len(convs)
        /\ \A c \in 1..Len(convs) : /\ convs'[c].messages = convs[c].messages
                                    /\ convs'[c].odd = convs[c].odd
    BY <2>2, <2>5, DisposedIs
  <2>7. SameTurns
    BY <2>2, SameWhen
  <2>8. QED
    BY <2>2, <2>6, <2>7, TurnSame
<1>3. CASE Page!Commit
  <2>1. UNCHANGED <<card, resume, convs, meta>>
    BY <1>3, CommitIs
  <2>2. \A t \in Sends : send'[t] = send[t] \/ (send[t].phase = "putting" /\ send'[t].phase = "idle")
    <3>1. /\ Len(writes) \in Nat \ {0}
          /\ send' = [s \in Sends |-> IF writes[1].by = s THEN [send[s] EXCEPT !.phase = "idle"]
                                      ELSE send[s]]
      BY <1>3, CommitIs
    <3>2. \A t \in Sends : [send[t] EXCEPT !.phase = "idle"].phase = "idle"
      BY DEF PageTypes, SendState
    <3>3. \A t \in Sends : writes[1].by = t => send[t].phase = "putting"
      BY <3>1, PageSets DEF OwnerInv, WritesRight
    <3>4. QED
      BY <3>1, <3>2, <3>3
  <2>3. SameTurns
    BY <2>2, SameWhen
  <2>4. QED
    BY <2>1, <2>3, TurnSame
<1>4. CASE Page!Reload
  <2>1. /\ card' = meta /\ meta' = meta /\ resume' = Page!NoResume /\ convs' = <<>>
        /\ send' = [s \in Sends |-> Page!NoSend]
    BY <1>4 DEF Page!Reload
  <2>2. MixedRight(send')
    BY <2>1 DEF MixedRight, Page!NoSend
  <2>3. QED
    BY <2>1, <2>2 DEF TurnInv, Page!NoResume
<1>5. QED
  BY <1>1, <1>2, <1>3, <1>4

\* A turn begins on one of these conversations.
LEMMA BeginTurns ==
    ASSUME PageTypes, NEW s \in Sends, send[s].phase # "turn",
           NEW C \in Seq(PageConv), NEW c \in 1..Len(C), Page!BeginTurn(s, c, C),
           MixedRight(send), \A d \in 1..Len(C) : ConvRight(C, send, d)
    PROVE  MixedRight(send') /\ \A d \in 1..Len(convs') : ConvRight(convs', send', d)
<1>1. /\ send'[s].phase = "turn" /\ send'[s].conv = c
      /\ (Page!InTurn # {}) => send'[s].mixed
      /\ \A t \in Sends \ {s} : /\ send'[t].phase = send[t].phase
                                /\ send'[t].conv = send[t].conv
                                /\ t \in Page!InTurn => send'[t].mixed
  BY BeginIs
<1>2. \A t \in Sends : t \in Page!InTurn <=> send[t].phase = "turn"
  BY DEF Page!InTurn
<1>3. MixedRight(send')
  BY <1>1, <1>2 DEF MixedRight
<1>4. /\ convs' = Said(C, c, "user") /\ Len(convs') = Len(C)
      /\ \A d \in 1..Len(C) : d # c => convs'[d] = C[d]
      /\ convs'[c].odd = C[c].odd /\ convs'[c].messages = Append(C[c].messages, "user")
      /\ C[c].messages \in Seq(PageRoles)
  <2>1. convs' = Said(C, c, "user")
    BY DEF Page!BeginTurn, Said
  <2>2. "user" \in PageRoles
    BY DEF PageRoles
  <2>3. QED
    BY <2>1, <2>2, MoreMessages
<1>5. ConvRight(convs', send', c)
  <2>1. CASE Page!InTurn # {}
    BY <1>1, <2>1 DEF ConvRight, Turns
  <2>2. CASE Page!InTurn = {}
    <3>1. \A t \in Sends : ~Turns(send, t, c)
      BY <1>2, <2>2 DEF Turns
    <3>2. ~C[c].odd => Page!Answered(C[c].messages)
      BY <3>1 DEF ConvRight
    <3>3. ~convs'[c].odd => Asked(convs'[c].messages)
      BY <1>4, <3>2, Alternating
    <3>4. Turns(send', s, c)
      BY <1>1 DEF Turns
    <3>5. QED
      BY <3>3, <3>4 DEF ConvRight
  <2>3. QED
    BY <2>1, <2>2
<1>6. ASSUME NEW d \in 1..Len(C), d # c
      PROVE  ConvRight(convs', send', d)
  <2>1. ConvRight(C, send, d) /\ convs'[d] = C[d]
    BY <1>4, <1>6
  <2>2. ASSUME NEW t \in Sends
        PROVE  /\ Turns(send', t, d) => Turns(send, t, d)
               /\ Turns(send, t, d) => Turns(send', t, d) /\ send'[t].mixed
    BY <1>1, <1>2, <1>6 DEF Turns
  <2>3. QED
    BY <2>1, <2>2 DEF ConvRight
<1>7. QED
  BY <1>3, <1>4, <1>5, <1>6

LEMMA SendTurns ==
    ASSUME PageTypes, TurnInv, NEW s \in Sends, Page!Send(s)
    PROVE  TurnInv'
<1>1. UNCHANGED <<card, meta, resume>> /\ send[s].phase = "idle"
  BY DEF Page!Send, Page!slot
<1>2. CASE conv # Nothing
  <2>1. Page!BeginTurn(s, conv, convs)
    BY <1>2 DEF Page!Send
  <2>2. conv \in 1..Len(convs) /\ convs \in Seq(PageConv)
    BY <1>2 DEF PageTypes
  <2>3. MixedRight(send') /\ \A d \in 1..Len(convs') : ConvRight(convs', send', d)
    BY <1>1, <2>1, <2>2, BeginTurns DEF TurnInv
  <2>4. QED
    BY <1>1, <2>3 DEF TurnInv
<1>3. CASE conv = Nothing
  <2>1. /\ send' = [send EXCEPT ![s] = [Page!NoSend EXCEPT !.phase = "creating"]]
        /\ UNCHANGED convs
    BY <1>3 DEF Page!Send
  <2>2. send \in [Sends -> SendState]
    BY DEF PageTypes
  <2>3. send'[s].phase = "creating" /\ \A t \in Sends \ {s} : send'[t] = send[t]
    BY <2>1, <2>2 DEF Page!NoSend
  <2>4. SameTurns
    BY <1>1, <2>3, SameWhen
  <2>5. QED
    BY <1>1, <2>1, <2>4, TurnSame
<1>4. QED
  BY <1>2, <1>3

\* A conversation that is added is right if its messages are.
LEMMA AddedTurns ==
    ASSUME PageTypes, OwnerInv, TurnInv, NEW C, NEW m, NEW odd,
           Len(C) = Len(convs) + 1, \A c \in 1..Len(convs) : C[c] = convs[c],
           C[Len(convs) + 1].messages = m, C[Len(convs) + 1].odd = odd,
           ~odd => Page!Answered(m)
    PROVE  \A c \in 1..Len(C) : ConvRight(C, send, c)
<1>1. Len(convs) \in Nat
  BY DEF PageTypes
<1>2. ASSUME NEW c \in 1..Len(convs)
      PROVE  ConvRight(C, send, c)
  <2>1. ConvRight(convs, send, c)
    BY DEF TurnInv
  <2>2. QED
    BY <2>1 DEF ConvRight
<1>3. ConvRight(C, send, Len(convs) + 1)
  <2>1. \A t \in Sends : ~Turns(send, t, Len(convs) + 1)
    BY <1>1 DEF OwnerInv, TurnsThere, Turns
  <2>2. QED
    BY <2>1 DEF ConvRight
<1>4. \A c \in 1..Len(C) : c \in 1..Len(convs) \/ c = Len(convs) + 1
  BY <1>1
<1>5. QED
  BY <1>2, <1>3, <1>4

LEMMA CreateTurns ==
    ASSUME PageTypes, OwnerInv, TurnInv, NEW e \in Page!Engines, NEW s \in Sends,
           Page!Create(e, s)
    PROVE  TurnInv'
<1>1. UNCHANGED <<card, meta, resume>> /\ Page!Serving(e, "create", s)
  BY DEF Page!Create, Page!slot
<1>2. send[s].phase = "creating"
  BY <1>1, SendServed DEF RequestRight
<1>3. CASE Page!HandleOf(e)
  <2> DEFINE C == Page!Created(e, <<>>, FALSE)
  <2>1. conv' = Len(convs) + 1 /\ Page!BeginTurn(s, conv', C)
    BY <1>3 DEF Page!Create
  <2>2. <<>> \in Seq(PageRoles) /\ FALSE \in BOOLEAN
    OBVIOUS
  <2>3. IsCreated(C, e, <<>>, FALSE)
    BY <2>2, CreatedBoth
  <2> HIDE DEF C
  <2>4. Len(convs) \in Nat
    BY DEF PageTypes
  <2>5. /\ C \in Seq(PageConv) /\ Len(C) = Len(convs) + 1
        /\ \A c \in 1..Len(convs) : C[c] = convs[c]
        /\ C[Len(convs) + 1].messages = <<>> /\ C[Len(convs) + 1].odd = FALSE
    BY <2>3 DEF IsCreated
  <2>6. Page!Answered(<<>>)
    BY DEF Page!Answered
  <2>7. \A c \in 1..Len(C) : ConvRight(C, send, c)
    BY <2>5, <2>6, AddedTurns
  <2>8. conv' \in 1..Len(C)
    <3>1. conv' = Len(convs) + 1
      BY <2>1
    <3>2. QED
      BY <2>5, <2>4, <3>1
  <2>9. MixedRight(send') /\ \A d \in 1..Len(convs') : ConvRight(convs', send', d)
    BY <1>2, <2>1, <2>5, <2>7, <2>8, BeginTurns DEF TurnInv
  <2>10. QED
    BY <1>1, <2>9 DEF TurnInv
<1>4. CASE ~Page!HandleOf(e)
  <2>1. send' = [send EXCEPT ![s].phase = "idle"] /\ UNCHANGED convs
    BY <1>4 DEF Page!Create
  <2>2. SameTurns
    BY <1>2, <2>1, PhaseTurns
  <2>3. QED
    BY <1>1, <2>1, <2>2, TurnSame
<1>5. QED
  BY <1>3, <1>4

LEMMA ResumedTurns ==
    ASSUME PageTypes, OwnerInv, TurnInv, NEW e \in Page!Engines, Page!Resumed(e)
    PROVE  TurnInv'
<1>1. CASE ResumedInto(e)
  <2>1. /\ UNCHANGED <<card, send, meta>> /\ resume' = Page!NoResume
        /\ Page!Serving(e, "import", Nothing) \/ Page!Serving(e, "create", Nothing)
    BY <1>1 DEF ResumedInto
  <2>2. resume.phase = "asked" /\ resume.meta \in Slot
    BY <2>1, WasAsked
  <2>3. PICK m \in Seq(PageRoles), odd \in BOOLEAN :
          m = resume.meta.messages /\ odd = resume.meta.odd
    BY <2>2 DEF Slot
  <2>5. ~odd => Page!Answered(m)
    BY <2>2, <2>3 DEF TurnInv, SlotRight
  <2>6. convs' = Page!Created(e, m, odd)
    BY <1>1, <2>3 DEF ResumedInto
  <2>7. IsCreated(convs', e, m, odd)
    BY <2>6, CreatedBoth
  <2>9. \A c \in 1..Len(convs') : ConvRight(convs', send, c)
    BY <2>5, <2>7, AddedTurns DEF IsCreated
  <2>10. QED
    BY <2>1, <2>9 DEF TurnInv, Page!NoResume
<1>2. CASE AskedAgain(e) \/ NotResumed(e)
  <2>1. /\ UNCHANGED <<card, send, meta, convs>>
        /\ resume' = resume \/ resume' = Page!NoResume
    BY <1>2 DEF AskedAgain, NotResumed
  <2>2. SameTurns
    BY <2>1, SameWhen
  <2>3. resume'.phase = "none" \/ resume' = resume
    BY <2>1 DEF Page!NoResume
  <2>4. QED
    BY <2>1, <2>2, <2>3, TurnSame
<1>3. QED
  BY <1>1, <1>2, ResumedCases

\* A turn that neither failed nor was mixed leaves answers.
AnsweredAfter(s, m, failed) ==
    ~failed /\ Asked(convs[send[s].conv].messages) => Page!Answered(m)

LEMMA EndsAnswered ==
    ASSUME PageTypes, OwnerInv, NEW s \in Sends,
           Page!TurnDone(s) \/ Page!TurnStopped(s) \/ Page!TurnFails(s)
    PROVE  /\ send[s].phase = "turn" /\ send[s].conv \in 1..Len(convs)
           /\ \E m \in Seq(PageRoles), failed \in BOOLEAN :
                /\ Page!AfterTurn(s, Page!Turned(s, m, failed))
                /\ AnsweredAfter(s, m, failed)
<1>1. send[s].phase = "turn" /\ send[s].conv \in 1..Len(convs)
  BY DEF OwnerInv, TurnsThere, Page!TurnDone, Page!TurnStopped, Page!TurnFails
<1>2. PICK m \in Seq(PageRoles) : m = convs[send[s].conv].messages /\ m = Page!Messages(s)
  <2>1. convs[send[s].conv] \in PageConv
    BY <1>1 DEF PageTypes
  <2>2. QED
    BY <2>1 DEF PageConv, Page!Messages
<1>3. Append(m, "assistant") \in Seq(PageRoles)
      /\ Page!Stopped(m, send[s].got) \in Seq(PageRoles)
  BY <1>1, <1>2, MessagesLeft
<1>4. Asked(m) => Page!Answered(Append(m, "assistant"))
                  /\ Page!Answered(Page!Stopped(m, send[s].got))
  BY Alternating DEF Page!Stopped
<1>5. CASE Page!TurnDone(s)
  <2>1. Page!AfterTurn(s, Page!Turned(s, Append(m, "assistant"), FALSE))
    BY <1>2, <1>5 DEF Page!TurnDone
  <2>2. AnsweredAfter(s, Append(m, "assistant"), FALSE)
    BY <1>2, <1>4 DEF AnsweredAfter
  <2>3. QED
    BY <1>1, <1>3, <2>1, <2>2
<1>6. CASE Page!TurnStopped(s)
  <2>1. Page!AfterTurn(s, Page!Turned(s, Page!Stopped(m, send[s].got), FALSE))
    BY <1>2, <1>6 DEF Page!TurnStopped
  <2>2. AnsweredAfter(s, Page!Stopped(m, send[s].got), FALSE)
    BY <1>2, <1>4 DEF AnsweredAfter
  <2>3. QED
    BY <1>1, <1>3, <2>1, <2>2
<1>7. CASE Page!TurnFails(s)
  <2>1. Page!AfterTurn(s, Page!Turned(s, m, TRUE))
    BY <1>2, <1>7 DEF Page!TurnFails
  <2>2. AnsweredAfter(s, m, TRUE)
    BY DEF AnsweredAfter
  <2>3. QED
    BY <1>1, <2>1, <2>2
<1>8. QED
  BY <1>5, <1>6, <1>7

LEMMA EndTurns ==
    ASSUME PageTypes, OwnerInv, TurnInv, NEW s \in Sends,
           Page!TurnDone(s) \/ Page!TurnStopped(s) \/ Page!TurnFails(s)
    PROVE  TurnInv'
<1>1. send[s].phase = "turn" /\ send[s].conv \in 1..Len(convs)
  BY EndsAnswered
<1>2. PICK m \in Seq(PageRoles), failed \in BOOLEAN :
         /\ Page!AfterTurn(s, Page!Turned(s, m, failed))
         /\ AnsweredAfter(s, m, failed)
  BY EndsAnswered
<1>3. PICK c \in 1..Len(convs) : c = send[s].conv
  BY <1>1
<1> DEFINE C == Page!Turned(s, m, failed)
<1>4. /\ C \in Seq(PageConv) /\ Len(C) = Len(convs)
      /\ \A d \in 1..Len(convs) : d # c => C[d] = convs[d]
      /\ C[c].messages = m
      /\ C[c].odd = (convs[c].odd \/ failed \/ send[s].mixed)
  BY <1>1, <1>3, TurnedIs
<1>5. Page!AfterTurn(s, C)
  BY <1>2
<1> HIDE DEF C
<1>6. UNCHANGED <<card, resume, conv>> /\ convs' = C
      /\ \/ send' = [send EXCEPT ![s].phase = "exporting"]
         \/ send' = [send EXCEPT ![s].phase = "idle"]
  BY <1>5 DEF Page!AfterTurn
<1>7. send'[s].phase # "turn" /\ \A t \in Sends \ {s} : send'[t] = send[t]
  BY <1>6, PhaseSet
<1>8. MixedRight(send')
  BY <1>7 DEF TurnInv, MixedRight
<1>9. \A t \in Sends \ {s} : send[t].phase = "turn" => send[s].mixed
  BY <1>1 DEF TurnInv, MixedRight
<1>10. ~C[c].odd => ~convs[c].odd /\ ~failed /\ ~send[s].mixed
  BY <1>4
<1>11. ConvRight(C, send', c)
  <2>1. SUFFICES ASSUME ~C[c].odd
                 PROVE  Page!Answered(C[c].messages) /\ \A t \in Sends : ~Turns(send', t, c)
    BY DEF ConvRight
  <2>2. ~convs[c].odd /\ ~failed /\ ~send[s].mixed
    BY <1>10, <2>1
  <2>3. \A t \in Sends \ {s} : send[t].phase # "turn"
    BY <1>9, <2>2
  <2>4. ConvRight(convs, send, c) /\ Turns(send, s, c)
    BY <1>1, <1>3 DEF TurnInv, Turns
  <2>5. PICK t \in Sends : Turns(send, t, c) /\ (~send[t].mixed => Asked(convs[c].messages))
    BY <2>2, <2>4 DEF ConvRight
  <2>6. t = s
    BY <2>3, <2>5 DEF Turns
  <2>7. Page!Answered(m)
    BY <1>2, <1>3, <2>2, <2>5, <2>6 DEF AnsweredAfter
  <2>8. \A u \in Sends : ~Turns(send', u, c)
    BY <1>7, <2>3 DEF Turns
  <2>9. QED
    BY <1>4, <2>7, <2>8
<1>12. ASSUME NEW d \in 1..Len(convs), d # c
       PROVE  ConvRight(C, send', d)
  <2>1. ConvRight(convs, send, d) /\ C[d] = convs[d]
    BY <1>4, <1>12 DEF TurnInv
  <2>2. \A t \in Sends : /\ Turns(send, t, d) => Turns(send', t, d) /\ send'[t] = send[t]
                         /\ Turns(send', t, d) => Turns(send, t, d)
    BY <1>3, <1>7, <1>12 DEF Turns
  <2>3. QED
    BY <2>1, <2>2 DEF ConvRight
<1>13. \A d \in 1..Len(convs') : ConvRight(convs', send', d)
  BY <1>4, <1>6, <1>11, <1>12
<1>14. SlotRight(meta')
  <2>1. CASE conv # Nothing /\ loaded # Nothing
    <3>1. meta' = [messages |-> C[conv].messages, odd |-> C[conv].odd \/ send[s].mixed]
      BY <1>5, <2>1 DEF Page!AfterTurn, Page!ToSave
    <3>2. conv \in 1..Len(convs)
      BY <2>1 DEF PageTypes
    <3>3. SUFFICES ASSUME ~meta'.odd
                   PROVE  Page!Answered(meta'.messages)
      BY DEF SlotRight
    <3>4. ~C[conv].odd /\ ~send[s].mixed
      BY <3>1, <3>3
    <3>5. \A t \in Sends : send'[t].phase # "turn"
      BY <1>7, <1>9, <3>4
    <3>6. ConvRight(C, send', conv)
      BY <1>11, <1>12, <3>2
    <3>7. QED
      BY <3>1, <3>4, <3>5, <3>6 DEF ConvRight, Turns
  <2>2. CASE ~(conv # Nothing /\ loaded # Nothing)
    <3>1. meta' = meta
      BY <1>5, <2>2 DEF Page!AfterTurn, Page!ToSave
    <3>2. QED
      BY <3>1 DEF TurnInv
  <2>3. QED
    BY <2>1, <2>2
<1>15. QED
  BY <1>6, <1>8, <1>13, <1>14 DEF TurnInv

PageInv == PageTypes /\ OwnerInv /\ TurnInv

LEMMA PageInit ==
    ASSUME Page!Init
    PROVE  PageInv
<1>1. /\ pageEngine = Nothing /\ loaded = Nothing /\ conv = Nothing /\ card = Nothing
      /\ load = [l \in Loads |-> Page!NoLoad] /\ send = [s \in Sends |-> Page!NoSend]
      /\ resume = Page!NoResume /\ up = {} /\ requests = [e \in Page!Engines |-> <<>>]
      /\ convs = <<>> /\ meta = Nothing /\ blob = Nothing /\ writes = <<>> /\ pageCleared = FALSE
  BY DEF Page!Init, Page!Engines
<1>2. Page!NoLoad \in LoadState /\ Page!NoSend \in SendState /\ Page!NoResume \in ResumeState
  BY PageSets DEF Page!NoLoad, Page!NoSend, Page!NoResume, LoadState, SendState, ResumeState
<1>3. PageTypes
  <2>1. requests \in [Page!Engines -> Seq(PageRequest)] /\ load \in [Loads -> LoadState]
        /\ send \in [Sends -> SendState] /\ resume \in ResumeState
    BY <1>1, <1>2
  <2>2. convs \in Seq(PageConv) /\ writes \in Seq(PageWrite)
    BY <1>1
  <2>a. pageCleared \in BOOLEAN
    BY <1>1
  <2>3. QED
    BY <1>1, <2>1, <2>2, <2>a, PageSets DEF PageTypes
<1>4. OwnerInv
  <2>1. TurnsThere /\ CardTaken
    BY <1>1 DEF TurnsThere, CardTaken, Page!NoSend, Page!NoResume
  <2>2. QueuesRight(requests, send, resume, Len(convs))
    BY <1>1 DEF QueuesRight, Waits
  <2>3. WritesRight(writes, send)
    BY <1>1 DEF WritesRight
  <2>4. QED
    BY <2>1, <2>2, <2>3 DEF OwnerInv
<1>5. TurnInv
  <2>1. MixedRight(send)
    BY <1>1 DEF MixedRight, Page!NoSend
  <2>2. QED
    BY <1>1, <2>1 DEF TurnInv, SlotRight, Page!NoResume
<1>6. QED
  BY <1>3, <1>4, <1>5 DEF PageInv

LEMMA PageStutters ==
    ASSUME PageInv, UNCHANGED Page!vars
    PROVE  PageInv'
<1>1. UNCHANGED <<pageEngine, loaded, conv, card, load, send, resume, up, requests, convs, gen, meta,
                  blob, writes, pageCleared>> /\ Page!Engines' = Page!Engines
  BY DEF Page!vars, Page!page, Page!worker, Page!slot, Page!Engines
<1>2. PageTypes'
  BY <1>1 DEF PageInv, PageTypes
<1>3. OwnerInv'
  BY <1>1 DEF PageInv, OwnerInv, TurnsThere, CardTaken
<1>4. TurnInv'
  BY <1>1 DEF PageInv, TurnInv
<1>5. QED
  BY <1>2, <1>3, <1>4 DEF PageInv

LEMMA PageSteps ==
    ASSUME PageInv, Page!Next
    PROVE  PageInv'
<1>1. PageTypes /\ OwnerInv /\ TurnInv
  BY DEF PageInv
<1>2. ASSUME NEW l \in Loads,
             \/ Page!ModelChange(l) \/ Page!InitDone(l) \/ Page!LoadDone(l)
             \/ Page!LoadFails(l)
      PROVE  PageInv'
  <2>1. PageTypes'
    BY <1>1, <1>2, LoadingTypes
  <2>2. QED
    BY <1>1, <1>2, <2>1, QuietOwner, QuietTurns DEF PageInv
<1>3. ASSUME NEW l \in Loads, Page!Resume(l)
      PROVE  PageInv'
  BY <1>1, <1>3, ResumeTypes, ResumeOwner, QuietTurns DEF PageInv
<1>4. ASSUME NEW s \in Sends, Page!Send(s)
      PROVE  PageInv'
  BY <1>1, <1>4, SendTypes, SendOwner, SendTurns DEF PageInv
<1>5. ASSUME NEW s \in Sends,
             \/ Page!Chunk(s) \/ Page!Stop(s) \/ Page!Saving(s) \/ Page!Throw(s) \/ Page!Release(s)
      PROVE  PageInv'
  <2>1. PageTypes'
    BY <1>1, <1>5, StreamTypes
  <2>2. QED
    BY <1>1, <1>5, <2>1, QuietOwner, QuietTurns DEF PageInv
<1>6. ASSUME NEW s \in Sends, Page!TurnDone(s) \/ Page!TurnStopped(s) \/ Page!TurnFails(s)
      PROVE  PageInv'
  BY <1>1, <1>6, TurnTypes, EndOwner, EndTurns DEF PageInv
<1>7. ASSUME NEW e \in Page!Engines, NEW s \in Sends, Page!Create(e, s)
      PROVE  PageInv'
  BY <1>1, <1>7, CreateTypes, CreateOwner, CreateTurns DEF PageInv
<1>8. ASSUME NEW e \in Page!Engines, NEW s \in Sends, Page!Start(e, s)
      PROVE  PageInv'
  BY <1>1, <1>8, StartTypes, StartOwner, QuietTurns DEF PageInv
<1>9. ASSUME NEW e \in Page!Engines, NEW s \in Sends, Page!Export(e, s)
      PROVE  PageInv'
  BY <1>1, <1>9, ExportTypes, ExportOwner, SlotTurns DEF PageInv
<1>10. ASSUME NEW k \in Clears, Page!Clear(k)
       PROVE  PageInv'
  BY <1>1, <1>10, ClearTypes, ClearOwner, QuietTurns DEF PageInv
<1>11. ASSUME NEW e \in Page!Engines, NEW k \in Clears, Page!Dispose(e, k)
       PROVE  PageInv'
  BY <1>1, <1>11, DisposeTypes, DisposeOwner, SlotTurns DEF PageInv
<1>12. ASSUME NEW e \in Page!Engines, Page!Resumed(e)
       PROVE  PageInv'
  BY <1>1, <1>12, ResumedTypes, ResumedOwner, ResumedTurns DEF PageInv
<1>13. CASE Page!Commit
  BY <1>1, <1>13, CommitTypes, CommitOwner, SlotTurns DEF PageInv
<1>14. CASE Page!Reload
  BY <1>1, <1>14, ReloadTypes, ReloadOwner, SlotTurns DEF PageInv
<1>15. CASE Page!Discard
  BY <1>1, <1>15, DiscardTypes, QuietOwner, QuietTurns DEF PageInv
<1>16. CASE Page!ResumeLoaded
  BY <1>1, <1>16, ResumeLoadedTypes, ResumeLoadedOwner, QuietTurns DEF PageInv
<1>17. QED
  BY <1>2, <1>3, <1>4, <1>5, <1>6, <1>7, <1>8, <1>9, <1>10, <1>11, <1>12, <1>13, <1>14, <1>15,
     <1>16 DEF Page!Next

\* Saved questions have their answers, but for turns that failed or overlapped, whatever is
\* stopped, loaded, cleared, reloaded or resumed in the middle of a turn (send and saveCurrent
\* of the chat page).
THEOREM SavedAnswers == Page!Spec => []SavedIsAnswered
<1>1. Page!Init => PageInv
  BY PageInit
<1>2. PageInv /\ [Page!Next]_Page!vars => PageInv'
  BY PageSteps, PageStutters
<1>3. PageInv => SavedIsAnswered
  BY SavedFrom DEF PageInv
<1>4. QED
  BY <1>1, <1>2, <1>3, PTL DEF Page!Spec

(* What is cleared.                                                        *)

\* Only an engine whose model is loaded gives its handle.
ReadyIn(loads, e) == e # Nothing => loads[e].phase = "ready"

HandlesReady(q, loads) ==
    \A f \in Page!Engines : \A i \in DOMAIN q[f] : ReadyIn(loads, q[f][i].handle)

\* What is exported behind the disposal of conversation c is c.
OrderRight(q, c) ==
    \A f \in Page!Engines : \A i, j \in DOMAIN q[f] :
        i < j /\ q[f][i].kind = "dispose" /\ q[f][i].conv = c /\ q[f][j].kind = "export"
          => q[f][j].conv = c

MadeRight(C, loads) ==
    \A c \in 1..Len(C) : C[c].engine # Nothing /\ ReadyIn(loads, C[c].engine)

AliveIn(f, c, living, C) == f \in living /\ C[c].engine = f /\ ~C[c].gone

ExportsDead(q, living, C) ==
    \A f \in Page!Engines : \A i \in DOMAIN q[f] :
        q[f][i].kind = "export" => ~AliveIn(f, q[f][i].conv, living, C)

LastGone(w, b) == IF w = <<>> THEN b = Nothing ELSE w[Len(w)].blob = Nothing

ClearInv ==
    /\ ReadyIn(load, loaded) /\ HandlesReady(requests, load) /\ MadeRight(convs, load)
    /\ OrderRight(requests, conv)
    /\ pageCleared => /\ conv = Nothing /\ meta = Nothing
                  /\ ExportsDead(requests, up, convs)
                  /\ LastGone(writes, blob)

LEMMA ClearedFrom == ClearInv => ClearedIsGone
BY DEF ClearInv, LastGone, ClearedIsGone, Page!ClearedIsGone, Page!Quiet

LEMMA PutQueue ==
    ASSUME NEW q \in [Page!Engines -> Seq(PageRequest)], NEW e \in Page!Engines,
           NEW r \in PageRequest, NEW loads, NEW c, NEW living, NEW C
    PROVE  /\ HandlesReady(q, loads) /\ ReadyIn(loads, r.handle) => HandlesReady(Put(q, e, r), loads)
           /\ OrderRight(q, c) /\ (r.kind = "export" => r.conv = c) => OrderRight(Put(q, e, r), c)
           /\ ExportsDead(q, living, C) /\ r.kind # "export" => ExportsDead(Put(q, e, r), living, C)
<1> DEFINE p == Put(q, e, r)
<1>1. p = [q EXCEPT ![e] = Append(@, r)]
  BY DEF Put
<1> HIDE DEF p
<1>2. /\ Len(q[e]) \in Nat /\ p[e][Len(q[e]) + 1] = r
      /\ \A f \in Page!Engines : \A i \in DOMAIN q[f] : p[f][i] = q[f][i]
      /\ \A f \in Page!Engines : \A i \in DOMAIN p[f] :
            i \in DOMAIN q[f] \/ (f = e /\ i = Len(q[e]) + 1)
  BY <1>1, Posted
<1>3. \A i \in DOMAIN q[e] : i \in 1..Len(q[e])
  OBVIOUS
<1>4. HandlesReady(q, loads) /\ ReadyIn(loads, r.handle) => HandlesReady(p, loads)
  BY <1>2 DEF HandlesReady
<1>5. ASSUME OrderRight(q, c), r.kind = "export" => r.conv = c
      PROVE  OrderRight(p, c)
  <2>1. SUFFICES ASSUME NEW f \in Page!Engines, NEW i \in DOMAIN p[f], NEW j \in DOMAIN p[f],
                        i < j, p[f][i].kind = "dispose", p[f][i].conv = c,
                        p[f][j].kind = "export"
                 PROVE  p[f][j].conv = c
    BY DEF OrderRight
  <2>2. CASE j \in DOMAIN q[f]
    <3>1. i \in DOMAIN q[f]
      BY <1>2, <1>3, <2>1, <2>2
    <3>2. q[f][j].conv = c
      BY <1>2, <1>5, <2>1, <2>2, <3>1 DEF OrderRight
    <3>3. QED
      BY <1>2, <2>2, <3>2
  <2>3. CASE f = e /\ j = Len(q[e]) + 1
    BY <1>2, <1>5, <2>1, <2>3
  <2>4. QED
    BY <1>2, <2>2, <2>3
<1>6. ExportsDead(q, living, C) /\ r.kind # "export" => ExportsDead(p, living, C)
  BY <1>2 DEF ExportsDead
<1>7. QED
  BY <1>4, <1>5, <1>6 DEF p

LEMMA TakenQueue ==
    ASSUME NEW q \in [Page!Engines -> Seq(PageRequest)], NEW e \in Page!Engines, q[e] # <<>>,
           NEW loads, NEW c, NEW living, NEW C
    PROVE  /\ HandlesReady(q, loads) => HandlesReady(Taken(q, e), loads)
           /\ OrderRight(q, c) => OrderRight(Taken(q, e), c)
           /\ ExportsDead(q, living, C) => ExportsDead(Taken(q, e), living, C)
<1> DEFINE p == Taken(q, e)
<1>1. p = [q EXCEPT ![e] = Tail(@)]
  BY DEF Taken
<1> HIDE DEF p
<1>2. /\ p \in [Page!Engines -> Seq(PageRequest)]
      /\ \A i \in DOMAIN p[e] : i + 1 \in DOMAIN q[e] /\ p[e][i] = q[e][i + 1]
      /\ \A f \in Page!Engines : f # e => p[f] = q[f]
  BY <1>1, TakenOff
<1>3. \A i \in DOMAIN p[e] : i \in Nat
  BY <1>2
<1>4. HandlesReady(q, loads) => HandlesReady(p, loads)
  BY <1>2 DEF HandlesReady
<1>5. ASSUME OrderRight(q, c)
      PROVE  OrderRight(p, c)
  <2>1. SUFFICES ASSUME NEW f \in Page!Engines, NEW i \in DOMAIN p[f], NEW j \in DOMAIN p[f],
                        i < j, p[f][i].kind = "dispose", p[f][i].conv = c,
                        p[f][j].kind = "export"
                 PROVE  p[f][j].conv = c
    BY DEF OrderRight
  <2>2. CASE f = e
    <3>1. i + 1 \in DOMAIN q[e] /\ j + 1 \in DOMAIN q[e] /\ i + 1 < j + 1
          /\ p[e][i] = q[e][i + 1] /\ p[e][j] = q[e][j + 1]
      BY <1>2, <1>3, <2>1, <2>2
    <3>2. QED
      BY <1>5, <2>1, <2>2, <3>1 DEF OrderRight
  <2>3. CASE f # e
    BY <1>2, <1>5, <2>1, <2>3 DEF OrderRight
  <2>4. QED
    BY <2>2, <2>3
<1>6. ExportsDead(q, living, C) => ExportsDead(p, living, C)
  BY <1>2 DEF ExportsDead
<1>7. QED
  BY <1>4, <1>5, <1>6 DEF p

\* A load that is done stays so while the page lives.
LoadsKept == \A l \in Loads : load[l].phase = "ready" => load'[l].phase = "ready"

LEMMA ReadyKept ==
    ASSUME PageTypes, LoadsKept
    PROVE  /\ \A e \in Page!Engines : ReadyIn(load, e) => ReadyIn(load', e)
           /\ HandlesReady(requests, load) => HandlesReady(requests, load')
           /\ MadeRight(convs, load) => MadeRight(convs, load')
<1>1. \A e \in Page!Engines : ReadyIn(load, e) => ReadyIn(load', e)
  BY PageSets DEF LoadsKept, ReadyIn
<1>2. \A e \in Page!Engines : \A i \in DOMAIN requests[e] : requests[e][i].handle \in Page!Engines
  <2>1. \A e \in Page!Engines : \A i \in DOMAIN requests[e] : requests[e][i] \in PageRequest
    BY DEF PageTypes
  <2>2. QED
    BY <2>1 DEF PageRequest
<1>3. \A c \in 1..Len(convs) : convs[c].engine \in Page!Engines
  <2>1. \A c \in 1..Len(convs) : convs[c] \in PageConv
    BY DEF PageTypes
  <2>2. QED
    BY <2>1 DEF PageConv
<1>4. QED
  BY <1>1, <1>2, <1>3 DEF HandlesReady, MadeRight

LEMMA LoadingClear ==
    ASSUME PageTypes, OwnerInv, ClearInv, NEW l \in Loads,
           \/ Page!ModelChange(l) \/ Page!InitDone(l) \/ Page!LoadDone(l)
           \/ Page!LoadFails(l)
    PROVE  ClearInv'
<1>1. UNCHANGED <<conv, requests, convs, meta, blob, writes, pageCleared>>
  BY DEF Page!ModelChange, Page!loadModelById, Page!InitDone, Page!LoadDone, Page!LoadFails,
         Page!page, Page!worker, Page!slot
<1>2. LoadsKept
  <2>1. load \in [Loads -> LoadState] /\ load[l] \in LoadState
    BY DEF PageTypes
  <2>2. QED
    BY <2>1 DEF LoadState, LoadsKept, Page!NoLoad, Page!ModelChange, Page!loadModelById,
       Page!InitDone, Page!LoadDone, Page!LoadFails
<1>3. /\ \A e \in Page!Engines : ReadyIn(load, e) => ReadyIn(load', e)
      /\ HandlesReady(requests, load') /\ MadeRight(convs, load')
  BY <1>2, ReadyKept DEF ClearInv
<1>4. ReadyIn(load', loaded')
  <2>1. loaded \in Page!Engines /\ ReadyIn(load, loaded)
    BY DEF PageTypes, ClearInv
  <2>2. CASE Page!LoadDone(l)
    <3>1. loaded' = l /\ load'[l].phase = "ready"
      BY <2>2 DEF Page!LoadDone, PageTypes
    <3>2. QED
      BY <3>1 DEF ReadyIn
  <2>3. CASE ~Page!LoadDone(l)
    <3>1. loaded' = loaded \/ loaded' = Nothing
      BY <2>3 DEF Page!ModelChange, Page!loadModelById, Page!InitDone, Page!LoadFails, Page!page
    <3>2. QED
      BY <1>3, <2>1, <3>1 DEF ReadyIn
  <2>4. QED
    BY <2>2, <2>3
<1>5. ASSUME ExportsDead(requests, up, convs)
      PROVE  ExportsDead(requests, up', convs)
  <2>1. up' \subseteq up \/ (up' = up \cup {l} /\ load[l].phase = "init")
    BY DEF Page!ModelChange, Page!loadModelById, Page!InitDone, Page!LoadDone, Page!LoadFails,
           Page!worker
  <2>2. SUFFICES ASSUME NEW f \in Page!Engines, NEW i \in DOMAIN requests[f],
                        requests[f][i].kind = "export",
                        AliveIn(f, requests[f][i].conv, up', convs)
                 PROVE  FALSE
    BY DEF ExportsDead
  <2>3. ~AliveIn(f, requests[f][i].conv, up, convs)
    BY <1>5, <2>2 DEF ExportsDead
  <2>4. f = l /\ load[l].phase = "init" /\ convs[requests[f][i].conv].engine = l
    BY <2>1, <2>2, <2>3 DEF AliveIn
  <2>5. RequestRight(requests[f][i], send, resume, Len(convs))
    BY DEF OwnerInv, QueuesRight
  <2>6. requests[f][i].conv \in 1..Len(convs)
    BY <2>2, <2>5 DEF RequestRight
  <2>7. ReadyIn(load, l)
    BY <2>4, <2>6 DEF ClearInv, MadeRight
  <2>8. QED
    BY <2>4, <2>7, PageSets DEF ReadyIn
<1>6. QED
  BY <1>1, <1>3, <1>4, <1>5 DEF ClearInv

\* A step that changes nothing of this but what the requests are.
LEMMA ClearSame ==
    ASSUME ClearInv, UNCHANGED <<loaded, load, conv, up, convs, meta, blob, writes>>,
           HandlesReady(requests', load), OrderRight(requests', conv),
           pageCleared' = pageCleared \/ pageCleared' = FALSE,
           pageCleared => ExportsDead(requests', up, convs)
    PROVE  ClearInv'
BY DEF ClearInv

LEMMA StreamClear ==
    ASSUME ClearInv, NEW s \in Sends,
           \/ Page!Chunk(s) \/ Page!Stop(s) \/ Page!Saving(s) \/ Page!Throw(s) \/ Page!Release(s)
    PROVE  ClearInv'
<1>1. UNCHANGED <<loaded, load, conv, up, requests, convs, meta, blob, writes, pageCleared>>
  BY DEF Page!Chunk, Page!Stop, Page!Saving, Page!Throw, Page!Release,
         Page!page, Page!worker, Page!slot
<1>2. QED
  BY <1>1 DEF ClearInv

LEMMA ServedQueue ==
    ASSUME PageTypes, ClearInv, NEW e \in Page!Engines, requests[e] # <<>>
    PROVE  /\ HandlesReady(Page!Served(e), load) /\ OrderRight(Page!Served(e), conv)
           /\ pageCleared => ExportsDead(Page!Served(e), up, convs)
<1>1. Page!Served(e) = Taken(requests, e)
  BY DEF Taken, Page!Served
<1>2. requests \in [Page!Engines -> Seq(PageRequest)]
  BY DEF PageTypes
<1>3. HandlesReady(requests, load) /\ OrderRight(requests, conv)
      /\ (pageCleared => ExportsDead(requests, up, convs))
  BY DEF ClearInv
<1>4. /\ HandlesReady(Taken(requests, e), load) /\ OrderRight(Taken(requests, e), conv)
      /\ pageCleared => ExportsDead(Taken(requests, e), up, convs)
  BY <1>2, <1>3, TakenQueue
<1>5. QED
  BY <1>1, <1>4

LEMMA PostedQueue ==
    ASSUME PageTypes, ClearInv, NEW e \in Page!Engines, NEW r \in PageRequest,
           ReadyIn(load, r.handle), r.kind = "export" => r.conv = conv
    PROVE  /\ HandlesReady(Put(requests, e, r), load) /\ OrderRight(Put(requests, e, r), conv)
           /\ pageCleared /\ r.kind # "export" => ExportsDead(Put(requests, e, r), up, convs)
<1>1. requests \in [Page!Engines -> Seq(PageRequest)]
  BY DEF PageTypes
<1>2. HandlesReady(requests, load) /\ OrderRight(requests, conv)
      /\ (pageCleared => ExportsDead(requests, up, convs))
  BY DEF ClearInv
<1>3. QED
  BY <1>1, <1>2, PutQueue

LEMMA StartClear ==
    ASSUME PageTypes, ClearInv, NEW e \in Page!Engines, NEW s \in Sends, Page!Start(e, s)
    PROVE  ClearInv'
<1>1. UNCHANGED <<loaded, load, conv, up, convs, meta, blob, writes, pageCleared>>
      /\ requests' = Page!Served(e) /\ requests[e] # <<>>
  BY DEF Page!Start, Page!page, Page!slot, Page!Serving
<1>2. QED
  BY <1>1, ServedQueue, ClearSame

\* There is no disposal of a conversation that is not there.
LEMMA OrderElsewhere ==
    ASSUME OwnerInv, NEW c, c \notin 1..Len(convs)
    PROVE  OrderRight(requests, c)
<1>1. \A f \in Page!Engines : \A i \in DOMAIN requests[f] :
         RequestRight(requests[f][i], send, resume, Len(convs))
  BY DEF OwnerInv, QueuesRight
<1>2. \A f \in Page!Engines : \A i \in DOMAIN requests[f] :
         ~(requests[f][i].kind = "dispose" /\ requests[f][i].conv = c)
  BY <1>1 DEF RequestRight
<1>3. QED
  BY <1>2 DEF OrderRight

\* One more conversation.
LEMMA MadeMore ==
    ASSUME PageTypes, ClearInv, NEW C, Len(C) = Len(convs) + 1,
           \A c \in 1..Len(convs) : C[c].engine = convs[c].engine,
           C[Len(convs) + 1].engine # Nothing, ReadyIn(load, C[Len(convs) + 1].engine)
    PROVE  MadeRight(C, load)
<1>1. Len(convs) \in Nat
  BY DEF PageTypes
<1>2. \A c \in 1..Len(C) : c \in 1..Len(convs) \/ c = Len(convs) + 1
  BY <1>1
<1>3. QED
  BY <1>2 DEF ClearInv, MadeRight

LEMMA HandleReady ==
    ASSUME PageTypes, ClearInv, NEW e \in Page!Engines, requests[e] # <<>>, Page!HandleOf(e)
    PROVE  e # Nothing /\ ReadyIn(load, e)
<1>1. 1 \in DOMAIN requests[e] /\ Head(requests[e]) = requests[e][1]
  BY ServedIs
<1>2. e \in up /\ requests[e][1].handle = e
  BY <1>1 DEF Page!HandleOf
<1>3. ReadyIn(load, requests[e][1].handle)
  BY <1>1 DEF ClearInv, HandlesReady
<1>4. QED
  BY <1>2, <1>3, PageSets DEF PageTypes

\* The requests of the page carry the handle it has.
LEMMA HandleIs ==
    ASSUME ClearInv, NEW kind, NEW by, NEW c
    PROVE  /\ Page!Request(kind, by, c).handle = loaded /\ Page!Request(kind, by, c).kind = kind
           /\ Page!Request(kind, by, c).conv = c
           /\ ReadyIn(load, Page!Request(kind, by, c).handle)
<1>1. /\ Page!Request(kind, by, c).handle = loaded /\ Page!Request(kind, by, c).kind = kind
      /\ Page!Request(kind, by, c).conv = c
  BY DEF Page!Request
<1>2. QED
  BY <1>1 DEF ClearInv

\* A turn begins: what it changes of the conversations.
LEMMA BeginMade ==
    ASSUME NEW s \in Sends, NEW C \in Seq(PageConv), NEW c \in 1..Len(C),
           Page!BeginTurn(s, c, C), MadeRight(C, load)
    PROVE  MadeRight(convs', load) /\ pageCleared' = FALSE
<1>1. convs' = Said(C, c, "user") /\ "user" \in PageRoles /\ pageCleared' = FALSE
  BY DEF Page!BeginTurn, Said, PageRoles
<1>2. Len(convs') = Len(C) /\ \A d \in 1..Len(C) : convs'[d].engine = C[d].engine
  <2>1. /\ Len(convs') = Len(C) /\ convs'[c].engine = C[c].engine
        /\ \A d \in 1..Len(C) : d # c => convs'[d] = C[d]
    BY <1>1, MoreMessages
  <2>2. QED
    BY <2>1
<1>3. QED
  BY <1>1, <1>2 DEF MadeRight

LEMMA SendClear ==
    ASSUME PageTypes, ClearInv, NEW s \in Sends, Page!Send(s)
    PROVE  ClearInv'
<1>1. UNCHANGED <<loaded, load, conv, up, meta, blob, writes>> /\ pageEngine \in Page!Engines
  BY DEF Page!Send, Page!slot, PageTypes
<1>2. CASE conv # Nothing
  <2>1. Page!BeginTurn(s, conv, convs) /\ Page!Post(pageEngine, Page!Request("start", s, conv))
    BY <1>2 DEF Page!Send
  <2>2. conv \in 1..Len(convs) /\ convs \in Seq(PageConv)
    BY <1>2 DEF PageTypes
  <2>3. MadeRight(convs', load) /\ pageCleared' = FALSE
    BY <2>1, <2>2, BeginMade DEF ClearInv
  <2> DEFINE r == Page!Request("start", s, conv)
  <2>4. requests' = Put(requests, pageEngine, r)
    BY <2>1 DEF Page!Post, Put
  <2>5. r \in PageRequest
    BY <2>2, RequestType
  <2>6. r.kind = "start" /\ ReadyIn(load, r.handle)
    BY HandleIs
  <2> HIDE DEF r
  <2>7. HandlesReady(requests', load) /\ OrderRight(requests', conv)
    BY <1>1, <2>4, <2>5, <2>6, PostedQueue
  <2>8. QED
    BY <1>1, <2>3, <2>7 DEF ClearInv
<1>3. CASE conv = Nothing
  <2>1. Page!Post(pageEngine, Page!Request("create", s, Nothing)) /\ UNCHANGED <<convs, pageCleared>>
    BY <1>3 DEF Page!Send
  <2> DEFINE r == Page!Request("create", s, Nothing)
  <2>2. requests' = Put(requests, pageEngine, r)
    BY <2>1 DEF Page!Post, Put
  <2>3. r \in PageRequest
    BY RequestType
  <2>4. r.kind = "create" /\ ReadyIn(load, r.handle)
    BY HandleIs
  <2> HIDE DEF r
  <2>5. /\ HandlesReady(requests', load) /\ OrderRight(requests', conv)
        /\ pageCleared => ExportsDead(requests', up, convs)
    BY <1>1, <2>2, <2>3, <2>4, PostedQueue
  <2>6. QED
    BY <1>1, <2>1, <2>5, ClearSame
<1>4. QED
  BY <1>2, <1>3

LEMMA CreateClear ==
    ASSUME PageTypes, OwnerInv, ClearInv, NEW e \in Page!Engines, NEW s \in Sends,
           Page!Create(e, s)
    PROVE  ClearInv'
<1>1. UNCHANGED <<loaded, load, up, meta, blob, writes>> /\ Page!Serving(e, "create", s)
  BY DEF Page!Create, Page!slot
<1>2. requests[e] # <<>>
  BY <1>1 DEF Page!Serving
<1>3. CASE Page!HandleOf(e)
  <2> DEFINE C == Page!Created(e, <<>>, FALSE)
  <2>1. /\ conv' = Len(convs) + 1 /\ Page!BeginTurn(s, conv', C)
        /\ requests' = [Page!Served(e) EXCEPT ![pageEngine] =
                          Append(@, Page!Request("start", s, conv'))]
    BY <1>3 DEF Page!Create
  <2>2. IsCreated(C, e, <<>>, FALSE)
    <3>1. <<>> \in Seq(PageRoles) /\ FALSE \in BOOLEAN
      OBVIOUS
    <3>2. QED
      BY <3>1, CreatedBoth
  <2> HIDE DEF C
  <2>3. e # Nothing /\ ReadyIn(load, e)
    BY <1>2, <1>3, HandleReady
  <2>4. MadeRight(C, load) /\ C \in Seq(PageConv) /\ Len(C) = Len(convs) + 1
        /\ Len(convs) \in Nat
    <3>1. Len(convs) \in Nat
      BY DEF PageTypes
    <3>2. QED
      BY <2>2, <2>3, <3>1, MadeMore DEF IsCreated
  <2>5. conv' \in 1..Len(C) /\ conv' \notin 1..Len(convs) /\ conv' \in Nat
    <3>1. conv' = Len(convs) + 1
      BY <2>1
    <3>2. QED
      BY <2>4, <3>1
  <2>6. MadeRight(convs', load) /\ pageCleared' = FALSE
    BY <2>1, <2>4, <2>5, BeginMade
  <2> DEFINE r == Page!Request("start", s, conv')
  <2>7. requests' = Put(Page!Served(e), pageEngine, r)
    BY <2>1 DEF Put
  <2>8. r \in PageRequest
    BY <2>5, RequestType
  <2>9. r.kind = "start" /\ ReadyIn(load, r.handle)
    BY HandleIs
  <2> HIDE DEF r
  <2>10. HandlesReady(Page!Served(e), load) /\ OrderRight(Page!Served(e), conv')
    <3>1. OrderRight(requests, conv') /\ HandlesReady(requests, load)
      BY <2>5, OrderElsewhere DEF ClearInv
    <3>2. Page!Served(e) = Taken(requests, e) /\ requests \in [Page!Engines -> Seq(PageRequest)]
      BY DEF Page!Served, Taken, PageTypes
    <3>3. HandlesReady(Taken(requests, e), load) /\ OrderRight(Taken(requests, e), conv')
      BY <1>2, <3>1, <3>2, TakenQueue
    <3>4. QED
      BY <3>2, <3>3
  <2>11. HandlesReady(requests', load) /\ OrderRight(requests', conv')
    <3>1. Page!Served(e) \in [Page!Engines -> Seq(PageRequest)] /\ pageEngine \in Page!Engines
      BY <1>2, ServedIs DEF PageTypes
    <3>2. HandlesReady(Put(Page!Served(e), pageEngine, r), load)
          /\ OrderRight(Put(Page!Served(e), pageEngine, r), conv')
      BY <2>8, <2>9, <2>10, <3>1, PutQueue
    <3>3. QED
      BY <2>7, <3>2
  <2>12. QED
    BY <1>1, <2>6, <2>11 DEF ClearInv
<1>4. CASE ~Page!HandleOf(e)
  <2>1. requests' = Page!Served(e) /\ UNCHANGED <<conv, convs, pageCleared>>
    BY <1>4 DEF Page!Create
  <2>2. QED
    BY <1>1, <1>2, <2>1, ServedQueue, ClearSame
<1>5. QED
  BY <1>3, <1>4

LEMMA EndClear ==
    ASSUME PageTypes, OwnerInv, ClearInv, NEW s \in Sends,
           Page!TurnDone(s) \/ Page!TurnStopped(s) \/ Page!TurnFails(s)
    PROVE  ClearInv'
<1>1. send[s].conv \in 1..Len(convs)
  BY EndsAnswered
<1>2. PICK m \in Seq(PageRoles), failed \in BOOLEAN :
         Page!AfterTurn(s, Page!Turned(s, m, failed))
  BY EndsAnswered
<1> DEFINE C == Page!Turned(s, m, failed)
<1>3. /\ C \in Seq(PageConv) /\ Len(C) = Len(convs)
      /\ \A d \in 1..Len(convs) : C[d].engine = convs[d].engine /\ C[d].gone = convs[d].gone
  <2>1. /\ C \in Seq(PageConv) /\ Len(C) = Len(convs)
        /\ \A d \in 1..Len(convs) : d # send[s].conv => C[d] = convs[d]
        /\ C[send[s].conv].engine = convs[send[s].conv].engine
        /\ C[send[s].conv].gone = convs[send[s].conv].gone
    BY <1>1, TurnedIs
  <2>2. QED
    BY <2>1
<1>4. Page!AfterTurn(s, C)
  BY <1>2
<1> HIDE DEF C
<1>5. UNCHANGED <<loaded, load, conv, up, blob, writes, pageCleared>> /\ convs' = C
      /\ pageEngine \in Page!Engines
  BY <1>4 DEF Page!AfterTurn, PageTypes
<1>6. MadeRight(convs', load)
  BY <1>3, <1>5 DEF ClearInv, MadeRight
<1>7. CASE conv # Nothing /\ loaded # Nothing
  <2>1. Page!Post(pageEngine, Page!Request("export", s, conv))
    BY <1>4, <1>7 DEF Page!AfterTurn, Page!ToSave
  <2>2. ~pageCleared
    BY <1>7 DEF ClearInv
  <2> DEFINE r == Page!Request("export", s, conv)
  <2>3. requests' = Put(requests, pageEngine, r)
    BY <2>1 DEF Page!Post, Put
  <2>4. r \in PageRequest
    BY ConvType, RequestType
  <2>5. r.conv = conv /\ ReadyIn(load, r.handle)
    BY HandleIs
  <2> HIDE DEF r
  <2>6. HandlesReady(requests', load) /\ OrderRight(requests', conv)
    BY <1>5, <2>3, <2>4, <2>5, PostedQueue
  <2>7. QED
    BY <1>5, <1>6, <2>2, <2>6 DEF ClearInv
<1>8. CASE ~(conv # Nothing /\ loaded # Nothing)
  <2>1. UNCHANGED <<meta, requests>>
    BY <1>4, <1>8 DEF Page!AfterTurn, Page!ToSave
  <2>2. ASSUME ExportsDead(requests, up, convs)
        PROVE  ExportsDead(requests, up, C)
    <3>1. \A f \in Page!Engines : \A i \in DOMAIN requests[f] :
             requests[f][i].kind = "export" => requests[f][i].conv \in 1..Len(convs)
      BY DEF OwnerInv, QueuesRight, RequestRight
    <3>2. QED
      BY <1>3, <2>2, <3>1 DEF ExportsDead, AliveIn
  <2>3. QED
    BY <1>5, <1>6, <2>1, <2>2 DEF ClearInv
<1>9. QED
  BY <1>7, <1>8

LEMMA ExportClear ==
    ASSUME PageTypes, OwnerInv, ClearInv, NEW e \in Page!Engines, NEW s \in Sends,
           Page!Export(e, s)
    PROVE  ClearInv'
<1>1. UNCHANGED <<loaded, load, conv, up, convs, meta, blob, pageCleared>>
      /\ requests' = Page!Served(e) /\ requests[e] # <<>> /\ Head(requests[e]).kind = "export"
  BY DEF Page!Export, Page!Serving
<1>2. /\ HandlesReady(requests', load) /\ OrderRight(requests', conv)
      /\ pageCleared => ExportsDead(requests', up, convs)
  BY <1>1, ServedQueue
<1>3. CASE pageCleared
  <2>1. 1 \in DOMAIN requests[e] /\ Head(requests[e]) = requests[e][1]
    BY <1>1, ServedIs
  <2>2. ~AliveIn(e, requests[e][1].conv, up, convs)
    BY <1>1, <1>3, <2>1 DEF ClearInv, ExportsDead
  <2>3. ~Page!Alive(e, Head(requests[e]).conv)
    BY <2>1, <2>2 DEF AliveIn, Page!Alive
  <2>4. UNCHANGED writes
    BY <2>3 DEF Page!Export
  <2>5. QED
    BY <1>1, <1>2, <2>4 DEF ClearInv
<1>4. CASE ~pageCleared
  BY <1>1, <1>2, <1>4 DEF ClearInv
<1>5. QED
  BY <1>3, <1>4

LEMMA CommitClear ==
    ASSUME PageTypes, ClearInv, Page!Commit
    PROVE  ClearInv'
<1>1. /\ UNCHANGED <<loaded, load, conv, up, requests, convs, meta, pageCleared>>
      /\ Len(writes) \in Nat \ {0} /\ blob' = writes[1].blob
      /\ writes' \in Seq(PageWrite) /\ Len(writes') = Len(writes) - 1
      /\ \A i \in 1..Len(writes') : writes'[i] = writes[i + 1]
  BY CommitIs
<1>2. ASSUME LastGone(writes, blob)
      PROVE  LastGone(writes', blob')
  <2>1. writes[Len(writes)].blob = Nothing
    BY <1>1, <1>2 DEF LastGone
  <2>2. CASE writes' = <<>>
    <3>1. Len(writes) = 1
      BY <1>1, <2>2
    <3>2. QED
      BY <1>1, <2>1, <2>2, <3>1 DEF LastGone
  <2>3. CASE writes' # <<>>
    <3>1. Len(writes') \in 1..Len(writes') /\ Len(writes') + 1 = Len(writes)
      BY <1>1, <2>3
    <3>2. writes'[Len(writes')] = writes[Len(writes') + 1]
      BY <1>1, <3>1
    <3>3. QED
      BY <2>1, <2>3, <3>1, <3>2 DEF LastGone
  <2>4. QED
    BY <2>2, <2>3
<1>3. QED
  BY <1>1, <1>2 DEF ClearInv

LEMMA ClearClear ==
    ASSUME PageTypes, ClearInv, NEW k \in Clears, Page!Clear(k)
    PROVE  ClearInv'
<1>1. UNCHANGED <<loaded, load, conv, up, convs, meta, blob, writes, pageCleared>>
      /\ conv # Nothing /\ Page!Post(pageEngine, Page!Request("dispose", k, conv))
  BY DEF Page!Clear, Page!page, Page!slot
<1>2. ~pageCleared /\ pageEngine \in Page!Engines
  BY <1>1 DEF ClearInv, PageTypes
<1> DEFINE r == Page!Request("dispose", k, conv)
<1>3. requests' = Put(requests, pageEngine, r)
  BY <1>1 DEF Page!Post, Put
<1>4. r \in PageRequest
  BY ConvType, RequestType
<1>5. r.kind = "dispose" /\ ReadyIn(load, r.handle)
  BY HandleIs
<1> HIDE DEF r
<1>6. HandlesReady(requests', load) /\ OrderRight(requests', conv)
  BY <1>2, <1>3, <1>4, <1>5, PostedQueue
<1>7. QED
  BY <1>1, <1>2, <1>6, ClearSame

\* The write that deletes what is saved.
LEMMA DeletedLast ==
    ASSUME PageTypes
    PROVE  \A b : LastGone(Append(writes, Page!Delete), b)
<1>1. writes \in Seq(PageWrite) /\ Page!Delete \in PageWrite /\ Page!Delete.blob = Nothing
  BY DEF PageTypes, PageWrite, Page!Delete
<1> DEFINE d == Page!Delete
<1>2. d \in PageWrite /\ d.blob = Nothing
  BY <1>1
<1> HIDE DEF d
<1> DEFINE w == Append(writes, d)
<1>3. w # <<>> /\ w[Len(w)] = d
  BY <1>1, <1>2
<1>4. \A b : LastGone(w, b)
  BY <1>2, <1>3 DEF LastGone
<1>5. QED
  BY <1>4 DEF d

LEMMA DisposeClear ==
    ASSUME PageTypes, OwnerInv, ClearInv, NEW e \in Page!Engines, NEW k \in Clears,
           Page!Dispose(e, k)
    PROVE  ClearInv'
<1>1. /\ UNCHANGED <<loaded, load, up, blob>>
      /\ conv' = Nothing /\ meta' = Nothing
      /\ requests' = Page!Served(e) /\ writes' = Append(writes, Page!Delete)
      /\ requests[e] # <<>> /\ Head(requests[e]).kind = "dispose"
  BY DEF Page!Dispose, Page!Serving
<1>2. convs' = Disposed(e)
  BY DEF Page!Dispose, Disposed
<1>3. pageCleared' => Head(requests[e]).conv = conv /\ ~Page!ExportedElsewhere(e)
  BY DEF Page!Dispose
<1>4. /\ 1 \in DOMAIN requests[e] /\ Head(requests[e]) = requests[e][1]
  BY <1>1, ServedIs
<1>5. \A f \in Page!Engines : \A i \in DOMAIN requests[f] :
         RequestRight(requests[f][i], send, resume, Len(convs))
  BY DEF OwnerInv, QueuesRight
<1>6. Head(requests[e]).conv \in 1..Len(convs)
  BY <1>1, <1>4, <1>5 DEF RequestRight
<1>7. /\ Disposed(e) \in Seq(PageConv) /\ Len(Disposed(e)) = Len(convs)
      /\ \A d \in 1..Len(convs) : /\ Disposed(e)[d].engine = convs[d].engine
                                  /\ convs[d].gone => Disposed(e)[d].gone
      /\ Page!Alive(e, Head(requests[e]).conv) => Disposed(e)[Head(requests[e]).conv].gone
  BY <1>6, DisposedIs
<1>8. MadeRight(convs', load)
  BY <1>2, <1>7 DEF ClearInv, MadeRight
<1>9. requests \in [Page!Engines -> Seq(PageRequest)] /\ Page!Served(e) = Taken(requests, e)
  BY DEF PageTypes, Page!Served, Taken
<1>10. HandlesReady(requests', load) /\ OrderRight(requests', Nothing)
  <2>1. Nothing \notin 1..Len(convs)
    BY PageSets DEF PageTypes
  <2>2. OrderRight(requests, Nothing) /\ HandlesReady(requests, load)
    BY <2>1, OrderElsewhere DEF ClearInv
  <2>3. HandlesReady(Taken(requests, e), load) /\ OrderRight(Taken(requests, e), Nothing)
    BY <1>1, <1>9, <2>2, TakenQueue
  <2>4. QED
    BY <1>1, <1>9, <2>3
<1>11. LastGone(writes', blob')
  BY <1>1, DeletedLast
<1>12. ASSUME pageCleared'
       PROVE  ExportsDead(requests', up, convs')
  <2>1. SUFFICES ASSUME NEW f \in Page!Engines, NEW i \in DOMAIN requests'[f],
                        requests'[f][i].kind = "export",
                        AliveIn(f, requests'[f][i].conv, up, convs')
                 PROVE  FALSE
    BY DEF ExportsDead
  <2>2. Head(requests[e]).conv = conv /\ ~Page!ExportedElsewhere(e)
    BY <1>3, <1>12
  <2>3. /\ \A j \in DOMAIN requests'[e] :
              j + 1 \in DOMAIN requests[e] /\ requests'[e][j] = requests[e][j + 1]
        /\ \A g \in Page!Engines : g # e => requests'[g] = requests[g]
        /\ \A j \in DOMAIN requests'[e] : j \in Nat \ {0}
    <3>1. requests' = [requests EXCEPT ![e] = Tail(@)]
      BY <1>1 DEF Page!Served
    <3>2. QED
      BY <1>1, <1>9, <3>1, TakenOff
  <2>4. CASE f = e
    <3>1. i + 1 \in DOMAIN requests[e] /\ requests'[e][i] = requests[e][i + 1] /\ 1 < i + 1
      BY <2>1, <2>3, <2>4
    <3>2. requests[e][i + 1].conv = conv
      BY <1>1, <1>4, <2>1, <2>2, <2>4, <3>1 DEF ClearInv, OrderRight
    <3>3. AliveIn(e, conv, up, convs')
      BY <2>1, <2>4, <3>1, <3>2
    <3>4. conv \in 1..Len(convs) /\ (convs[conv].gone => convs'[conv].gone)
          /\ convs'[conv].engine = convs[conv].engine
      BY <1>2, <1>6, <1>7, <2>2
    <3>5. Page!Alive(e, conv)
      BY <3>3, <3>4 DEF AliveIn, Page!Alive
    <3>6. convs'[conv].gone
      BY <1>2, <1>7, <2>2, <3>5
    <3>7. QED
      BY <3>3, <3>6 DEF AliveIn
  <2>5. CASE f # e
    <3>1. requests'[f] = requests[f]
      BY <2>3, <2>5
    <3> DEFINE d == requests[f][i].conv
    <3>2. d \in 1..Len(convs)
      BY <1>5, <2>1, <3>1 DEF RequestRight
    <3>3. f \in up /\ convs'[d].engine = f
      BY <2>1, <3>1 DEF AliveIn
    <3>4. convs[d].engine = f
      BY <1>2, <1>7, <3>2, <3>3
    <3>5. Page!Alive(f, d)
      BY <1>2, <1>7, <2>1, <3>1, <3>2, <3>4 DEF AliveIn, Page!Alive
    <3>6. f \in up \ {e} /\ i \in DOMAIN requests[f] /\ requests[f][i].kind = "export"
      BY <2>1, <2>5, <3>1, <3>3
    <3>7. QED
      BY <2>2, <3>5, <3>6 DEF Page!ExportedElsewhere
  <2>6. QED
    BY <2>4, <2>5
<1>13. QED
  BY <1>1, <1>8, <1>10, <1>11, <1>12 DEF ClearInv

LEMMA ReloadClear ==
    ASSUME PageTypes, Page!Reload
    PROVE  ClearInv'
<1>1. /\ loaded' = Nothing /\ conv' = Nothing /\ convs' = <<>> /\ pageCleared' = FALSE
      /\ requests' = [e \in Page!Engines |-> <<>>]
  BY DEF Page!Reload, PageTypes
<1>2. \A f \in Page!Engines : DOMAIN requests'[f] = {}
  BY <1>1
<1>3. ReadyIn(load', loaded') /\ MadeRight(convs', load')
  BY <1>1 DEF ReadyIn, MadeRight
<1>4. HandlesReady(requests', load') /\ OrderRight(requests', conv')
  BY <1>2 DEF HandlesReady, OrderRight
<1>5. QED
  BY <1>1, <1>3, <1>4 DEF ClearInv

LEMMA DiscardClear ==
    ASSUME PageTypes, ClearInv, Page!Discard
    PROVE  ClearInv'
<1>1. UNCHANGED <<loaded, load, conv, up, requests, convs, blob, pageCleared>>
      /\ meta' = Nothing /\ writes' = Append(writes, Page!Delete)
  BY DEF Page!Discard, Page!worker
<1>2. LastGone(writes', blob')
  BY <1>1, DeletedLast
<1>3. QED
  BY <1>1, <1>2 DEF ClearInv

LEMMA ResumeClear ==
    ASSUME PageTypes, ClearInv, NEW l \in Loads, Page!Resume(l)
    PROVE  ClearInv'
<1>1. UNCHANGED <<conv, up, requests, convs, meta, blob, writes>> /\ pageCleared' = FALSE
      /\ (loaded' = loaded \/ loaded' = Nothing)
  BY DEF Page!Resume, Page!loadModelById, Page!worker, Page!slot
<1>2. LoadsKept
  <2>1. load \in [Loads -> LoadState] /\ load[l].phase = "none"
    BY DEF PageTypes, Page!Resume, Page!loadModelById, Page!NoLoad
  <2>2. QED
    BY <2>1 DEF LoadsKept, Page!Resume, Page!loadModelById
<1>3. /\ HandlesReady(requests, load') /\ MadeRight(convs, load') /\ ReadyIn(load', loaded')
  BY <1>1, <1>2, ReadyKept DEF ClearInv, PageTypes, ReadyIn
<1>4. QED
  BY <1>1, <1>3 DEF ClearInv

LEMMA ResumeLoadedClear ==
    ASSUME PageTypes, OwnerInv, ClearInv, Page!ResumeLoaded
    PROVE  ClearInv'
<1>1. UNCHANGED <<loaded, load, conv, up, convs, meta, blob, writes, pageCleared>>
  BY DEF Page!ResumeLoaded, Page!page, Page!slot
<1>2. CASE load[resume.load].phase = "failed"
  <2>1. requests' = requests
    BY <1>2 DEF Page!ResumeLoaded
  <2>2. QED
    BY <1>1, <2>1 DEF ClearInv
<1>3. CASE load[resume.load].phase # "failed"
  <2>1. PICK r \in PageRequest, l \in Loads :
             /\ load[l].phase = "ready" /\ load[l].engine \in Page!Engines
             /\ r.kind \in {"create", "import"} /\ r.handle = l
             /\ requests' = [requests EXCEPT ![load[l].engine] = Append(@, r)]
    BY <1>3, AskedFor
  <2>2. PICK f \in Page!Engines : f = load[l].engine
    BY <2>1
  <2>3. requests' = Put(requests, f, r)
    BY <2>1, <2>2 DEF Put
  <2>4. ReadyIn(load, r.handle) /\ r.kind # "export"
    BY <2>1 DEF ReadyIn
  <2>5. /\ HandlesReady(requests', load) /\ OrderRight(requests', conv)
        /\ pageCleared => ExportsDead(requests', up, convs)
    BY <2>3, <2>4, PostedQueue
  <2>6. QED
    BY <1>1, <2>5, ClearSame
<1>4. QED
  BY <1>2, <1>3

LEMMA AgainClear ==
    ASSUME PageTypes, ClearInv, NEW e \in Page!Engines, AskedAgain(e)
    PROVE  ClearInv'
<1>1. UNCHANGED <<loaded, load, conv, up, convs, meta, blob, writes, pageCleared>>
  BY DEF AskedAgain
<1>2. requests[e] # <<>>
  BY DEF AskedAgain, Page!Serving
<1>3. PICK q \in [Page!Engines -> Seq(PageRequest)] : q = Page!Served(e)
  BY <1>2, ServedIs
<1>4. PICK x \in PageRequest : x.kind = "create" /\ x.handle = requests[e][1].handle
                               /\ requests' = Put(q, e, x)
  <2>1. 1 \in DOMAIN requests[e] /\ Head(requests[e]) = requests[e][1]
        /\ requests[e][1] \in PageRequest
    BY <1>2, ServedIs DEF PageTypes
  <2>2. PICK x \in PageRequest : x = [Head(requests[e]) EXCEPT !.kind = "create"]
    BY <2>1 DEF PageRequest
  <2>3. x.kind = "create" /\ x.handle = requests[e][1].handle
    BY <2>1, <2>2 DEF PageRequest
  <2>4. requests' = [requests EXCEPT ![e] = Append(Tail(@), x)]
    BY <2>2 DEF AskedAgain
  <2>5. requests' = Put(q, e, x)
    BY <1>3, <2>4 DEF Put, Page!Served, PageTypes
  <2>6. QED
    BY <2>3, <2>5
<1>5. ReadyIn(load, x.handle)
  <2>1. 1 \in DOMAIN requests[e]
    BY <1>2, ServedIs
  <2>2. QED
    BY <1>4, <2>1 DEF ClearInv, HandlesReady
<1>6. /\ HandlesReady(q, load) /\ OrderRight(q, conv)
      /\ pageCleared => ExportsDead(q, up, convs)
  BY <1>2, <1>3, ServedQueue
<1>7. /\ HandlesReady(Put(q, e, x), load) /\ OrderRight(Put(q, e, x), conv)
      /\ pageCleared => ExportsDead(Put(q, e, x), up, convs)
  BY <1>4, <1>5, <1>6, PutQueue
<1>8. QED
  BY <1>1, <1>4, <1>7, ClearSame

LEMMA ResumedClear ==
    ASSUME PageTypes, OwnerInv, ClearInv, NEW e \in Page!Engines, Page!Resumed(e)
    PROVE  ClearInv'
<1>1. CASE ResumedInto(e)
  <2> DEFINE C == Page!Created(e, resume.meta.messages, resume.meta.odd)
  <2>1. /\ Page!HandleOf(e) /\ convs' = C /\ conv' = Len(convs) + 1
        /\ requests' = Page!Served(e) /\ pageCleared' = FALSE /\ requests[e] # <<>>
        /\ UNCHANGED <<loaded, load, up>>
    BY <1>1 DEF ResumedInto, Page!Serving
  <2>2. IsCreated(C, e, resume.meta.messages, resume.meta.odd)
    <3>1. resume.meta \in Slot
      BY <1>1, WasAsked DEF ResumedInto
    <3>2. resume.meta.messages \in Seq(PageRoles) /\ resume.meta.odd \in BOOLEAN
      BY <3>1 DEF Slot
    <3>3. QED
      BY <3>2, CreatedBoth
  <2> HIDE DEF C
  <2>3. e # Nothing /\ ReadyIn(load, e)
    BY <2>1, HandleReady
  <2>4. Len(convs) \in Nat
    BY DEF PageTypes
  <2>5. MadeRight(C, load)
    BY <2>2, <2>3, <2>4, MadeMore DEF IsCreated
  <2>6. conv' \notin 1..Len(convs)
    BY <2>1, <2>4
  <2>7. OrderRight(requests, conv') /\ HandlesReady(requests, load)
    BY <2>6, OrderElsewhere DEF ClearInv
  <2>8. Page!Served(e) = Taken(requests, e) /\ requests \in [Page!Engines -> Seq(PageRequest)]
    BY DEF Page!Served, Taken, PageTypes
  <2>9. HandlesReady(Taken(requests, e), load) /\ OrderRight(Taken(requests, e), conv')
    BY <2>1, <2>7, <2>8, TakenQueue
  <2>10. QED
    BY <2>1, <2>5, <2>8, <2>9 DEF ClearInv
<1>2. CASE AskedAgain(e)
  BY <1>2, AgainClear
<1>3. CASE NotResumed(e)
  <2>1. UNCHANGED <<loaded, load, conv, up, convs, meta, blob, writes, pageCleared>>
        /\ requests' = Page!Served(e) /\ requests[e] # <<>>
    BY <1>3 DEF NotResumed, Page!Serving
  <2>2. QED
    BY <2>1, ServedQueue, ClearSame
<1>4. QED
  BY <1>1, <1>2, <1>3, ResumedCases

LEMMA ClearInit ==
    ASSUME Page!Init
    PROVE  ClearInv
<1>1. /\ loaded = Nothing /\ conv = Nothing /\ convs = <<>> /\ pageCleared = FALSE
      /\ requests = [e \in Page!Engines |-> <<>>]
  BY DEF Page!Init, Page!Engines
<1>2. \A f \in Page!Engines : DOMAIN requests[f] = {}
  BY <1>1
<1>3. ReadyIn(load, loaded) /\ MadeRight(convs, load)
  BY <1>1 DEF ReadyIn, MadeRight
<1>4. HandlesReady(requests, load) /\ OrderRight(requests, conv)
  BY <1>2 DEF HandlesReady, OrderRight
<1>5. QED
  BY <1>1, <1>3, <1>4 DEF ClearInv

LEMMA ClearStutters ==
    ASSUME ClearInv, UNCHANGED Page!vars
    PROVE  ClearInv'
<1>1. UNCHANGED <<loaded, load, conv, up, requests, convs, meta, blob, writes, pageCleared>>
  BY DEF Page!vars, Page!page, Page!worker, Page!slot
<1>2. QED
  BY <1>1 DEF ClearInv

LEMMA ClearSteps ==
    ASSUME PageInv, ClearInv, Page!Next
    PROVE  ClearInv'
<1>1. PageTypes /\ OwnerInv
  BY DEF PageInv
<1>2. ASSUME NEW l \in Loads,
             \/ Page!ModelChange(l) \/ Page!InitDone(l) \/ Page!LoadDone(l)
             \/ Page!LoadFails(l)
      PROVE  ClearInv'
  BY <1>1, <1>2, LoadingClear
<1>3. ASSUME NEW l \in Loads, Page!Resume(l)
      PROVE  ClearInv'
  BY <1>1, <1>3, ResumeClear
<1>4. ASSUME NEW s \in Sends, Page!Send(s)
      PROVE  ClearInv'
  BY <1>1, <1>4, SendClear
<1>5. ASSUME NEW s \in Sends,
             \/ Page!Chunk(s) \/ Page!Stop(s) \/ Page!Saving(s) \/ Page!Throw(s) \/ Page!Release(s)
      PROVE  ClearInv'
  BY <1>5, StreamClear
<1>6. ASSUME NEW s \in Sends, Page!TurnDone(s) \/ Page!TurnStopped(s) \/ Page!TurnFails(s)
      PROVE  ClearInv'
  BY <1>1, <1>6, EndClear
<1>7. ASSUME NEW e \in Page!Engines, NEW s \in Sends, Page!Create(e, s)
      PROVE  ClearInv'
  BY <1>1, <1>7, CreateClear
<1>8. ASSUME NEW e \in Page!Engines, NEW s \in Sends, Page!Start(e, s)
      PROVE  ClearInv'
  BY <1>1, <1>8, StartClear
<1>9. ASSUME NEW e \in Page!Engines, NEW s \in Sends, Page!Export(e, s)
      PROVE  ClearInv'
  BY <1>1, <1>9, ExportClear
<1>10. ASSUME NEW k \in Clears, Page!Clear(k)
       PROVE  ClearInv'
  BY <1>1, <1>10, ClearClear
<1>11. ASSUME NEW e \in Page!Engines, NEW k \in Clears, Page!Dispose(e, k)
       PROVE  ClearInv'
  BY <1>1, <1>11, DisposeClear
<1>12. ASSUME NEW e \in Page!Engines, Page!Resumed(e)
       PROVE  ClearInv'
  BY <1>1, <1>12, ResumedClear
<1>13. CASE Page!Commit
  BY <1>1, <1>13, CommitClear
<1>14. CASE Page!Reload
  BY <1>1, <1>14, ReloadClear
<1>15. CASE Page!Discard
  BY <1>1, <1>15, DiscardClear
<1>16. CASE Page!ResumeLoaded
  BY <1>1, <1>16, ResumeLoadedClear
<1>17. QED
  BY <1>2, <1>3, <1>4, <1>5, <1>6, <1>7, <1>8, <1>9, <1>10, <1>11, <1>12, <1>13, <1>14, <1>15,
     <1>16 DEF Page!Next

\* What a clear has removed stays removed: no turn, no export and no write that was under way
\* brings the metadata or the blob back (clearConversation and saveCurrent of the chat page),
\* unless the clear found an engine left behind with a conversation of its own yet to be
\* exported; for any number of engines, sends and clears.
THEOREM ClearedStays == Page!Spec => []ClearedIsGone
<1>1. Page!Init => PageInv /\ ClearInv
  BY PageInit, ClearInit
<1>2. PageInv /\ ClearInv /\ [Page!Next]_Page!vars => (PageInv /\ ClearInv)'
  BY PageSteps, PageStutters, ClearSteps, ClearStutters
<1>3. ClearInv => ClearedIsGone
  BY ClearedFrom
<1>4. QED
  BY <1>1, <1>2, <1>3, PTL DEF Page!Spec
================================================================================
