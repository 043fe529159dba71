------------------------ MODULE ConversationChatProofs ------------------------
(***************************************************************************)
(* Theorems about ConversationChat, for any conversations, calls, tokens,  *)
(* prompts and sizes.  The chain of promises serialises the calls because  *)
(* a waiting call's promise belongs to a call that joined no earlier than  *)
(* any other call still open, so the call at the head of the chain is the  *)
(* only one whose promise can have been resolved.  The one call inside     *)
(* therefore writes the shared cache alone, which keeps its context its    *)
(* own, and what it saves is what the abstract specification keeps.        *)
(***************************************************************************)
EXTENDS ConversationChatIsolation, FiniteSetTheorems, TLAPS

USE ChatAssumption

Joined(c) == call[c].phase # "idle"

(***************************************************************************)
(* The order of joining.  While the model has its record, the tail of the  *)
(* chain is the last open call and every open call but the first waits for *)
(* one that joined no earlier than each of its predecessors.               *)
(***************************************************************************)

Tickets ==
    /\ \A c \in Calls : Joined(c) => ticket[c] <= joined
    /\ \A c, d \in Calls : Joined(c) /\ Joined(d) /\ ticket[c] = ticket[d] => c = d

TailIsLast ==
    \A c \in Calls : Open(c) => /\ chain \in Calls /\ Open(chain)
                                /\ ticket[c] <= ticket[chain]

BehindAll ==
    \A c, d \in Calls : Open(c) /\ Open(d) /\ ticket[c] < ticket[d] =>
        /\ Waiting(d)
        /\ call[d].prior \in Calls /\ Open(call[d].prior)
        /\ ticket[c] <= ticket[call[d].prior]

OrderInv ==
    /\ Tickets
    /\ OneInside /\ FirstComeFirstServed
    /\ model # "gone" => TailIsLast /\ BehindAll

\* The part of the types the order rests on.
ControlType ==
    /\ call \in [Calls -> CallType]
    /\ ticket \in [Calls -> Nat]
    /\ joined \in Nat
    /\ chain \in Calls \cup {None}

\* Between joining and ending, what a call does leaves the order alone.
SameOrder ==
    /\ \A c \in Calls : /\ call'[c].prior = call[c].prior
                        /\ Joined(c)' <=> Joined(c)
                        /\ Open(c)' <=> Open(c)
                        /\ Waiting(c)' <=> Waiting(c)
    /\ UNCHANGED <<ticket, joined>>

LEMMA InitOrder == Init => OrderInv
BY DEF Init, NotStarted, Invocation, OrderInv, Tickets, OneInside, FirstComeFirstServed,
       TailIsLast, BehindAll, Open, Inside, Waiting, Joined

LEMMA SameKeepsOrder ==
    ASSUME ControlType, OrderInv, SameOrder,
           model' # "gone" => model # "gone" /\ chain' = chain
    PROVE  OrderInv'
<1>1. Tickets'
  BY DEF OrderInv, Tickets, SameOrder
<1>2. OneInside' /\ FirstComeFirstServed'
  BY DEF OrderInv, OneInside, FirstComeFirstServed, Inside, SameOrder
<1>3. ASSUME model' # "gone" PROVE TailIsLast' /\ BehindAll'
  <2>1. TailIsLast /\ BehindAll /\ chain' = chain
    BY <1>3 DEF OrderInv
  <2>2. TailIsLast'
    BY <2>1 DEF TailIsLast, SameOrder
  <2>3. BehindAll'
    BY <2>1 DEF BehindAll, SameOrder
  <2>4. QED
    BY <2>2, <2>3
<1>4. QED
  BY <1>1, <1>2, <1>3 DEF OrderInv

\* A call joins behind all others.
LEMMA BeginKeepsOrder ==
    ASSUME ControlType, OrderInv, NEW c \in Calls, NEW v \in Convs, NEW p \in Prompts,
           ChatBegin(c, v, p)
    PROVE  OrderInv'
<1>1. /\ ~Joined(c) /\ ~Open(c)
      /\ call'[c].phase = "waiting" /\ call'[c].prior = chain
      /\ \A d \in Calls : d # c => call'[d] = call[d]
  BY DEF ChatBegin, ChainTail, ControlType, Invocation, Joined, Open
<1>2. /\ ticket'[c] = joined + 1 /\ joined' = joined + 1 /\ model' = model
      /\ \A d \in Calls : d # c => ticket'[d] = ticket[d]
      /\ chain' = IF model = "gone" THEN chain ELSE c
  BY DEF ChatBegin, ControlType
<1>3. /\ Joined(c)' /\ Open(c)' /\ Waiting(c)'
      /\ \A d \in Calls : d # c => /\ Joined(d)' <=> Joined(d)
                                   /\ Open(d)' <=> Open(d)
                                   /\ Waiting(d)' <=> Waiting(d)
  BY <1>1 DEF Joined, Open, Waiting
<1>4. /\ joined \in Nat /\ \A d \in Calls : ticket[d] \in Nat
      /\ \A d \in Calls : Open(d) => Joined(d)
  BY DEF ControlType, Open, Joined
<1>5. \A d \in Calls : d # c /\ Joined(d) => ticket'[d] < ticket'[c]
  BY <1>2, <1>4 DEF OrderInv, Tickets
<1>6. Tickets'
  <2>1. \A d \in Calls : Joined(d)' => ticket'[d] <= joined'
    BY <1>2, <1>3, <1>4 DEF OrderInv, Tickets
  <2>2. \A d, e \in Calls : Joined(d)' /\ Joined(e)' /\ ticket'[d] = ticket'[e] => d = e
    BY <1>2, <1>3, <1>4, <1>5 DEF OrderInv, Tickets
  <2>3. QED
    BY <2>1, <2>2 DEF Tickets
<1>7. OneInside' /\ FirstComeFirstServed'
  BY <1>2, <1>3, <1>4, <1>5 DEF OrderInv, OneInside, FirstComeFirstServed, Inside
<1>8. ASSUME model' # "gone" PROVE TailIsLast' /\ BehindAll'
  <2>1. chain' = c /\ TailIsLast /\ BehindAll
    BY <1>2, <1>8 DEF OrderInv
  <2>2. TailIsLast'
    BY <1>2, <1>3, <1>4, <1>5, <2>1 DEF TailIsLast
  <2>3. ASSUME NEW d \in Calls, NEW e \in Calls, Open(d)', Open(e)', ticket'[d] < ticket'[e]
        PROVE  /\ Waiting(e)'
               /\ call'[e].prior \in Calls /\ Open(call[e].prior)'
               /\ ticket'[d] <= ticket'[call'[e].prior]
    <3>1. d # c
      <4>1. \A x \in Calls : Open(x)' => ticket'[x] <= ticket'[c]
        BY <1>2, <1>3, <1>4, <1>5
      <4>2. QED
        BY <1>2, <1>4, <2>3, <4>1
    <3>2. CASE e = c
      BY <1>1, <1>2, <1>3, <2>1, <2>3, <3>1, <3>2 DEF TailIsLast
    <3>3. CASE e # c
      <4>1. /\ Waiting(e) /\ call[e].prior \in Calls /\ Open(call[e].prior)
            /\ ticket[d] <= ticket[call[e].prior]
        BY <1>2, <1>3, <2>1, <2>3, <3>1, <3>3 DEF BehindAll
      <4>2. call[e].prior # c
        BY <1>1, <4>1
      <4>3. QED
        BY <1>1, <1>2, <1>3, <3>1, <3>3, <4>1, <4>2
    <3>4. QED
      BY <3>2, <3>3
  <2>4. QED
    BY <2>2, <2>3 DEF BehindAll
<1>9. QED
  BY <1>6, <1>7, <1>8 DEF OrderInv

\* While the model has its record, a call that is inside, or whose promise has
\* been resolved, joined before every other open call.
LEMMA HeadIsFirst ==
    ASSUME ControlType, OrderInv, model # "gone",
           NEW c \in Calls, Inside(c) \/ (Waiting(c) /\ ChainFree(c)),
           NEW d \in Calls, Open(d), d # c
    PROVE  ticket[c] < ticket[d]
<1>1. Open(c) /\ ticket[c] \in Nat /\ ticket[d] \in Nat
  BY DEF Inside, Waiting, Open, ControlType
<1>2. ticket[c] # ticket[d]
  BY <1>1 DEF OrderInv, Tickets, Joined, Open
<1>3. ~(ticket[d] < ticket[c])
  <2> SUFFICES ASSUME ticket[d] < ticket[c] PROVE FALSE
    OBVIOUS
  <2>1. Waiting(c) /\ call[c].prior \in Calls /\ Open(call[c].prior)
    BY <1>1 DEF OrderInv, BehindAll
  <2>2. ~ChainFree(c)
    BY <2>1 DEF ChainFree, Open
  <2>3. QED
    BY <2>1, <2>2 DEF Inside
<1>4. QED
  BY <1>1, <1>2, <1>3

\* A call enters when its promise has been resolved.
LEMMA EnterKeepsOrder ==
    ASSUME ControlType, OrderInv, NEW c \in Calls, ChatEnter(c)
    PROVE  OrderInv'
<1>1. /\ Waiting(c) /\ ChainFree(c) /\ model = "loaded"
      /\ UNCHANGED <<model, chain, ticket, joined>>
  BY DEF ChatEnter
<1>2. /\ call'[c].phase \in {"prefill", "first", "finished"}
      /\ call'[c].prior = call[c].prior
      /\ \A d \in Calls : d # c => call'[d] = call[d]
  BY DEF ChatEnter, ControlType, Generating
<1>3. /\ \A d \in Calls : (Joined(d)' <=> Joined(d)) /\ (Open(d)' <=> Open(d))
      /\ \A d \in Calls : d # c => (Waiting(d)' <=> Waiting(d))
      /\ ~Waiting(c)'
  BY <1>1, <1>2 DEF Joined, Open, Waiting
<1>4. \A d \in Calls : Open(d) /\ d # c => ticket[c] < ticket[d]
  BY <1>1, HeadIsFirst
<1>5. Tickets'
  BY <1>1, <1>3 DEF OrderInv, Tickets
<1>6. TailIsLast'
  BY <1>1, <1>3 DEF OrderInv, TailIsLast
<1>7. BehindAll'
  <2>1. ASSUME NEW d \in Calls, NEW e \in Calls, Open(d), Open(e), ticket[d] < ticket[e]
        PROVE  e # c
    BY <1>4, <2>1 DEF ControlType
  <2>2. ASSUME NEW e \in Calls PROVE call'[e].prior = call[e].prior
    BY <1>2
  <2>3. QED
    BY <1>1, <1>3, <2>1, <2>2 DEF OrderInv, BehindAll
<1>8. ASSUME NEW d \in Calls, Open(d)', d # c PROVE Waiting(d)'
  <2>1. ticket[c] < ticket[d] /\ Open(c) /\ Open(d)
    BY <1>1, <1>3, <1>4, <1>8 DEF Waiting, Open
  <2>2. Waiting(d)
    BY <1>1, <2>1 DEF OrderInv, BehindAll
  <2>3. QED
    BY <1>3, <1>8, <2>2
<1>9. OneInside' /\ FirstComeFirstServed'
  <2>1. \A d \in Calls : Inside(d)' => d = c
    BY <1>8 DEF Inside
  <2>2. \A d \in Calls : Waiting(d)' => Open(d) /\ d # c
    BY <1>3 DEF Waiting, Open
  <2>3. QED
    BY <1>1, <1>4, <2>1, <2>2 DEF OneInside, FirstComeFirstServed
<1>10. QED
  BY <1>1, <1>5, <1>6, <1>7, <1>9 DEF OrderInv

\* A call ends: nobody waits for it but its successor, which may now enter.
LEMMA EndKeepsOrder ==
    ASSUME ControlType, OrderInv, NEW c \in Calls,
           Inside(c) \/ (Waiting(c) /\ ChainFree(c)),
           call' = [call EXCEPT ![c] = Over],
           chain' = IF chain = c THEN None ELSE chain,
           UNCHANGED <<model, ticket, joined>>
    PROVE  OrderInv'
<1>1. /\ Open(c) /\ Joined(c) /\ Joined(c)' /\ ~Open(c)' /\ ~Waiting(c)' /\ ~Inside(c)'
      /\ \A d \in Calls : d # c => /\ Joined(d)' <=> Joined(d)
                                   /\ Open(d)' <=> Open(d)
                                   /\ Waiting(d)' <=> Waiting(d)
                                   /\ Inside(d)' <=> Inside(d)
      /\ \A d \in Calls : d # c => call'[d].prior = call[d].prior
  BY DEF ControlType, CallType, Over, Invocation, Inside, Waiting, Joined, Open
<1>2. Tickets'
  BY <1>1 DEF OrderInv, Tickets
<1>3. OneInside' /\ FirstComeFirstServed'
  BY <1>1 DEF OrderInv, OneInside, FirstComeFirstServed
<1>4. ASSUME model' # "gone" PROVE TailIsLast' /\ BehindAll'
  <2>1. TailIsLast /\ BehindAll /\ model # "gone"
    BY <1>4 DEF OrderInv
  <2>2. \A d \in Calls : Open(d) /\ d # c => ticket[c] < ticket[d]
    BY <2>1, HeadIsFirst
  <2>3. \A d \in Calls : ticket[d] \in Nat
    BY DEF ControlType
  <2>4. TailIsLast'
    <3> SUFFICES ASSUME NEW d \in Calls, Open(d)'
                 PROVE  /\ chain' \in Calls /\ Open(chain)'
                        /\ ticket[d] <= ticket[chain']
      BY DEF TailIsLast
    <3>1. d # c /\ Open(d)
      BY <1>1
    <3>2. chain \in Calls /\ Open(chain) /\ ticket[d] <= ticket[chain]
      BY <2>1, <3>1 DEF TailIsLast
    <3>3. chain # c
      BY <2>2, <2>3, <3>1, <3>2
    <3>4. QED
      BY <1>1, <3>2, <3>3
  <2>5. BehindAll'
    <3> SUFFICES ASSUME NEW d \in Calls, NEW e \in Calls, Open(d)', Open(e)',
                        ticket[d] < ticket[e]
                 PROVE  /\ Waiting(e)'
                        /\ call'[e].prior \in Calls /\ Open(call[e].prior)'
                        /\ ticket[d] <= ticket[call'[e].prior]
      BY DEF BehindAll
    <3>1. d # c /\ Open(d) /\ e # c /\ Open(e)
      BY <1>1
    <3>2. /\ Waiting(e) /\ call[e].prior \in Calls /\ Open(call[e].prior)
          /\ ticket[d] <= ticket[call[e].prior]
      BY <2>1, <3>1 DEF BehindAll
    <3>3. call[e].prior # c
      BY <2>2, <2>3, <3>1, <3>2
    <3>4. QED
      BY <1>1, <3>1, <3>2, <3>3
  <2>6. QED
    BY <2>4, <2>5
<1>5. QED
  BY <1>2, <1>3, <1>4 DEF OrderInv

(***************************************************************************)
(* What the KV primitives return.                                          *)
(***************************************************************************)

LEMMA PromptsType ==
    ASSUME NEW prompt \in Prompts
    PROVE  prompt \in Seq(Tokens) /\ Len(prompt) \in Nat /\ Len(prompt) >= 1
           /\ \A k \in 1 .. Len(prompt) : prompt[k] \in Tokens
<1>1. prompt \in Seq(Tokens) /\ prompt # <<>>
  OBVIOUS
<1>2. QED
  BY <1>1

LEMMA WrittenType ==
    ASSUME NEW mem \in [SlotNo -> Slot], NEW at \in Nat, NEW pos \in Nat,
           NEW tokens \in Seq(Tokens)
    PROVE  Written(mem, at, tokens, pos) \in [SlotNo -> Slot]
<1> DEFINE end == at + Len(tokens)
<1>1. Len(tokens) \in Nat /\ end \in Nat
  OBVIOUS
<1>2. ASSUME NEW i \in SlotNo, i \in at .. (end - 1)
      PROVE  <<tokens[i - at + 1], pos + (i - at)>> \in Slot
  <2>1. i - at + 1 \in 1 .. Len(tokens) /\ pos + (i - at) \in Nat
    BY <1>1, <1>2 DEF SlotNo
  <2>2. tokens[i - at + 1] \in Tokens
    BY <2>1
  <2>3. QED
    BY <2>1, <2>2 DEF Slot
<1>3. Junk \in Slot
  BY DEF Slot
<1>4. QED
  BY <1>2, <1>3 DEF Written

LEMMA LoadedType ==
    ASSUME NEW kv \in Seq(Slot), NEW n \in Nat, n <= Len(kv)
    PROVE  Loaded(kv, n) \in [SlotNo -> Slot]
<1>1. ASSUME NEW i \in SlotNo, i < n
      PROVE  kv[i + 1] \in Slot
  BY <1>1 DEF SlotNo
<1>2. QED
  BY <1>1 DEF Loaded, Slot

LEMMA SerializedType ==
    ASSUME slots \in [SlotNo -> Slot], NEW n \in Nat
    PROVE  Serialized(n) \in Seq(Slot) /\ Len(Serialized(n)) = n
<1>1. ASSUME NEW k \in 1 .. n, k <= KvSize
      PROVE  slots[k - 1] \in Slot
  BY <1>1 DEF SlotNo
<1>2. Serialized(n) \in [1 .. n -> Slot]
  BY <1>1 DEF Serialized, Slot
<1>3. QED
  BY <1>2 DEF Serialized

LEMMA FullIdsType ==
    ASSUME NEW c \in Calls, NEW n \in Nat,
           call[c].prompt \in Seq(Tokens), call[c].gen \in Seq(Tokens)
    PROVE  FullIds(c, n) \in Seq(Tokens \cup {-1}) /\ Len(FullIds(c, n)) = n
<1> DEFINE known == call[c].prompt \o call[c].gen
<1>1. known \in Seq(Tokens)
  OBVIOUS
<1>0. FullIds(c, n) = [k \in 1 .. n |-> IF k <= Len(known) THEN known[k] ELSE -1]
  BY DEF FullIds
<1> HIDE DEF known
<1>2. ASSUME NEW k \in 1 .. n, k <= Len(known)
      PROVE  known[k] \in Tokens
  BY <1>1, <1>2
<1>3. FullIds(c, n) \in [1 .. n -> Tokens \cup {-1}]
  BY <1>0, <1>2
<1>4. Len(FullIds(c, n)) = n
  BY <1>0
<1>5. QED
  BY <1>3, <1>4

LEMMA Upto ==
    ASSUME NEW n \in Nat
    PROVE  IsFiniteSet(1 .. n) /\ Cardinality(1 .. n) = n
<1>1. 1 \in Int /\ n \in Int
  OBVIOUS
<1>2. IsFiniteSet(1 .. n) /\ Cardinality(1 .. n) = IF 1 > n THEN 0 ELSE n - 1 + 1
  BY <1>1, FS_Interval
<1>3. QED
  BY <1>2

\* The shared prefix is no longer than either sequence.
LEMMA SharedLenBound ==
    ASSUME NEW ids, Len(ids) \in Nat, NEW prompt, Len(prompt) \in Nat
    PROVE  /\ SharedLen(ids, prompt) \in Nat
           /\ SharedLen(ids, prompt) <= Len(ids)
           /\ SharedLen(ids, prompt) <= Len(prompt)
<1> DEFINE S == {n \in 1 .. Len(prompt) :
                     n <= Len(ids) /\ \A k \in 1 .. n : ids[k] = prompt[k]}
<1>1. S \subseteq 1 .. Len(prompt) /\ S \subseteq 1 .. Len(ids)
  OBVIOUS
<1>2. SharedLen(ids, prompt) = Cardinality(S)
  BY DEF SharedLen
<1> HIDE DEF S
<1>3. /\ IsFiniteSet(1 .. Len(prompt)) /\ Cardinality(1 .. Len(prompt)) = Len(prompt)
      /\ IsFiniteSet(1 .. Len(ids)) /\ Cardinality(1 .. Len(ids)) = Len(ids)
  BY Upto
<1>4. /\ IsFiniteSet(S)
      /\ Cardinality(S) <= Cardinality(1 .. Len(prompt))
      /\ Cardinality(S) <= Cardinality(1 .. Len(ids))
  BY <1>1, <1>3, FS_Subset
<1>5. Cardinality(S) \in Nat
  BY <1>4, FS_CardinalityType
<1>6. QED
  BY <1>2, <1>3, <1>4, <1>5

(***************************************************************************)
(* The inductive invariant: types, and what they rest on.                  *)
(***************************************************************************)

Begun    == \A c \in Calls : Open(c) => call[c].conv \in Convs /\ call[c].prompt \in Prompts
HasToken == \A c \in Calls : call[c].phase \in {"yielded", "decode"} => call[c].gen # <<>>
Paired   == \A v \in Convs : pool[v].snap # None => Len(pool[v].snap.kv) = Len(pool[v].snap.ids)

TypeInv == TypeOK /\ Begun /\ HasToken /\ Paired

Inv == TypeInv /\ OrderInv

LEMMA InitTypes == Init => TypeInv
<1> SUFFICES ASSUME Init PROVE TypeInv
  OBVIOUS
<1>1. NotStarted \in CallType
  BY DEF NotStarted, Invocation, CallType, Phases
<1>2. NoEntry \in PoolType
  BY DEF NoEntry, PoolType
<1>3. call \in [Calls -> CallType] /\ pool \in [Convs -> PoolType]
  BY <1>1, <1>2 DEF Init
<1>4. slots \in [SlotNo -> Slot]
  BY DEF Init, Slot
<1>5. TypeOK
  BY <1>3, <1>4 DEF Init, TypeOK
<1>6. Begun /\ HasToken /\ Paired
  BY DEF Init, Begun, HasToken, Paired, Open, NotStarted, Invocation, NoEntry
<1>7. QED
  BY <1>5, <1>6 DEF TypeInv

\* A step that leaves the calls and the cache alone.
LEMMA PoolStepTypes ==
    ASSUME TypeInv,
           \/ \E v \in Convs : CreateConversation(v) \/ DisposeConversation(v)
           \/ \E src, v \in Convs : ForkConversation(src, v)
           \/ UnloadModel \/ UnloadModelDone
    PROVE  TypeInv'
<1>1. UNCHANGED <<call, ticket, joined>> /\ chain' \in {chain, None}
  BY DEF CreateConversation, DisposeConversation, ForkConversation, UnloadModel, UnloadModelDone
<1>2. Begun' /\ HasToken'
  BY <1>1 DEF TypeInv, Begun, HasToken, Open
<1>3. Gone \in PoolType /\ Gone.snap = None
  BY DEF Gone, PoolType
<1>4. ASSUME NEW v \in Convs, CreateConversation(v) PROVE TypeInv'
  <2>1. pool' \in [Convs -> PoolType] /\ Paired'
    BY <1>4 DEF CreateConversation, TypeInv, TypeOK, PoolType, Paired
  <2>2. QED
    BY <1>2, <1>4, <2>1 DEF CreateConversation, TypeInv, TypeOK
<1>5. ASSUME NEW v \in Convs, DisposeConversation(v) PROVE TypeInv'
  <2>1. pool' \in [Convs -> PoolType] /\ Paired'
    BY <1>3, <1>5 DEF DisposeConversation, TypeInv, TypeOK, Paired
  <2>2. QED
    BY <1>2, <1>5, <2>1 DEF DisposeConversation, TypeInv, TypeOK
<1>6. ASSUME NEW src \in Convs, NEW v \in Convs, ForkConversation(src, v) PROVE TypeInv'
  <2>1. pool' \in [Convs -> PoolType] /\ Paired'
    BY <1>6 DEF ForkConversation, TypeInv, TypeOK, PoolType, Paired
  <2>2. QED
    BY <1>2, <1>6, <2>1 DEF ForkConversation, TypeInv, TypeOK
<1>7. CASE UnloadModel
  <2>1. pool' \in [Convs -> PoolType] /\ Paired'
    BY <1>3, <1>7 DEF UnloadModel, TypeInv, TypeOK, Paired
  <2>2. slots' \in [SlotNo -> Slot]
    BY <1>7 DEF UnloadModel, Slot
  <2>3. QED
    BY <1>2, <1>7, <2>1, <2>2 DEF UnloadModel, TypeInv, TypeOK
<1>8. CASE UnloadModelDone
  BY <1>2, <1>8 DEF UnloadModelDone, TypeInv, TypeOK, Paired
<1>9. QED
  BY <1>4, <1>5, <1>6, <1>7, <1>8

\* A step of one call that writes to the cache and nowhere else.
LEMMA CacheStepTypes ==
    ASSUME TypeInv, NEW c \in Calls, NEW next \in CallType,
           call' = [call EXCEPT ![c] = next],
           next.phase \notin {"idle", "ended"} =>
               next.conv \in Convs /\ next.prompt \in Prompts,
           next.phase \in {"yielded", "decode"} => next.gen # <<>>,
           slots' \in [SlotNo -> Slot], nCached' \in Nat,
           UNCHANGED <<pool, model, chain, ticket, joined>>
    PROVE  TypeInv'
<1>1. call' \in [Calls -> CallType]
  BY DEF TypeInv, TypeOK
<1>2. TypeOK'
  BY <1>1 DEF TypeInv, TypeOK
<1>3. call'[c] = next /\ \A d \in Calls : d # c => call'[d] = call[d]
  BY DEF TypeInv, TypeOK
<1>4. Begun'
  BY <1>3 DEF TypeInv, Begun, Open
<1>5. HasToken'
  BY <1>3 DEF TypeInv, HasToken
<1>6. Paired'
  BY DEF TypeInv, Paired
<1>7. QED
  BY <1>2, <1>4, <1>5, <1>6 DEF TypeInv

LEMMA EnterTypes ==
    ASSUME TypeInv, NEW c \in Calls, ChatEnter(c)
    PROVE  TypeInv'
<1> DEFINE v      == call[c].conv
           prompt == call[c].prompt
           last   == Len(prompt) - 1
           shared == SharedWith(v, prompt)
           cached == IF shared > last THEN last ELSE shared
<1>1. call[c] \in CallType /\ v \in Convs /\ prompt \in Prompts
  BY DEF ChatEnter, TypeInv, TypeOK, Begun, Waiting, Open
<1>2. Len(prompt) \in Nat /\ last \in Nat
  BY <1>1, PromptsType
<1>3. /\ shared \in Nat
      /\ shared > 0 => /\ pool[v].snap \in SnapshotType
                       /\ shared <= Len(pool[v].snap.kv)
  <2>1. CASE pool[v].snap = None
    BY <2>1 DEF SharedWith
  <2>2. CASE pool[v].snap # None
    <3>1. pool[v].snap \in SnapshotType /\ Len(pool[v].snap.kv) = Len(pool[v].snap.ids)
      BY <1>1, <2>2 DEF TypeInv, TypeOK, PoolType, Paired
    <3>2. Len(pool[v].snap.ids) \in Nat
      BY <3>1 DEF SnapshotType
    <3>3. QED
      BY <1>2, <2>2, <3>1, <3>2, SharedLenBound DEF SharedWith
  <2>3. QED
    BY <2>1, <2>2
<1> HIDE DEF shared
<1>4. cached \in Nat
  BY <1>2, <1>3
<1>5. SeedPosition(prompt) \in Nat
  BY <1>2 DEF SeedPosition
<1>6. slots' \in [SlotNo -> Slot]
  <2>1. CASE shared > 0
    <3>1. slots' = Loaded(pool[v].snap.kv, shared)
      BY <2>1 DEF ChatEnter, shared
    <3>2. pool[v].snap.kv \in Seq(Slot) /\ shared <= Len(pool[v].snap.kv)
      BY <1>3, <2>1 DEF SnapshotType
    <3>3. QED
      BY <1>3, <3>1, <3>2, LoadedType
  <2>2. CASE ~(shared > 0)
    BY <2>2 DEF ChatEnter, shared, TypeInv, TypeOK
  <2>3. QED
    BY <2>1, <2>2
<1>7. nCached' = cached /\ UNCHANGED <<pool, model, chain, ticket, joined>>
  BY DEF ChatEnter, shared
<1>8. PICK phase \in {"prefill", "first", "finished"} :
          call' = [call EXCEPT ![c].phase = phase, ![c].past = cached,
                               ![c].pos = SeedPosition(prompt)]
  BY DEF ChatEnter, Generating, shared
<1> HIDE DEF cached
<1> DEFINE next == [call[c] EXCEPT !.phase = phase, !.past = cached,
                                   !.pos = SeedPosition(prompt)]
<1>9. /\ next \in CallType /\ next.phase = phase
      /\ next.conv = call[c].conv /\ next.prompt = call[c].prompt
  BY <1>1, <1>4, <1>5 DEF CallType, Phases
<1>10. call' = [call EXCEPT ![c] = next]
  BY <1>8 DEF TypeInv, TypeOK
<1> HIDE DEF next, v, prompt
<1>11. QED
  BY <1>1, <1>4, <1>6, <1>7, <1>9, <1>10, CacheStepTypes DEF v, prompt

LEMMA PrefillTypes ==
    ASSUME TypeInv, NEW c \in Calls, PrefillDone(c)
    PROVE  TypeInv'
<1> DEFINE mid == SubSeq(call[c].prompt, call[c].past + 1, Len(call[c].prompt) - 1)
           end == call[c].past + Len(mid)
<1>1. call[c] \in CallType /\ call[c].conv \in Convs /\ call[c].prompt \in Prompts
  BY DEF PrefillDone, TypeInv, TypeOK, Begun, Open
<1>2. call[c].past \in Nat
  BY <1>1 DEF CallType
<1>3. mid \in Seq(Tokens)
  BY <1>1, <1>2, PromptsType
<1> HIDE DEF mid
<1>4. end \in Nat
  BY <1>2, <1>3
<1>5. slots' \in [SlotNo -> Slot]
  <2>1. slots' = Written(slots, call[c].past, mid, call[c].past)
    BY DEF PrefillDone, mid
  <2>2. QED
    BY <1>2, <1>3, <2>1, WrittenType DEF TypeInv, TypeOK
<1>6. nCached' = end /\ UNCHANGED <<pool, model, chain, ticket, joined>>
  BY DEF PrefillDone, mid
<1>7. PICK phase \in {"first", "finished"} :
          call' = [call EXCEPT ![c].phase = phase, ![c].past = end]
  BY DEF PrefillDone, Generating, mid
<1> HIDE DEF end
<1> DEFINE next == [call[c] EXCEPT !.phase = phase, !.past = end]
<1>8. /\ next \in CallType /\ next.phase = phase
      /\ next.conv = call[c].conv /\ next.prompt = call[c].prompt
  BY <1>1, <1>4 DEF CallType, Phases
<1>9. call' = [call EXCEPT ![c] = next]
  BY <1>7 DEF TypeInv, TypeOK
<1> HIDE DEF next
<1>10. QED
  BY <1>1, <1>4, <1>5, <1>6, <1>8, <1>9, CacheStepTypes

\* A forward of one token and what is made of its logits.
LEMMA ForwardTypes ==
    ASSUME TypeInv, NEW c \in Calls, call[c].phase \in {"first", "decode"},
           NEW token \in Tokens, TokenForwarded(c, token),
           NEW candidates \in SUBSET Tokens, Sampled(c, candidates),
           UNCHANGED <<pool, model, chain, ticket, joined>>
    PROVE  TypeInv'
<1>1. call[c] \in CallType /\ call[c].conv \in Convs /\ call[c].prompt \in Prompts
  BY DEF TypeInv, TypeOK, Begun, Open
<1>2. call[c].past \in Nat /\ call[c].pos \in Nat /\ call[c].gen \in Seq(Tokens)
  BY <1>1 DEF CallType
<1>3. slots' \in [SlotNo -> Slot] /\ nCached' \in Nat
  <2>1. <<token>> \in Seq(Tokens)
    OBVIOUS
  <2>2. slots' = Written(slots, call[c].past, <<token>>, call[c].pos)
    BY DEF TokenForwarded
  <2>3. slots' \in [SlotNo -> Slot]
    BY <1>2, <2>1, <2>2, WrittenType DEF TypeInv, TypeOK
  <2>4. QED
    BY <1>2, <2>3 DEF TokenForwarded
<1>4. CASE call' = [call EXCEPT ![c].phase = "finished", ![c].pos = @ + 1]
  <2> DEFINE pos  == call[c].pos + 1
             next == [call[c] EXCEPT !.phase = "finished", !.pos = pos]
  <2>0. pos \in Nat /\ call' = [call EXCEPT ![c].phase = "finished", ![c].pos = pos]
    BY <1>2, <1>4 DEF TypeInv, TypeOK
  <2> HIDE DEF pos
  <2>1. /\ next \in CallType /\ next.phase = "finished"
        /\ next.conv = call[c].conv /\ next.prompt = call[c].prompt
    BY <1>1, <2>0 DEF CallType, Phases
  <2>2. call' = [call EXCEPT ![c] = next]
    BY <2>0 DEF TypeInv, TypeOK
  <2> HIDE DEF next
  <2>3. QED
    BY <1>1, <1>3, <2>1, <2>2, CacheStepTypes
<1>5. ASSUME NEW t \in candidates,
             call' = [call EXCEPT ![c].phase = "yielded", ![c].pos = @ + 1,
                                  ![c].gen = Append(@, t)]
      PROVE  TypeInv'
  <2> DEFINE pos    == call[c].pos + 1
             longer == Append(call[c].gen, t)
  <2>1. pos \in Nat /\ longer \in Seq(Tokens) /\ longer # <<>>
    BY <1>2
  <2>0. call' = [call EXCEPT ![c].phase = "yielded", ![c].pos = pos, ![c].gen = longer]
    BY <1>5 DEF TypeInv, TypeOK
  <2> HIDE DEF longer, pos
  <2> DEFINE next == [call[c] EXCEPT !.phase = "yielded", !.pos = pos, !.gen = longer]
  <2>2. /\ next \in CallType /\ next.gen = longer
        /\ next.conv = call[c].conv /\ next.prompt = call[c].prompt
    BY <1>1, <2>1 DEF CallType, Phases
  <2>3. call' = [call EXCEPT ![c] = next]
    BY <2>0 DEF TypeInv, TypeOK
  <2> HIDE DEF next
  <2>4. QED
    BY <1>1, <1>3, <2>1, <2>2, <2>3, CacheStepTypes
<1>6. QED
  BY <1>4, <1>5 DEF Sampled

LEMMA FirstTypes ==
    ASSUME TypeInv, NEW c \in Calls, FirstDone(c)
    PROVE  TypeInv'
<1>1. call[c].prompt \in Prompts /\ call[c].phase = "first"
  BY DEF FirstDone, TypeInv, Begun, Open
<1>2. call[c].prompt[Len(call[c].prompt)] \in Tokens
  BY <1>1, PromptsType
<1>3. QED
  BY <1>1, <1>2, ForwardTypes DEF FirstDone

LEMMA DecodeTypes ==
    ASSUME TypeInv, NEW c \in Calls, DecodeDone(c)
    PROVE  TypeInv'
<1>1. call[c].phase = "decode" /\ call[c].gen # <<>> /\ call[c].gen \in Seq(Tokens)
  BY DEF DecodeDone, TypeInv, HasToken, TypeOK, CallType
<1>2. call[c].gen[Len(call[c].gen)] \in Tokens
  BY <1>1
<1>3. Tokens \ {Eos} \in SUBSET Tokens
  OBVIOUS
<1>4. QED
  BY <1>1, <1>2, <1>3, ForwardTypes DEF DecodeDone

LEMMA ResumeTypes ==
    ASSUME TypeInv, NEW c \in Calls, Resume(c)
    PROVE  TypeInv'
<1>1. /\ call[c] \in CallType /\ call[c].conv \in Convs /\ call[c].prompt \in Prompts
      /\ call[c].gen # <<>> /\ nCached \in Nat
  BY DEF Resume, TypeInv, TypeOK, Begun, HasToken, Open
<1>2. UNCHANGED <<pool, model, chain, slots, nCached, ticket, joined>>
  BY DEF Resume
<1>3. CASE Steps(c, "finished")
  <2> DEFINE next == [call[c] EXCEPT !.phase = "finished"]
  <2>1. /\ next \in CallType /\ next.phase = "finished"
        /\ next.conv = call[c].conv /\ next.prompt = call[c].prompt
    BY <1>1 DEF CallType, Phases
  <2>2. call' = [call EXCEPT ![c] = next]
    BY <1>3 DEF Steps, TypeInv, TypeOK
  <2> HIDE DEF next
  <2>3. QED
    BY <1>1, <1>2, <2>1, <2>2, CacheStepTypes DEF TypeInv, TypeOK
<1>4. CASE call' = [call EXCEPT ![c].phase = "decode", ![c].past = nCached]
  <2> DEFINE next == [call[c] EXCEPT !.phase = "decode", !.past = nCached]
  <2>1. /\ next \in CallType /\ next.gen = call[c].gen
        /\ next.conv = call[c].conv /\ next.prompt = call[c].prompt
    BY <1>1 DEF CallType, Phases
  <2>2. call' = [call EXCEPT ![c] = next]
    BY <1>4 DEF TypeInv, TypeOK
  <2> HIDE DEF next
  <2>3. QED
    BY <1>1, <1>2, <2>1, <2>2, CacheStepTypes DEF TypeInv, TypeOK
<1>5. QED
  BY <1>3, <1>4 DEF Resume

LEMMA SaveBeginTypes ==
    ASSUME TypeInv, NEW c \in Calls, SaveBegin(c)
    PROVE  TypeInv'
<1>1. /\ call[c] \in CallType /\ call[c].conv \in Convs /\ call[c].prompt \in Prompts
      /\ nCached \in Nat
  BY DEF SaveBegin, TypeInv, TypeOK, Begun, Open
<1> DEFINE next == [call[c] EXCEPT !.phase = "saving", !.past = nCached]
<1>2. /\ next \in CallType /\ next.phase = "saving"
      /\ next.conv = call[c].conv /\ next.prompt = call[c].prompt
  BY <1>1 DEF CallType, Phases
<1>3. call' = [call EXCEPT ![c] = next]
  BY DEF SaveBegin, TypeInv, TypeOK
<1>4. UNCHANGED <<pool, model, chain, slots, nCached, ticket, joined>>
  BY DEF SaveBegin
<1> HIDE DEF next
<1>5. QED
  BY <1>1, <1>2, <1>3, <1>4, CacheStepTypes DEF TypeInv, TypeOK

LEMMA BeginTypes ==
    ASSUME TypeInv, NEW c \in Calls, NEW v \in Convs, NEW p \in Prompts, ChatBegin(c, v, p)
    PROVE  TypeInv'
<1> DEFINE next == Invocation("waiting", v, p, chain)
<1>1. next \in CallType /\ next.phase = "waiting" /\ next.conv = v /\ next.prompt = p
  BY DEF Invocation, CallType, Phases, TypeInv, TypeOK
<1>2. call' = [call EXCEPT ![c] = next]
  BY DEF ChatBegin, ChainTail
<1> HIDE DEF next
<1>3. call' \in [Calls -> CallType]
      /\ call'[c] = next /\ \A d \in Calls : d # c => call'[d] = call[d]
  BY <1>1, <1>2 DEF TypeInv, TypeOK
<1>4. pool' \in [Convs -> PoolType] /\ Paired'
  <2>1. /\ pool' = [pool EXCEPT ![v].locked = TRUE]
        /\ pool \in [Convs -> PoolType] /\ pool[v] \in PoolType
    BY DEF ChatBegin, TypeInv, TypeOK
  <2>2. [pool[v] EXCEPT !.locked = TRUE] \in PoolType
    BY <2>1 DEF PoolType
  <2>3. pool' \in [Convs -> PoolType] /\ \A w \in Convs : pool'[w].snap = pool[w].snap
    BY <2>1, <2>2 DEF PoolType
  <2>4. QED
    BY <2>3 DEF TypeInv, Paired
<1>5. TypeOK'
  BY <1>3, <1>4 DEF ChatBegin, TypeInv, TypeOK
<1>6. Begun' /\ HasToken'
  BY <1>1, <1>3 DEF TypeInv, Begun, HasToken, Open
<1>7. QED
  BY <1>4, <1>5, <1>6 DEF TypeInv

\* The end of a call, with or without a new snapshot.
LEMMA FinallyTypes ==
    ASSUME TypeInv, NEW c \in Calls, NEW after \in [Convs -> PoolType],
           \A v \in Convs : after[v].snap # None =>
               Len(after[v].snap.kv) = Len(after[v].snap.ids),
           Finally(c, after),
           UNCHANGED <<model, slots, nCached, ticket, joined>>
    PROVE  TypeInv'
<1>1. call' \in [Calls -> CallType] /\ call'[c].phase = "ended"
      /\ \A d \in Calls : d # c => call'[d] = call[d]
  <2>1. call' = [call EXCEPT ![c] = Over] /\ call \in [Calls -> CallType]
    BY DEF Finally, TypeInv, TypeOK
  <2>2. Over \in CallType /\ Over.phase = "ended"
    BY DEF Over, Invocation, CallType, Phases
  <2>3. QED
    BY <2>1, <2>2
<1>2. pool' \in [Convs -> PoolType] /\ \A v \in Convs : pool'[v].snap = after[v].snap
  BY DEF Finally, PoolType
<1>3. TypeOK'
  BY <1>1, <1>2 DEF Finally, TypeInv, TypeOK
<1>4. Begun' /\ HasToken'
  BY <1>1 DEF TypeInv, Begun, HasToken, Open
<1>5. Paired'
  BY <1>2 DEF Paired
<1>6. QED
  BY <1>3, <1>4, <1>5 DEF TypeInv

LEMMA SaveDoneTypes ==
    ASSUME TypeInv, NEW c \in Calls, SaveDone(c)
    PROVE  TypeInv'
<1>1. call[c] \in CallType /\ call[c].conv \in Convs /\ call[c].prompt \in Prompts
  BY DEF SaveDone, TypeInv, TypeOK, Begun, Open
<1>2. call[c].past \in Nat /\ call[c].prompt \in Seq(Tokens) /\ call[c].gen \in Seq(Tokens)
  BY <1>1, PromptsType DEF CallType
<1>3. /\ Snapshot(c) \in SnapshotType
      /\ Len(Snapshot(c).kv) = Len(Snapshot(c).ids)
  <2>1. /\ Serialized(call[c].past) \in Seq(Slot)
        /\ Len(Serialized(call[c].past)) = call[c].past
    BY <1>2, SerializedType DEF TypeInv, TypeOK
  <2>2. /\ FullIds(c, call[c].past) \in Seq(Tokens \cup {-1})
        /\ Len(FullIds(c, call[c].past)) = call[c].past
    BY <1>2, FullIdsType
  <2>3. QED
    BY <2>1, <2>2 DEF Snapshot, SnapshotType
<1> DEFINE after == [pool EXCEPT ![call[c].conv].snap = Snapshot(c)]
<1>4. /\ after \in [Convs -> PoolType]
      /\ \A v \in Convs : after[v].snap # None =>
             Len(after[v].snap.kv) = Len(after[v].snap.ids)
  <2>1. pool \in [Convs -> PoolType] /\ pool[call[c].conv] \in PoolType
    BY <1>1 DEF TypeInv, TypeOK
  <2>2. /\ [pool[call[c].conv] EXCEPT !.snap = Snapshot(c)] \in PoolType
        /\ [pool[call[c].conv] EXCEPT !.snap = Snapshot(c)].snap = Snapshot(c)
    BY <1>3, <2>1 DEF PoolType
  <2>3. /\ after \in [Convs -> PoolType]
        /\ after[call[c].conv].snap = Snapshot(c)
        /\ \A v \in Convs : v # call[c].conv => after[v] = pool[v]
    BY <1>1, <2>1, <2>2
  <2>4. QED
    BY <1>3, <2>3 DEF TypeInv, Paired
<1>5. Finally(c, after) /\ UNCHANGED <<model, slots, nCached, ticket, joined>>
  BY DEF SaveDone
<1> HIDE DEF after
<1>6. QED
  BY <1>4, <1>5, FinallyTypes

LEMMA LeaveTypes ==
    ASSUME TypeInv, NEW c \in Calls, Leave(c)
    PROVE  TypeInv'
BY FinallyTypes DEF Leave, TypeInv, TypeOK, Paired

(***************************************************************************)
(* Every step keeps the invariant.                                         *)
(***************************************************************************)

LEMMA ControlTypeHolds == TypeInv => ControlType
BY DEF TypeInv, TypeOK, ControlType

\* The phases a step of one call passes through between entering and ending.
LEMMA InnerKeepsOrder ==
    ASSUME TypeInv, OrderInv, NEW c \in Calls,
           PrefillDone(c) \/ FirstDone(c) \/ DecodeDone(c) \/ Resume(c) \/ SaveBegin(c)
    PROVE  OrderInv'
<1>1. /\ Inside(c)
      /\ call'[c].phase \in {"first", "finished", "yielded", "decode", "saving"}
      /\ call'[c].prior = call[c].prior
      /\ \A d \in Calls : d # c => call'[d] = call[d]
  <2>1. call \in [Calls -> CallType] /\ call[c] \in CallType
    BY DEF TypeInv, TypeOK
  <2>2. CASE PrefillDone(c)
    BY <2>1, <2>2 DEF PrefillDone, Generating, Inside, Open, Waiting, CallType
  <2>3. CASE FirstDone(c)
    BY <2>1, <2>3 DEF FirstDone, Sampled, Inside, Open, Waiting, CallType
  <2>4. CASE DecodeDone(c)
    BY <2>1, <2>4 DEF DecodeDone, Sampled, Inside, Open, Waiting, CallType
  <2>5. CASE Resume(c)
    BY <2>1, <2>5 DEF Resume, Steps, Inside, Open, Waiting, CallType
  <2>6. CASE SaveBegin(c)
    BY <2>1, <2>6 DEF SaveBegin, Inside, Open, Waiting, CallType
  <2>7. QED
    BY <2>2, <2>3, <2>4, <2>5, <2>6
<1>2. UNCHANGED <<model, chain, ticket, joined>>
  BY DEF PrefillDone, FirstDone, DecodeDone, Resume, SaveBegin
<1>3. SameOrder
  BY <1>1, <1>2 DEF SameOrder, Joined, Open, Waiting, Inside
<1>4. QED
  BY <1>2, <1>3, ControlTypeHolds, SameKeepsOrder

LEMMA NextInv == Inv /\ [Next]_vars => Inv'
<1> SUFFICES ASSUME TypeInv, OrderInv, [Next]_vars PROVE TypeInv' /\ OrderInv'
  BY DEF Inv
<1>0. ControlType
  BY ControlTypeHolds
<1>1. ASSUME \/ \E v \in Convs : CreateConversation(v) \/ DisposeConversation(v)
             \/ \E src, v \in Convs : ForkConversation(src, v)
             \/ UnloadModel \/ UnloadModelDone
      PROVE  TypeInv' /\ OrderInv'
  <2>1. SameOrder
    BY <1>1 DEF CreateConversation, DisposeConversation, ForkConversation, UnloadModel,
                UnloadModelDone, SameOrder, Joined, Open, Waiting
  <2>2. model' # "gone" => model # "gone" /\ chain' = chain
    BY <1>1 DEF CreateConversation, DisposeConversation, ForkConversation, UnloadModel,
                UnloadModelDone
  <2>3. QED
    BY <1>0, <1>1, <2>1, <2>2, PoolStepTypes, SameKeepsOrder
<1>2. ASSUME NEW c \in Calls, NEW v \in Convs, NEW p \in Prompts, ChatBegin(c, v, p)
      PROVE  TypeInv' /\ OrderInv'
  BY <1>0, <1>2, BeginTypes, BeginKeepsOrder
<1>3. ASSUME NEW c \in Calls, ChatEnter(c) PROVE TypeInv' /\ OrderInv'
  BY <1>0, <1>3, EnterTypes, EnterKeepsOrder
<1>4. ASSUME NEW c \in Calls,
             PrefillDone(c) \/ FirstDone(c) \/ DecodeDone(c) \/ Resume(c) \/ SaveBegin(c)
      PROVE  TypeInv' /\ OrderInv'
  BY <1>4, PrefillTypes, FirstTypes, DecodeTypes, ResumeTypes, SaveBeginTypes, InnerKeepsOrder
<1>5. ASSUME NEW c \in Calls, SaveDone(c) PROVE TypeInv' /\ OrderInv'
  <2>1. Inside(c)
    BY <1>5 DEF SaveDone, Inside, Open, Waiting
  <2>2. QED
    BY <1>0, <1>5, <2>1, SaveDoneTypes, EndKeepsOrder DEF SaveDone, Finally
<1>6. ASSUME NEW c \in Calls, Leave(c) PROVE TypeInv' /\ OrderInv'
  BY <1>0, <1>6, LeaveTypes, EndKeepsOrder DEF Leave, Finally
<1>7. CASE UNCHANGED vars
  <2>1. SameOrder /\ UNCHANGED <<model, chain>>
    BY <1>7 DEF vars, SameOrder, Joined, Open, Waiting
  <2>2. TypeInv'
    BY <1>7 DEF vars, TypeInv, TypeOK, Begun, HasToken, Paired, Open
  <2>3. QED
    BY <1>0, <2>1, <2>2, SameKeepsOrder
<1>8. QED
  BY <1>1, <1>2, <1>3, <1>4, <1>5, <1>6, <1>7 DEF Next, CallStep

LEMMA InvHolds == Spec => []Inv
<1>1. Init => Inv
  BY InitTypes, InitOrder DEF Inv
<1>2. QED
  BY <1>1, NextInv, PTL DEF Spec

(***************************************************************************)
(* The theorems.                                                           *)
(***************************************************************************)

\* The types of the conversation path's state; among them, that a snapshot is
\* never read past its end and every slot of the cache stays a token at a
\* position.
THEOREM TypeCorrect == Spec => []TypeOK
BY InvHolds, PTL DEF Inv, TypeInv

\* Whatever conversations come and go and however calls end, at most one call is
\* past the chain of a model at a time, so the shared cache has one user.
THEOREM OneInsideHolds == Spec => []OneInside
BY InvHolds, PTL DEF Inv, OrderInv

\* The chain serves calls in the order in which they joined it.
THEOREM FirstComeFirstServedHolds == Spec => []FirstComeFirstServed
BY InvHolds, PTL DEF Inv, OrderInv

(***************************************************************************)
(* Who holds a conversation.                                               *)
(***************************************************************************)

\* A call's conversation has been created; while it is live the call holds its
\* lock and is the only one on it; once the model unloads, none that a call
\* inside works for is left.
HeldInv ==
    /\ \A c \in Calls : Open(c) =>
           /\ pool[call[c].conv].status # "fresh"
           /\ Live(call[c].conv) => pool[call[c].conv].locked
           /\ Inside(c) /\ model # "loaded" => ~Live(call[c].conv)
    /\ \A c, d \in Calls : Open(c) /\ Open(d) /\ call[c].conv = call[d].conv => c = d
    /\ \A v \in Convs : ~Live(v) => pool[v].snap = None

LEMMA InitHeld == Init => HeldInv
BY DEF Init, HeldInv, Open, NotStarted, Invocation, NoEntry

LEMMA SameKeepsHeld ==
    ASSUME HeldInv, UNCHANGED pool, model' # "loaded" => model # "loaded",
           \A c \in Calls : /\ call'[c].conv = call[c].conv
                            /\ Open(c)' <=> Open(c)
                            /\ Inside(c)' => Inside(c) \/ model = "loaded"
    PROVE  HeldInv'
BY DEF HeldInv, Live

\* Conversations that come are unlocked and nobody's; those that go are dead.
LEMMA PoolStepHeld ==
    ASSUME TypeInv, HeldInv,
           \/ \E v \in Convs : CreateConversation(v) \/ DisposeConversation(v)
           \/ \E src, v \in Convs : ForkConversation(src, v)
           \/ UnloadModel \/ UnloadModelDone
    PROVE  HeldInv'
<1>0. UNCHANGED call /\ pool \in [Convs -> PoolType]
      /\ \A c \in Calls : Open(c) => call[c].conv \in Convs
  BY DEF CreateConversation, DisposeConversation, ForkConversation, UnloadModel,
         UnloadModelDone, TypeInv, TypeOK, Begun
<1>1. \A c \in Calls : (Open(c)' <=> Open(c)) /\ (Inside(c)' <=> Inside(c))
  BY <1>0 DEF Open, Inside, Waiting
<1>2. ASSUME NEW v \in Convs, CreateConversation(v) PROVE HeldInv'
  <2>1. pool[v].status = "fresh" /\ UNCHANGED model
        /\ pool' = [pool EXCEPT ![v].status = "live"]
    BY <1>2 DEF CreateConversation
  <2>2. /\ pool'[v].status = "live"
        /\ \A w \in Convs : w # v => pool'[w] = pool[w]
    BY <1>0, <2>1 DEF PoolType
  <2>3. QED
    BY <1>0, <1>1, <2>1, <2>2 DEF HeldInv, Live
<1>3. ASSUME NEW v \in Convs, DisposeConversation(v) PROVE HeldInv'
  <2>1. /\ pool'[v] = Gone /\ UNCHANGED model
        /\ \A w \in Convs : w # v => pool'[w] = pool[w]
    BY <1>0, <1>3 DEF DisposeConversation
  <2>2. QED
    BY <1>0, <1>1, <2>1 DEF HeldInv, Live, Gone
<1>4. ASSUME NEW src \in Convs, NEW v \in Convs, ForkConversation(src, v) PROVE HeldInv'
  <2>1. pool[v].status = "fresh" /\ UNCHANGED model
        /\ pool' = [pool EXCEPT ![v].status = "live", ![v].snap = pool[src].snap]
    BY <1>4 DEF ForkConversation
  <2>2. /\ pool'[v].status = "live"
        /\ \A w \in Convs : w # v => pool'[w] = pool[w]
    BY <1>0, <2>1 DEF PoolType
  <2>3. QED
    BY <1>0, <1>1, <2>1, <2>2 DEF HeldInv, Live
<1>5. CASE UnloadModel
  <2>1. \A v \in Convs : pool'[v] = IF Live(v) THEN Gone ELSE pool[v]
    BY <1>5 DEF UnloadModel
  <2>2. QED
    BY <1>0, <1>1, <2>1 DEF HeldInv, Live, Gone
<1>6. CASE UnloadModelDone
  BY <1>0, <1>1, <1>6 DEF UnloadModelDone, HeldInv, Live
<1>7. QED
  BY <1>2, <1>3, <1>4, <1>5, <1>6

LEMMA BeginHeld ==
    ASSUME TypeInv, HeldInv, NEW c \in Calls, NEW v \in Convs, NEW p \in Prompts,
           ChatBegin(c, v, p)
    PROVE  HeldInv'
<1>1. /\ Live(v) /\ ~pool[v].locked /\ UNCHANGED model
      /\ \A d \in Calls : Open(d) => call[d].conv # v
  BY DEF ChatBegin, HeldInv
<1>2. /\ pool'[v].locked /\ pool'[v].status = "live" /\ pool'[v].snap = pool[v].snap
      /\ \A w \in Convs : w # v => pool'[w] = pool[w]
  BY <1>1 DEF ChatBegin, TypeInv, TypeOK, PoolType, Live
<1>3. /\ call'[c].conv = v /\ Open(c)' /\ ~Inside(c)'
      /\ \A d \in Calls : d # c => call'[d] = call[d]
  BY DEF ChatBegin, TypeInv, TypeOK, Invocation, Open, Inside, Waiting
<1>4. \A d \in Calls : d # c => (Open(d)' <=> Open(d)) /\ (Inside(d)' <=> Inside(d))
  BY <1>3 DEF Open, Inside, Waiting
<1>5. \A d \in Calls : Open(d) => call[d].conv \in Convs
  BY DEF TypeInv, Begun
<1>6. QED
  BY <1>1, <1>2, <1>3, <1>4, <1>5 DEF HeldInv, Live

LEMMA EndHeld ==
    ASSUME TypeInv, HeldInv, NEW c \in Calls, Open(c), SaveDone(c) \/ Leave(c)
    PROVE  HeldInv'
<1> DEFINE v == call[c].conv
<1>1. /\ ~Open(c)' /\ UNCHANGED model
      /\ \A d \in Calls : d # c => call'[d] = call[d]
  BY DEF SaveDone, Leave, Finally, Over, Invocation, Open, TypeInv, TypeOK
<1>2. \A d \in Calls : d # c => (Open(d)' <=> Open(d)) /\ (Inside(d)' <=> Inside(d))
  BY <1>1 DEF Open, Inside, Waiting
<1>3. /\ v \in Convs
      /\ \A d \in Calls : d # c /\ Open(d) => call[d].conv # v /\ call[d].conv \in Convs
  BY DEF TypeInv, Begun, HeldInv
<1>4. /\ pool'[v].status = pool[v].status
      /\ ~Live(v) => pool'[v].snap = pool[v].snap
      /\ \A w \in Convs : w # v => pool'[w] = pool[w]
  BY <1>3 DEF SaveDone, Leave, Finally, TypeInv, TypeOK, PoolType, Live
<1>5. QED
  BY <1>1, <1>2, <1>3, <1>4 DEF HeldInv, Live

LEMMA HeldStep == TypeInv /\ HeldInv /\ [Next]_vars => HeldInv'
<1> SUFFICES ASSUME TypeInv, HeldInv, [Next]_vars PROVE HeldInv'
  OBVIOUS
<1>1. ASSUME \/ \E v \in Convs : CreateConversation(v) \/ DisposeConversation(v)
             \/ \E src, v \in Convs : ForkConversation(src, v)
             \/ UnloadModel \/ UnloadModelDone
      PROVE  HeldInv'
  BY <1>1, PoolStepHeld
<1>2. ASSUME NEW c \in Calls, NEW v \in Convs, NEW p \in Prompts, ChatBegin(c, v, p)
      PROVE  HeldInv'
  BY <1>2, BeginHeld
<1>3. ASSUME NEW c \in Calls,
             \/ ChatEnter(c) \/ PrefillDone(c) \/ FirstDone(c) \/ DecodeDone(c)
             \/ Resume(c) \/ SaveBegin(c)
      PROVE  HeldInv'
  <2>1. call[c] \in CallType /\ call \in [Calls -> CallType]
    BY DEF TypeInv, TypeOK
  <2>2. /\ Open(c) /\ Open(c)' /\ call'[c].conv = call[c].conv
        /\ Inside(c) \/ model = "loaded"
        /\ UNCHANGED <<pool, model>>
        /\ \A d \in Calls : d # c => call'[d] = call[d]
    <3>1. CASE ChatEnter(c)
      BY <2>1, <3>1 DEF ChatEnter, Generating, Inside, Open, Waiting, CallType
    <3>2. CASE PrefillDone(c)
      BY <2>1, <3>2 DEF PrefillDone, Generating, Inside, Open, Waiting, CallType
    <3>3. CASE FirstDone(c)
      BY <2>1, <3>3 DEF FirstDone, Sampled, Inside, Open, Waiting, CallType
    <3>4. CASE DecodeDone(c)
      BY <2>1, <3>4 DEF DecodeDone, Sampled, Inside, Open, Waiting, CallType
    <3>5. CASE Resume(c)
      BY <2>1, <3>5 DEF Resume, Steps, Inside, Open, Waiting, CallType
    <3>6. CASE SaveBegin(c)
      BY <2>1, <3>6 DEF SaveBegin, Inside, Open, Waiting, CallType
    <3>7. QED
      BY <1>3, <3>1, <3>2, <3>3, <3>4, <3>5, <3>6
  <2>3. \A d \in Calls : /\ call'[d].conv = call[d].conv
                         /\ Open(d)' <=> Open(d)
                         /\ Inside(d)' => Inside(d) \/ model = "loaded"
    BY <2>2 DEF Open, Inside, Waiting
  <2>4. QED
    BY <2>2, <2>3, SameKeepsHeld
<1>4. ASSUME NEW c \in Calls, SaveDone(c) \/ Leave(c) PROVE HeldInv'
  <2>1. Open(c)
    BY <1>4 DEF SaveDone, Leave, Inside, Open, Waiting
  <2>2. QED
    BY <1>4, <2>1, EndHeld
<1>5. CASE UNCHANGED vars
  BY <1>5, SameKeepsHeld DEF vars, Open, Inside, Waiting
<1>6. QED
  BY <1>1, <1>2, <1>3, <1>4, <1>5 DEF Next, CallStep
(***************************************************************************)
(* Whose tokens the cache holds.                                           *)
(***************************************************************************)

\* A turn may end before or after its last token has been forwarded.
AtEnd(c, length) ==
    /\ Len(call[c].gen) <= MaxTokens
    /\ \/ length = Len(call[c].prompt) + Len(call[c].gen) - 1
       \/ length = Len(call[c].prompt) + Len(call[c].gen)
    /\ length <= Len(call[c].prompt) + MaxTokens - 1

\* How far a call inside has come in its own text.
Placed(c) ==
    LET size == Len(call[c].prompt)
        made == Len(call[c].gen)
    IN  /\ size <= MaxCtx
        /\ call[c].phase = "prefill" =>
               made = 0 /\ call[c].past < size - 1 /\ call[c].pos = size - 1
        /\ call[c].phase = "first" =>
               made = 0 /\ call[c].past = size - 1 /\ call[c].pos = size - 1
        /\ call[c].phase = "yielded" =>
               made \in 1 .. MaxTokens /\ nCached = size + made - 1 /\ call[c].pos = nCached
        /\ call[c].phase = "decode" =>
               /\ made \in 1 .. (MaxTokens - 1)
               /\ call[c].past = size + made - 1 /\ call[c].pos = call[c].past
        /\ call[c].phase = "finished" => AtEnd(c, nCached)
        /\ call[c].phase = "saving" => AtEnd(c, call[c].past)

\* How many slots the call attends to next, or saves.
Reach(c) == IF call[c].phase \in {"prefill", "first", "decode", "saving"}
            THEN call[c].past ELSE nCached

\* The first n slots of a cache hold a text; tokens are those of a text from a
\* place on.
HoldsText(mem, own, n)     == \A i \in Range0(n) : mem[i] = <<own[i + 1], i>>
Continues(tokens, own, at) == \A k \in 1 .. Len(tokens) : tokens[k] = own[at + k]

HoldsOwn(c) == HoldsText(slots, Own(c), Reach(c))

ContextInv ==
    /\ \A c \in Calls : Waiting(c) => call[c].gen = <<>>
    /\ KvRoom /\ model = "loaded" => \A c \in Calls : Inside(c) => Placed(c) /\ HoldsOwn(c)
    /\ SnapshotFaithful

LEMMA InitContext == Init => ContextInv
BY DEF Init, ContextInv, SnapshotFaithful, Inside, Open, Waiting, NotStarted, Invocation, NoEntry

\* The shared prefix is shared: each of its tokens is the same in both.
LEMMA SharedLenAgrees ==
    ASSUME NEW ids, Len(ids) \in Nat, NEW prompt, Len(prompt) \in Nat
    PROVE  \A k \in 1 .. SharedLen(ids, prompt) : ids[k] = prompt[k]
<1> DEFINE S == {n \in 1 .. Len(prompt) :
                     n <= Len(ids) /\ \A k \in 1 .. n : ids[k] = prompt[k]}
<1>1. SharedLen(ids, prompt) = Cardinality(S)
  BY DEF SharedLen
<1>2. \A n \in S : n \in Nat /\ n >= 1 /\ \A k \in 1 .. n : k \in S /\ ids[k] = prompt[k]
  OBVIOUS
<1>3. SharedLen(ids, prompt) \in Nat
  BY SharedLenBound
<1> HIDE DEF S
<1> SUFFICES ASSUME NEW k \in 1 .. SharedLen(ids, prompt), k \notin S PROVE FALSE
  BY <1>2
<1>4. S \subseteq 1 .. (k - 1)
  <2> SUFFICES ASSUME NEW n \in S, n >= k PROVE FALSE
    BY <1>2, <1>3
  <2>1. k \in 1 .. n
    BY <1>2, <1>3
  <2>2. QED
    BY <1>2, <2>1
<1>5. k - 1 \in Nat
  BY <1>3
<1>6. IsFiniteSet(1 .. (k - 1)) /\ Cardinality(1 .. (k - 1)) = k - 1
  BY <1>5, Upto
<1>7. Cardinality(S) <= k - 1
  <2> DEFINE below == 1 .. (k - 1)
  <2>1. S \subseteq below /\ IsFiniteSet(below) /\ Cardinality(below) = k - 1
    BY <1>4, <1>6
  <2> HIDE DEF below
  <2>2. Cardinality(S) <= Cardinality(below)
    BY <2>1, FS_Subset
  <2>3. QED
    BY <2>1, <2>2
<1>8. QED
  BY <1>1, <1>3, <1>7

\* Tokens forwarded where a text has come to are the text's next tokens.
LEMMA WrittenContinues ==
    ASSUME NEW mem, NEW at \in Nat, NEW tokens \in Seq(Tokens), NEW own,
           at + Len(tokens) <= KvSize,
           Continues(tokens, own, at), HoldsText(mem, own, at)
    PROVE  HoldsText(Written(mem, at, tokens, at), own, at + Len(tokens))
<1> DEFINE n   == Len(tokens)
           end == at + n
<1>1. n \in Nat /\ KvSize \in Nat /\ end \in Nat /\ end <= KvSize
  OBVIOUS
<1>2. Written(mem, at, tokens, at) =
          [i \in SlotNo |-> IF i \in at .. (end - 1) THEN <<tokens[i - at + 1], at + (i - at)>>
                            ELSE IF i + KvSize < end THEN Junk ELSE mem[i]]
  BY DEF Written
<1>3. \A k \in 1 .. n : tokens[k] = own[at + k]
  BY DEF Continues
<1>4. \A i \in Range0(at) : mem[i] = <<own[i + 1], i>>
  BY DEF HoldsText
<1> HIDE DEF n
<1> SUFFICES ASSUME NEW i \in Range0(end)
             PROVE  Written(mem, at, tokens, at)[i] = <<own[i + 1], i>>
  BY DEF n, HoldsText
<1>5. i \in Int /\ 0 <= i /\ i < end /\ i \in SlotNo
  BY <1>1 DEF Range0, SlotNo
<1>6. CASE i < at
  <2>1. i \in Range0(at) /\ ~(i \in at .. (end - 1)) /\ ~(i + KvSize < end)
    BY <1>1, <1>5, <1>6 DEF Range0
  <2>2. QED
    BY <1>2, <1>4, <1>5, <2>1
<1>7. CASE ~(i < at)
  <2>1. i \in at .. (end - 1) /\ at + (i - at) = i
    BY <1>1, <1>5, <1>7
  <2>2. PICK k : k = i - at + 1 /\ k \in 1 .. n /\ at + k = i + 1
    BY <1>1, <1>5, <1>7
  <2>3. tokens[i - at + 1] = own[i + 1]
    BY <1>3, <2>2
  <2>4. QED
    BY <1>2, <1>5, <2>1, <2>3
<1>8. QED
  BY <1>6, <1>7

\* With room in the buffers, what a call inside attends to or saves lies within
\* its own text and within the buffers.
LEMMA ReachBound ==
    ASSUME TypeInv, KvRoom, NEW c \in Calls, Inside(c), Placed(c)
    PROVE  /\ Reach(c) \in Nat
           /\ Reach(c) <= Len(call[c].prompt) + Len(call[c].gen)
           /\ Reach(c) <= KvSize
<1> DEFINE size  == Len(call[c].prompt)
           made  == Len(call[c].gen)
           reach == Reach(c)
           most  == MaxTokens
           room  == KvSize
<1>1. call[c] \in CallType /\ call[c].prompt \in Prompts
  BY DEF TypeInv, TypeOK, Begun, Inside
<1>2. /\ size \in Nat /\ size >= 1 /\ made \in Nat /\ reach \in Nat
      /\ most \in Nat \ {0} /\ room \in Nat
  BY <1>1, PromptsType DEF CallType, TypeInv, TypeOK, Reach
<1>3. size + most - 1 <= room
  BY <1>1 DEF KvRoom, Placed
<1>4. call[c].phase \in {"prefill", "first", "yielded", "decode", "finished", "saving"}
  BY <1>1 DEF CallType, Phases, Inside, Open, Waiting
<1>5. \/ made = 0 /\ reach <= size - 1
      \/ made \in 1 .. most /\ reach = size + made - 1
      \/ made <= most /\ reach \in {size + made - 1, size + made} /\ reach <= size + most - 1
  <2>1. CASE call[c].phase = "prefill"
    <3>1. made = 0 /\ reach < size - 1
      BY <2>1 DEF Placed, Reach
    <3> HIDE DEF made, reach, size
    <3>2. QED
      BY <1>2, <3>1
  <2>2. CASE call[c].phase = "first"
    <3>1. made = 0 /\ reach = size - 1
      BY <2>2 DEF Placed, Reach
    <3> HIDE DEF made, reach, size
    <3>2. QED
      BY <1>2, <3>1
  <2>3. CASE call[c].phase = "yielded"
    BY <2>3 DEF Placed, Reach
  <2>4. CASE call[c].phase = "decode"
    <3>1. made \in 1 .. (most - 1) /\ reach = size + made - 1
      BY <2>4 DEF Placed, Reach
    <3> HIDE DEF made, reach, size, most
    <3>2. QED
      BY <1>2, <3>1
  <2>5. CASE call[c].phase \in {"finished", "saving"}
    <3>1. AtEnd(c, reach)
      BY <2>5 DEF Placed, Reach
    <3> HIDE DEF reach
    <3>2. /\ made <= most
          /\ reach = size + made - 1 \/ reach = size + made
          /\ reach <= size + most - 1
      BY <1>2, <3>1 DEF AtEnd
    <3>3. QED
      BY <3>2
  <2>6. QED
    BY <1>4, <2>1, <2>2, <2>3, <2>4, <2>5
<1> HIDE DEF size, made, reach, most, room
<1>6. reach <= size + made /\ reach <= room
  BY <1>2, <1>3, <1>5
<1>7. QED
  BY <1>2, <1>6 DEF size, made, reach, room

\* Steps that leave the calls inside and the cache alone.
LEMMA OthersKeepContext ==
    ASSUME ContextInv, UNCHANGED <<slots, nCached>>, model' = "loaded" => model = "loaded",
           \A c \in Calls : Inside(c)' => Inside(c) /\ call'[c] = call[c],
           \A c \in Calls : Waiting(c)' => call'[c].gen = <<>>,
           \A v \in Convs : \/ pool'[v].snap = None
                            \/ \E w \in Convs : pool'[v].snap = pool[w].snap
    PROVE  ContextInv'
<1>1. SnapshotFaithful'
  BY DEF ContextInv, SnapshotFaithful
<1>2. ASSUME KvRoom, model' = "loaded", NEW c \in Calls, Inside(c)'
      PROVE  Placed(c)' /\ HoldsOwn(c)'
  <2>1. Placed(c) /\ HoldsOwn(c) /\ call'[c] = call[c]
    BY <1>2 DEF ContextInv
  <2>2. Placed(c)'
    BY <2>1 DEF Placed, AtEnd
  <2>3. HoldsOwn(c)'
    BY <2>1 DEF HoldsOwn, HoldsText, Reach, Own
  <2>4. QED
    BY <2>2, <2>3
<1>3. KvRoom' <=> KvRoom
  BY DEF KvRoom
<1>4. QED
  BY <1>1, <1>2, <1>3 DEF ContextInv

\* Steps of a call that is inside after them, and then alone there.
LEMMA InsideKeepsContext ==
    ASSUME ContextInv, OneInside', NEW c \in Calls, Inside(c)',
           UNCHANGED <<pool, model>>,
           \A d \in Calls : d # c => call'[d] = call[d],
           KvRoom /\ model = "loaded" => Placed(c)' /\ HoldsOwn(c)'
    PROVE  ContextInv'
<1>1. SnapshotFaithful'
  BY DEF ContextInv, SnapshotFaithful
<1>2. \A d \in Calls : Inside(d)' => d = c
  BY DEF OneInside
<1>3. \A d \in Calls : Waiting(d)' => d # c
  BY DEF Inside, Waiting
<1>4. \A d \in Calls : Waiting(d)' => call'[d].gen = <<>>
  BY <1>3 DEF ContextInv, Waiting
<1>5. KvRoom' <=> KvRoom
  BY DEF KvRoom
<1>6. QED
  BY <1>1, <1>2, <1>4, <1>5 DEF ContextInv

\* A call's own text begins with its prompt.
LEMMA OwnBegins ==
    ASSUME NEW prompt \in Seq(Tokens), NEW gen \in Seq(Tokens)
    PROVE  /\ prompt \o gen \in Seq(Tokens) /\ Len(prompt \o gen) = Len(prompt) + Len(gen)
           /\ \A k \in 1 .. Len(prompt) : (prompt \o gen)[k] = prompt[k]
           /\ \A k \in 1 .. Len(gen) : (prompt \o gen)[Len(prompt) + k] = gen[k]
OBVIOUS

\* Entering, a call takes over what its prompt shares with its own snapshot.
LEMMA EnterKeepsContext ==
    ASSUME TypeInv, ContextInv, OneInside', NEW c \in Calls, ChatEnter(c)
    PROVE  ContextInv'
<1> DEFINE v      == call[c].conv
           prompt == call[c].prompt
           last   == Len(prompt) - 1
           shared == SharedWith(v, prompt)
           cached == IF shared > last THEN last ELSE shared
<1>1. call[c] \in CallType /\ v \in Convs /\ prompt \in Prompts
  BY DEF ChatEnter, TypeInv, TypeOK, Begun, Waiting, Open
<1>2. /\ prompt \in Seq(Tokens) /\ Len(prompt) \in Nat /\ Len(prompt) >= 1
      /\ call[c].gen = <<>> /\ Waiting(c) /\ Len(prompt) <= MaxCtx
      /\ UNCHANGED <<pool, model>>
  BY <1>1, PromptsType DEF ContextInv, ChatEnter
<1>3. /\ shared \in Nat /\ shared <= Len(prompt)
      /\ shared > 0 => /\ pool[v].snap # None
                       /\ Len(pool[v].snap.ids) \in Nat
                       /\ shared <= Len(pool[v].snap.ids)
                       /\ \A k \in 1 .. shared : pool[v].snap.ids[k] = prompt[k]
  <2>1. CASE pool[v].snap = None
    BY <1>2, <2>1 DEF SharedWith
  <2>2. CASE pool[v].snap # None
    <3>1. Len(pool[v].snap.ids) \in Nat
      BY <1>1, <2>2 DEF TypeInv, TypeOK, PoolType, SnapshotType
    <3>2. shared = SharedLen(pool[v].snap.ids, prompt)
      BY <2>2 DEF SharedWith
    <3> HIDE DEF shared, prompt, v
    <3>3. QED
      BY <1>2, <2>2, <3>1, <3>2, SharedLenBound, SharedLenAgrees
  <2>3. QED
    BY <2>1, <2>2
<1>4. /\ slots' = IF shared > 0 THEN Loaded(pool[v].snap.kv, shared) ELSE slots
      /\ nCached' = cached
  BY DEF ChatEnter
<1>5. PICK phase \in IF shared < last THEN {"prefill"} ELSE Generating :
          call' = [call EXCEPT ![c].phase = phase, ![c].past = cached,
                               ![c].pos = SeedPosition(prompt)]
  BY DEF ChatEnter
<1> HIDE DEF shared, cached
<1>6. /\ call'[c].phase = phase /\ call'[c].past = cached /\ call'[c].pos = last
      /\ call'[c].prompt = prompt /\ call'[c].gen = <<>>
      /\ \A d \in Calls : d # c => call'[d] = call[d]
  BY <1>1, <1>2, <1>5 DEF TypeInv, TypeOK, CallType, SeedPosition
<1>7. phase \in {"prefill", "first", "finished"}
  BY DEF Generating
<1>8. Inside(c)'
  BY <1>6, <1>7 DEF Inside, Open, Waiting
<1> HIDE DEF v, prompt
<1>9. ASSUME KvRoom, model = "loaded" PROVE Placed(c)' /\ HoldsOwn(c)'
  <2>1. Len(prompt) <= KvSize
    <3>1. Len(prompt) + MaxTokens - 1 <= KvSize
      BY <1>1, <1>2, <1>9 DEF KvRoom
    <3>2. MaxTokens \in Nat \ {0} /\ KvSize \in Nat
      OBVIOUS
    <3>3. QED
      BY <1>2, <3>1, <3>2
  <2>2. /\ cached \in Nat /\ cached <= shared /\ cached <= last
        /\ phase = "prefill" => cached < last
        /\ phase # "prefill" => cached = last
    BY <1>2, <1>3 DEF Generating, cached
  <2>3. Placed(c)'
    <3>1. Len(call'[c].prompt) = Len(prompt) /\ Len(call'[c].gen) = 0
      BY <1>6
    <3>2. AtEnd(c, nCached)' \/ phase # "finished"
      <4> SUFFICES ASSUME phase = "finished" PROVE AtEnd(c, nCached)'
        OBVIOUS
      <4>1. nCached' = Len(prompt) - 1
        BY <1>4, <2>2
      <4>2. MaxTokens \in Nat /\ MaxTokens >= 1
        OBVIOUS
      <4>3. QED
        BY <1>2, <3>1, <4>1, <4>2 DEF AtEnd
    <3>3. QED
      BY <1>2, <1>6, <1>7, <2>2, <3>1, <3>2 DEF Placed
  <2>4. Reach(c)' = cached
    BY <1>4, <1>6, <1>7 DEF Reach
  <2>5. ASSUME NEW i \in Range0(cached)
        PROVE  slots'[i] = <<prompt[i + 1], i>>
    <3>1. /\ i \in Nat /\ i < shared /\ i \in SlotNo /\ shared > 0
      BY <1>2, <1>3, <2>1, <2>2, <2>5 DEF Range0, SlotNo
    <3>2. slots'[i] = pool[v].snap.kv[i + 1]
      BY <1>4, <3>1 DEF Loaded
    <3>3. PICK k : k = i + 1 /\ k \in 1 .. shared /\ k \in 1 .. Len(pool[v].snap.ids) /\ k - 1 = i
      BY <1>3, <3>1
    <3>4. pool[v].snap.ids[k] = prompt[k]
      BY <1>3, <3>1, <3>3
    <3>5. pool[v].snap.kv[k] = <<pool[v].snap.ids[k], k - 1>>
      <4>1. /\ Len(pool[v].snap.kv) = Len(pool[v].snap.ids)
            /\ \A j \in DOMAIN pool[v].snap.kv :
                   pool[v].snap.kv[j] = <<pool[v].snap.ids[j], j - 1>>
        BY <1>1, <1>3, <1>9, <3>1 DEF ContextInv, SnapshotFaithful
      <4>2. pool[v].snap.kv \in Seq(Slot)
        BY <1>1, <1>3, <3>1 DEF TypeInv, TypeOK, PoolType, SnapshotType
      <4>3. k \in DOMAIN pool[v].snap.kv
        BY <3>3, <4>1, <4>2
      <4>4. QED
        BY <4>1, <4>3
    <3>6. QED
      BY <3>2, <3>3, <3>4, <3>5
  <2>6. ASSUME NEW i \in Range0(cached)
        PROVE  Own(c)'[i + 1] = prompt[i + 1]
    <3>1. Own(c)' = prompt \o <<>>
      BY <1>6 DEF Own
    <3>2. i + 1 \in 1 .. Len(prompt)
      BY <1>2, <2>2, <2>6 DEF Range0
    <3>3. QED
      BY <1>2, <3>1, <3>2
  <2>7. HoldsOwn(c)'
    BY <2>4, <2>5, <2>6 DEF HoldsOwn, HoldsText
  <2>8. QED
    BY <2>3, <2>7
<1>10. QED
  BY <1>2, <1>6, <1>8, <1>9, InsideKeepsContext

\* The types of a call inside, by name.
LEMMA InsideTypes ==
    ASSUME TypeInv, NEW c \in Calls, Inside(c)
    PROVE  /\ call[c] \in CallType /\ call \in [Calls -> CallType]
           /\ call[c].prompt \in Prompts /\ call[c].prompt \in Seq(Tokens)
           /\ call[c].gen \in Seq(Tokens)
           /\ Len(call[c].prompt) \in Nat /\ Len(call[c].prompt) >= 1
           /\ Len(call[c].gen) \in Nat
           /\ call[c].past \in Nat /\ call[c].pos \in Nat /\ nCached \in Nat
<1>1. call[c] \in CallType /\ call \in [Calls -> CallType] /\ call[c].prompt \in Prompts
  BY DEF TypeInv, TypeOK, Begun, Inside
<1>2. QED
  BY <1>1, PromptsType DEF CallType, TypeInv, TypeOK

\* An admitted prompt and its reply fit in the buffers.
LEMMA RoomForPrompt ==
    ASSUME KvRoom, NEW prompt \in Prompts, Len(prompt) <= MaxCtx
    PROVE  Len(prompt) + MaxTokens - 1 <= KvSize
BY DEF KvRoom

\* The middle of the prompt is forwarded after what was taken over.
LEMMA PrefillKeepsContext ==
    ASSUME TypeInv, ContextInv, OneInside', NEW c \in Calls, PrefillDone(c)
    PROVE  ContextInv'
<1> DEFINE prompt == call[c].prompt
           size   == Len(prompt)
           past   == call[c].past
           mid    == SubSeq(prompt, past + 1, size - 1)
           end    == past + Len(mid)
<1>1. Inside(c) /\ call[c].phase = "prefill"
  BY DEF PrefillDone, Inside, Open, Waiting
<1>2. /\ call[c] \in CallType /\ call \in [Calls -> CallType]
      /\ prompt \in Prompts /\ prompt \in Seq(Tokens) /\ call[c].gen \in Seq(Tokens)
      /\ size \in Nat /\ size >= 1 /\ past \in Nat
  BY <1>1, InsideTypes
<1>3. PICK phase \in Generating : call' = [call EXCEPT ![c].phase = phase, ![c].past = end]
  BY DEF PrefillDone
<1>4. slots' = Written(slots, past, mid, past) /\ nCached' = end /\ UNCHANGED <<pool, model>>
  BY DEF PrefillDone
<1> HIDE DEF end
<1>5. /\ call'[c].phase = phase /\ call'[c].past = end
      /\ call'[c].prompt = call[c].prompt /\ call'[c].gen = call[c].gen
      /\ call'[c].pos = call[c].pos
      /\ \A d \in Calls : d # c => call'[d] = call[d]
  BY <1>2, <1>3 DEF CallType
<1>6. phase \in {"first", "finished"}
  BY DEF Generating
<1>7. Inside(c)'
  BY <1>5, <1>6 DEF Inside, Open, Waiting
<1>8. ASSUME KvRoom, model = "loaded" PROVE Placed(c)' /\ HoldsOwn(c)'
  <2>1. /\ Placed(c) /\ HoldsOwn(c)
    BY <1>1, <1>8 DEF ContextInv
  <2>2. /\ size <= MaxCtx /\ Len(call[c].gen) = 0 /\ past < size - 1
        /\ call[c].pos = size - 1
    BY <1>1, <2>1 DEF Placed
  <2>3. mid \in Seq(Tokens) /\ Len(mid) = size - 1 - past
        /\ \A k \in 1 .. Len(mid) : mid[k] = prompt[past + k]
    <3>1. size - 1 \in Nat /\ size - 1 <= size /\ past + 1 \in 1 .. size
          /\ past + 1 <= size - 1 /\ size = Len(prompt)
      BY <1>2, <2>2
    <3>2. \A k \in (past + 1) .. (size - 1) : prompt[k] \in Tokens
      BY <1>2
    <3>3. mid = [k \in 1 .. (size - 1 - past) |-> prompt[past + k]]
      <4> HIDE DEF size, past, prompt
      <4>1. mid = [k \in 1 .. ((size - 1) - (past + 1) + 1) |-> prompt[k + (past + 1) - 1]]
        BY <1>2, <3>1, <3>2
      <4>2. QED
        BY <1>2, <4>1
    <3>4. size - 1 - past \in Nat
      BY <1>2, <2>2
    <3> HIDE DEF mid
    <3>5. Len(mid) = size - 1 - past /\ \A k \in 1 .. Len(mid) : mid[k] = prompt[past + k]
      BY <3>3, <3>4
    <3>6. mid \in Seq(Tokens)
      BY <1>2, <3>1 DEF mid
    <3>7. QED
      BY <3>5, <3>6
  <2>4. end = size - 1 /\ past + Len(mid) = end
    BY <1>2, <2>3 DEF end
  <2>5. end <= KvSize
    <3>1. size + MaxTokens - 1 <= KvSize
      BY <1>2, <1>8, <2>2, RoomForPrompt
    <3>2. MaxTokens \in Nat /\ KvSize \in Nat
      OBVIOUS
    <3>3. QED
      BY <1>2, <2>4, <3>1, <3>2
  <2>6. \A k \in 1 .. Len(mid) : mid[k] = Own(c)[past + k]
    <3> SUFFICES ASSUME NEW k \in 1 .. Len(mid) PROVE prompt[past + k] = Own(c)[past + k]
      BY <2>3
    <3>1. past + k \in 1 .. Len(prompt)
      BY <1>2, <2>3
    <3> HIDE DEF prompt
    <3>2. Own(c) = prompt \o call[c].gen
      BY DEF Own, prompt
    <3>3. QED
      BY <1>2, <3>1, <3>2, OwnBegins
  <2>7. \A i \in Range0(past) : slots[i] = <<Own(c)[i + 1], i>>
    BY <1>1, <2>1 DEF HoldsOwn, HoldsText, Reach
  <2>8. \A i \in Range0(end) : slots'[i] = <<Own(c)[i + 1], i>>
    <3>0. past + Len(mid) <= KvSize
      BY <2>4, <2>5
    <3> HIDE DEF mid, past, prompt, size
    <3>1. Continues(mid, Own(c), past) /\ HoldsText(slots, Own(c), past)
      BY <2>6, <2>7 DEF Continues, HoldsText
    <3>2. HoldsText(Written(slots, past, mid, past), Own(c), past + Len(mid))
      BY <1>2, <2>3, <3>0, <3>1, WrittenContinues
    <3>3. QED
      BY <1>4, <2>4, <3>2 DEF HoldsText
  <2>9. HoldsOwn(c)'
    <3>1. Reach(c)' = end
      BY <1>4, <1>5, <1>6 DEF Reach
    <3>2. Own(c)' = Own(c)
      BY <1>5 DEF Own
    <3>3. QED
      BY <2>8, <3>1, <3>2 DEF HoldsOwn, HoldsText
  <2>10. Placed(c)'
    <3>1. Len(call'[c].prompt) = size /\ Len(call'[c].gen) = 0
      BY <1>5, <2>2
    <3>2. AtEnd(c, nCached)'
      <4>1. MaxTokens \in Nat /\ MaxTokens >= 1
        OBVIOUS
      <4>2. nCached' = size - 1
        BY <1>4, <2>4
      <4> HIDE DEF size
      <4>3. QED
        BY <1>2, <3>1, <4>1, <4>2 DEF AtEnd
    <3>3. call'[c].past = size - 1 /\ call'[c].pos = size - 1
      BY <1>5, <2>2, <2>4
    <3> HIDE DEF size
    <3>4. QED
      BY <1>5, <1>6, <2>2, <3>1, <3>2, <3>3 DEF Placed
  <2>11. QED
    BY <2>9, <2>10
<1>9. QED
  BY <1>4, <1>5, <1>7, <1>8, InsideKeepsContext

\* The last token of the call's text is forwarded after all the others.
LEMMA ForwardKeepsContext ==
    ASSUME TypeInv, ContextInv, OneInside', NEW c \in Calls,
           call[c].phase \in {"first", "decode"},
           NEW token \in Tokens, TokenForwarded(c, token),
           KvRoom /\ model = "loaded" => token = Own(c)[call[c].past + 1],
           NEW candidates \in SUBSET Tokens, Sampled(c, candidates),
           UNCHANGED <<pool, model>>
    PROVE  ContextInv'
<1> DEFINE prompt == call[c].prompt
           size   == Len(prompt)
           gen    == call[c].gen
           made   == Len(gen)
           past   == call[c].past
<1>1. Inside(c)
  BY DEF Inside, Open, Waiting
<1>2. /\ call[c] \in CallType /\ call \in [Calls -> CallType]
      /\ prompt \in Prompts /\ prompt \in Seq(Tokens) /\ gen \in Seq(Tokens)
      /\ size \in Nat /\ size >= 1 /\ made \in Nat /\ past \in Nat /\ call[c].pos \in Nat
  BY <1>1, InsideTypes
<1>3. slots' = Written(slots, past, <<token>>, call[c].pos) /\ nCached' = past + 1
  BY DEF TokenForwarded
<1>4. /\ \/ call'[c].phase = "finished" /\ call'[c].gen = gen
         \/ /\ call'[c].phase = "yielded"
            /\ \E t \in Tokens : call'[c].gen = Append(gen, t)
      /\ call'[c].prompt = prompt /\ call'[c].pos = call[c].pos + 1
      /\ \A d \in Calls : d # c => call'[d] = call[d]
  BY <1>2 DEF Sampled, CallType
<1>5. Inside(c)'
  BY <1>4 DEF Inside, Open, Waiting
<1>6. ASSUME KvRoom, model = "loaded" PROVE Placed(c)' /\ HoldsOwn(c)'
  <2>1. Placed(c) /\ HoldsOwn(c)
    BY <1>1, <1>6 DEF ContextInv
  <2>2. MaxTokens \in Nat /\ MaxTokens >= 1 /\ KvSize \in Nat
    OBVIOUS
  <2>3. /\ size <= MaxCtx /\ call[c].pos = past
        /\ past = size + made - 1 /\ made <= MaxTokens - 1
    <3>1. CASE call[c].phase = "first"
      <4>1. size <= MaxCtx /\ made = 0 /\ past = size - 1 /\ call[c].pos = size - 1
        BY <2>1, <3>1 DEF Placed
      <4> HIDE DEF size, made, past
      <4>2. QED
        BY <1>2, <2>2, <4>1
    <3>2. CASE call[c].phase = "decode"
      <4>1. /\ size <= MaxCtx /\ made \in 1 .. (MaxTokens - 1)
            /\ past = size + made - 1 /\ call[c].pos = past
        BY <2>1, <3>2 DEF Placed
      <4> HIDE DEF size, made, past
      <4>2. QED
        BY <1>2, <2>2, <4>1
    <3>3. QED
      BY <3>1, <3>2
  <2>4. past + 1 = size + made /\ past + 1 <= KvSize /\ past + 1 <= size + MaxTokens - 1
    <3>1. size + MaxTokens - 1 <= KvSize
      BY <1>2, <1>6, <2>3, RoomForPrompt
    <3> HIDE DEF size, made, past
    <3>2. QED
      BY <1>2, <2>2, <2>3, <3>1
  <2>5. \A i \in Range0(past) : slots[i] = <<Own(c)[i + 1], i>>
    BY <2>1 DEF HoldsOwn, HoldsText, Reach
  <2>6. \A i \in Range0(past + 1) : slots'[i] = <<Own(c)[i + 1], i>>
    <3> DEFINE one == <<token>>
    <3>1. one \in Seq(Tokens) /\ Len(one) = 1 /\ \A k \in 1 .. Len(one) : one[k] = Own(c)[past + k]
      BY <1>2, <1>6
    <3>2. slots' = Written(slots, past, one, past)
      BY <1>3, <2>3
    <3>0. past + Len(one) <= KvSize
      BY <2>4, <3>1
    <3> HIDE DEF one, past
    <3>3. Continues(one, Own(c), past) /\ HoldsText(slots, Own(c), past)
      BY <2>5, <3>1 DEF Continues, HoldsText
    <3>4. HoldsText(Written(slots, past, one, past), Own(c), past + Len(one))
      BY <1>2, <3>0, <3>1, <3>3, WrittenContinues
    <3>5. QED
      BY <3>1, <3>2, <3>4 DEF HoldsText
  <2>7. ASSUME NEW k \in 1 .. (size + made) PROVE Own(c)'[k] = Own(c)[k]
    <3>1. CASE call'[c].gen = gen
      BY <1>4, <3>1 DEF Own
    <3>2. ASSUME NEW t \in Tokens, call'[c].gen = Append(gen, t) PROVE Own(c)'[k] = Own(c)[k]
      <4>1. Own(c)' = prompt \o Append(gen, t) /\ Own(c) = prompt \o gen
        BY <1>4, <3>2 DEF Own
      <4>2. k \in 1 .. (Len(prompt) + Len(gen))
        OBVIOUS
      <4> HIDE DEF prompt, gen
      <4>3. (prompt \o Append(gen, t))[k] = (prompt \o gen)[k]
        BY <1>2, <4>2
      <4>4. QED
        BY <4>1, <4>3
    <3>3. QED
      BY <1>4, <3>1, <3>2
  <2>8. HoldsOwn(c)'
    <3>1. Reach(c)' = past + 1
      BY <1>3, <1>4 DEF Reach
    <3>2. ASSUME NEW i \in Range0(past + 1) PROVE slots'[i] = <<Own(c)'[i + 1], i>>
      <4>1. i + 1 \in 1 .. (size + made)
        <5> HIDE DEF size, made, past
        <5>1. QED
          BY <1>2, <2>4, <3>2 DEF Range0
      <4>2. QED
        BY <2>6, <2>7, <4>1
    <3>3. QED
      BY <3>1, <3>2 DEF HoldsOwn, HoldsText
  <2>9. Placed(c)'
    <3>1. CASE call'[c].phase = "finished" /\ call'[c].gen = gen
      <4>1. Len(call'[c].prompt) = size /\ Len(call'[c].gen) = made
        BY <1>4, <3>1
      <4> HIDE DEF size, made, past
      <4>2. AtEnd(c, nCached)'
        BY <1>2, <1>3, <2>2, <2>3, <2>4, <4>1 DEF AtEnd
      <4>3. QED
        BY <2>3, <3>1, <4>1, <4>2 DEF Placed
    <3>2. ASSUME NEW t \in Tokens, call'[c].phase = "yielded", call'[c].gen = Append(gen, t)
          PROVE  Placed(c)'
      <4>1. Len(call'[c].prompt) = size /\ Len(call'[c].gen) = made + 1
        BY <1>2, <1>4, <3>2
      <4>2. call'[c].pos = past + 1 /\ nCached' = past + 1
        BY <1>3, <1>4, <2>3
      <4> HIDE DEF size, made, past
      <4>3. /\ made + 1 \in 1 .. MaxTokens
            /\ past + 1 = size + (made + 1) - 1
        BY <1>2, <2>2, <2>3, <2>4
      <4>4. QED
        BY <2>3, <3>2, <4>1, <4>2, <4>3 DEF Placed
    <3>3. QED
      BY <1>4, <3>1, <3>2
  <2>10. QED
    BY <2>8, <2>9
<1>7. QED
  BY <1>4, <1>5, <1>6, InsideKeepsContext

LEMMA FirstKeepsContext ==
    ASSUME TypeInv, ContextInv, OneInside', NEW c \in Calls, FirstDone(c)
    PROVE  ContextInv'
<1> DEFINE prompt == call[c].prompt
           token  == prompt[Len(prompt)]
<1>1. Inside(c) /\ call[c].phase = "first"
  BY DEF FirstDone, Inside, Open, Waiting
<1>2. /\ prompt \in Prompts /\ prompt \in Seq(Tokens) /\ call[c].gen \in Seq(Tokens)
      /\ Len(prompt) \in Nat /\ Len(prompt) >= 1 /\ token \in Tokens
  BY <1>1, InsideTypes, PromptsType
<1>3. ASSUME KvRoom, model = "loaded" PROVE token = Own(c)[call[c].past + 1]
  <2>1. call[c].past = Len(prompt) - 1
    BY <1>1, <1>3 DEF ContextInv, Placed
  <2>2. PICK n : n = Len(prompt) /\ n \in 1 .. Len(prompt) /\ call[c].past + 1 = n
    BY <1>2, <2>1
  <2>3. Own(c) = prompt \o call[c].gen
    BY DEF Own
  <2> HIDE DEF prompt
  <2>4. (prompt \o call[c].gen)[n] = prompt[n]
    BY <1>2, <2>2, OwnBegins
  <2>5. QED
    BY <2>2, <2>3, <2>4
<1>4. TokenForwarded(c, token) /\ Sampled(c, Tokens) /\ UNCHANGED <<pool, model>>
  BY DEF FirstDone
<1> HIDE DEF token
<1>5. Tokens \in SUBSET Tokens
  OBVIOUS
<1>6. QED
  BY <1>1, <1>2, <1>3, <1>4, <1>5, ForwardKeepsContext

LEMMA DecodeKeepsContext ==
    ASSUME TypeInv, ContextInv, OneInside', NEW c \in Calls, DecodeDone(c)
    PROVE  ContextInv'
<1> DEFINE prompt == call[c].prompt
           gen    == call[c].gen
           token  == gen[Len(gen)]
<1>1. Inside(c) /\ call[c].phase = "decode"
  BY DEF DecodeDone, Inside, Open, Waiting
<1>2. /\ prompt \in Seq(Tokens) /\ gen \in Seq(Tokens)
      /\ Len(prompt) \in Nat /\ Len(gen) \in Nat /\ Len(gen) >= 1 /\ token \in Tokens
  <2>1. prompt \in Seq(Tokens) /\ gen \in Seq(Tokens) /\ Len(prompt) \in Nat
    BY <1>1, InsideTypes
  <2>2. gen # <<>>
    BY <1>1 DEF TypeInv, HasToken
  <2> HIDE DEF gen
  <2>3. Len(gen) \in Nat /\ Len(gen) >= 1 /\ gen[Len(gen)] \in Tokens
    BY <2>1, <2>2
  <2>4. QED
    BY <2>1, <2>3
<1>3. ASSUME KvRoom, model = "loaded" PROVE token = Own(c)[call[c].past + 1]
  <2>1. call[c].past = Len(prompt) + Len(gen) - 1
    BY <1>1, <1>3 DEF ContextInv, Placed
  <2>3. Own(c) = prompt \o gen
    BY DEF Own
  <2> HIDE DEF prompt, gen
  <2>0. Len(prompt) \in Nat /\ Len(gen) \in Nat /\ Len(gen) >= 1
    BY <1>2
  <2>2. PICK n : n = Len(gen) /\ n \in 1 .. Len(gen) /\ call[c].past + 1 = Len(prompt) + n
    <3>1. Len(gen) \in 1 .. Len(gen) /\ call[c].past + 1 = Len(prompt) + Len(gen)
      BY <2>0, <2>1
    <3>2. QED
      BY <3>1
  <2>4. (prompt \o gen)[Len(prompt) + n] = gen[n]
    BY <1>2, <2>2, OwnBegins
  <2>5. QED
    BY <2>2, <2>3, <2>4
<1>4. TokenForwarded(c, token) /\ Sampled(c, Tokens \ {Eos}) /\ UNCHANGED <<pool, model>>
  BY DEF DecodeDone
<1> HIDE DEF token
<1>5. Tokens \ {Eos} \in SUBSET Tokens
  OBVIOUS
<1>6. QED
  BY <1>1, <1>2, <1>3, <1>4, <1>5, ForwardKeepsContext

\* The caller's next demand moves a call on without a forward.
LEMMA DemandKeepsContext ==
    ASSUME TypeInv, ContextInv, OneInside', NEW c \in Calls, Resume(c) \/ SaveBegin(c)
    PROVE  ContextInv'
<1> DEFINE size == Len(call[c].prompt)
           made == Len(call[c].gen)
<1>1. Inside(c) /\ call[c].phase \in {"yielded", "finished"}
  BY DEF Resume, SaveBegin, Inside, Open, Waiting
<1>2. /\ call[c] \in CallType /\ call \in [Calls -> CallType]
      /\ size \in Nat /\ made \in Nat /\ nCached \in Nat
      /\ MaxTokens \in Nat /\ MaxTokens >= 1
  <2>1. MaxTokens \in Nat /\ MaxTokens >= 1
    OBVIOUS
  <2>2. QED
    BY <1>1, <2>1, InsideTypes
<1>3. UNCHANGED <<pool, model, slots, nCached>>
  BY DEF Resume, SaveBegin
<1>4. /\ call'[c].prompt = call[c].prompt /\ call'[c].gen = call[c].gen
      /\ call'[c].pos = call[c].pos
      /\ \A d \in Calls : d # c => call'[d] = call[d]
      /\ \/ call[c].phase = "yielded" /\ call'[c].phase = "finished"
         \/ /\ call[c].phase = "yielded" /\ ~ShouldStop(c)
            /\ call'[c].phase = "decode" /\ call'[c].past = nCached
         \/ /\ call[c].phase = "finished"
            /\ call'[c].phase = "saving" /\ call'[c].past = nCached
  BY <1>2 DEF Resume, SaveBegin, Steps, CallType
<1>5. Inside(c)'
  BY <1>4 DEF Inside, Open, Waiting
<1>6. ASSUME KvRoom, model = "loaded" PROVE Placed(c)' /\ HoldsOwn(c)'
  <2>1. Placed(c) /\ HoldsOwn(c)
    BY <1>1, <1>6 DEF ContextInv
  <2>2. HoldsOwn(c)'
    <3>1. Reach(c)' = Reach(c)
      BY <1>3, <1>4 DEF Reach
    <3>2. Own(c)' = Own(c)
      BY <1>4 DEF Own
    <3>3. QED
      BY <1>3, <2>1, <3>1, <3>2 DEF HoldsOwn, HoldsText
  <2>3. Len(call'[c].prompt) = size /\ Len(call'[c].gen) = made /\ size <= MaxCtx
    BY <1>4, <2>1 DEF Placed
  <2>4. CASE call[c].phase = "yielded"
    <3>1. made \in 1 .. MaxTokens /\ nCached = size + made - 1 /\ call[c].pos = nCached
      BY <2>1, <2>4 DEF Placed
    <3>2. CASE call'[c].phase = "finished"
      <4> HIDE DEF size, made
      <4>1. AtEnd(c, nCached)'
        BY <1>2, <1>3, <2>3, <3>1 DEF AtEnd
      <4>2. QED
        BY <2>2, <2>3, <3>2, <4>1 DEF Placed
    <3>3. CASE call'[c].phase = "decode" /\ ~ShouldStop(c) /\ call'[c].past = nCached
      <4>1. ~(1 + made >= MaxTokens)
        BY <3>3 DEF ShouldStop
      <4> HIDE DEF size, made
      <4>2. made \in 1 .. (MaxTokens - 1)
        BY <1>2, <3>1, <4>1
      <4>3. QED
        BY <1>4, <2>2, <2>3, <3>1, <3>3, <4>2 DEF Placed
    <3>4. QED
      BY <1>4, <2>4, <3>2, <3>3
  <2>5. CASE call[c].phase = "finished"
    <3>1. AtEnd(c, nCached) /\ call'[c].phase = "saving" /\ call'[c].past = nCached
      BY <1>4, <2>1, <2>5 DEF Placed
    <3>2. AtEnd(c, call[c].past)'
      BY <1>4, <3>1 DEF AtEnd
    <3>3. QED
      BY <2>2, <2>3, <3>1, <3>2 DEF Placed
  <2>6. QED
    BY <1>1, <2>2, <2>4, <2>5
<1>7. QED
  BY <1>3, <1>4, <1>5, <1>6, InsideKeepsContext

\* What is saved while the model is loaded: slots and tokens of the call's text.
LEMMA SnapshotIsOwn ==
    ASSUME TypeInv, ContextInv, KvRoom, model = "loaded",
           NEW c \in Calls, call[c].phase = "saving"
    PROVE  /\ Len(Snapshot(c).kv) = call[c].past /\ Len(Snapshot(c).ids) = call[c].past
           /\ DOMAIN Snapshot(c).kv = 1 .. call[c].past
           /\ \A k \in 1 .. call[c].past :
                  /\ k \in 1 .. Len(Own(c))
                  /\ Snapshot(c).ids[k] = Own(c)[k]
                  /\ Snapshot(c).kv[k] = <<Own(c)[k], k - 1>>
<1> DEFINE past == call[c].past
<1>1. Inside(c)
  BY DEF Inside, Open, Waiting
<1>2. Placed(c) /\ HoldsOwn(c) /\ Reach(c) = past
  BY <1>1 DEF ContextInv, Reach
<1>3. /\ past \in Nat /\ past <= KvSize /\ KvSize \in Nat
      /\ past <= Len(call[c].prompt) + Len(call[c].gen)
      /\ call[c].prompt \in Seq(Tokens) /\ call[c].gen \in Seq(Tokens)
  BY <1>1, <1>2, ReachBound, InsideTypes
<1>4. Own(c) \in Seq(Tokens) /\ past <= Len(Own(c)) /\ Len(Own(c)) \in Nat
  <2> DEFINE prompt == call[c].prompt
             gen    == call[c].gen
  <2>1. Own(c) = prompt \o gen
    BY DEF Own
  <2> HIDE DEF prompt, gen, past
  <2>2. prompt \in Seq(Tokens) /\ gen \in Seq(Tokens) /\ past <= Len(prompt) + Len(gen)
    BY <1>3 DEF prompt, gen
  <2>3. prompt \o gen \in Seq(Tokens) /\ Len(prompt \o gen) = Len(prompt) + Len(gen)
    BY <2>2
  <2>4. QED
    BY <2>1, <2>2, <2>3
<1>5. /\ Snapshot(c).ids = [k \in 1 .. past |-> IF k <= Len(Own(c)) THEN Own(c)[k] ELSE -1]
      /\ Snapshot(c).kv = [k \in 1 .. past |-> IF k <= KvSize THEN slots[k - 1] ELSE Junk]
  BY DEF Snapshot, FullIds, Serialized, Own
<1> HIDE DEF past
<1>6. Len(Snapshot(c).kv) = past /\ Len(Snapshot(c).ids) = past /\ DOMAIN Snapshot(c).kv = 1 .. past
  BY <1>3, <1>5
<1>7. ASSUME NEW k \in 1 .. past
      PROVE  /\ k \in 1 .. Len(Own(c))
             /\ Snapshot(c).ids[k] = Own(c)[k]
             /\ Snapshot(c).kv[k] = <<Own(c)[k], k - 1>>
  <2>1. k \in 1 .. Len(Own(c)) /\ k <= Len(Own(c)) /\ k <= KvSize
    BY <1>3, <1>4
  <2>2. PICK i : i = k - 1 /\ i \in Range0(past) /\ i + 1 = k
    BY <1>3 DEF Range0
  <2>3. slots[i] = <<Own(c)[i + 1], i>>
    BY <1>2, <2>2 DEF HoldsOwn, HoldsText
  <2>4. QED
    BY <1>5, <2>1, <2>2, <2>3
<1>8. QED
  BY <1>6, <1>7 DEF past

\* Once the model unloads there is nothing left to save to.
LEMMA SaveNeedsModel ==
    ASSUME HeldInv, NEW c \in Calls, SaveDone(c)
    PROVE  model = "loaded"
BY DEF HeldInv, SaveDone, Inside, Open, Waiting

LEMMA EndKeepsContext ==
    ASSUME TypeInv, HeldInv, ContextInv, NEW c \in Calls, SaveDone(c) \/ Leave(c)
    PROVE  ContextInv'
<1> DEFINE v == call[c].conv
<1>1. Open(c)
  BY DEF SaveDone, Leave, Inside, Open, Waiting
<1>2. v \in Convs /\ pool \in [Convs -> PoolType]
  BY <1>1 DEF TypeInv, TypeOK, Begun
<1>3. /\ call'[c].phase = "ended" /\ \A d \in Calls : d # c => call'[d] = call[d]
      /\ UNCHANGED <<model, slots, nCached>>
  BY DEF SaveDone, Leave, Finally, Over, Invocation, TypeInv, TypeOK
<1>4. /\ \A d \in Calls : Inside(d)' => Inside(d) /\ call'[d] = call[d]
      /\ \A d \in Calls : Waiting(d)' => call'[d].gen = <<>>
  BY <1>3 DEF Inside, Open, Waiting, ContextInv
<1>5. CASE Leave(c)
  <2>1. \A w \in Convs : pool'[w].snap = pool[w].snap
    BY <1>2, <1>5 DEF Leave, Finally, PoolType
  <2>2. QED
    BY <1>3, <1>4, <2>1, OthersKeepContext
<1>6. CASE SaveDone(c)
  <2>1. /\ pool'[v].snap = Snapshot(c)
        /\ \A w \in Convs : w # v => pool'[w].snap = pool[w].snap
    BY <1>2, <1>6 DEF SaveDone, Finally, PoolType
  <2>2. model = "loaded" /\ call[c].phase = "saving"
    BY <1>6, SaveNeedsModel DEF SaveDone
  <2>3. SnapshotFaithful'
    <3> SUFFICES ASSUME KvRoom, NEW w \in Convs, pool'[w].snap # None
                 PROVE  /\ Len(pool'[w].snap.kv) = Len(pool'[w].snap.ids)
                        /\ \A k \in DOMAIN pool'[w].snap.kv :
                               pool'[w].snap.kv[k] = <<pool'[w].snap.ids[k], k - 1>>
      BY DEF SnapshotFaithful, KvRoom
    <3>1. CASE w = v
      BY <2>1, <2>2, <3>1, SnapshotIsOwn
    <3>2. CASE w # v
      BY <2>1, <3>2 DEF ContextInv, SnapshotFaithful
    <3>3. QED
      BY <3>1, <3>2
  <2>4. ASSUME KvRoom, NEW d \in Calls, Inside(d)', model' = "loaded"
        PROVE  Placed(d)' /\ HoldsOwn(d)'
    <3>1. Placed(d) /\ HoldsOwn(d) /\ call'[d] = call[d]
      BY <1>3, <1>4, <2>4 DEF ContextInv
    <3>2. Placed(d)'
      BY <1>3, <3>1 DEF Placed, AtEnd
    <3>3. HoldsOwn(d)'
      BY <1>3, <3>1 DEF HoldsOwn, HoldsText, Reach, Own
    <3>4. QED
      BY <3>2, <3>3
  <2>5. KvRoom' <=> KvRoom
    BY DEF KvRoom
  <2>6. QED
    BY <1>4, <2>3, <2>4, <2>5 DEF ContextInv
<1>7. QED
  BY <1>5, <1>6

LEMMA BeginKeepsContext ==
    ASSUME TypeInv, ContextInv, NEW c \in Calls, NEW v \in Convs, NEW p \in Prompts,
           ChatBegin(c, v, p)
    PROVE  ContextInv'
<1>1. /\ call'[c].phase = "waiting" /\ call'[c].gen = <<>>
      /\ \A d \in Calls : d # c => call'[d] = call[d]
      /\ UNCHANGED <<model, slots, nCached>>
  BY DEF ChatBegin, Invocation, TypeInv, TypeOK
<1>2. \A w \in Convs : pool'[w].snap = pool[w].snap
  BY DEF ChatBegin, TypeInv, TypeOK, PoolType
<1>3. /\ \A d \in Calls : Inside(d)' => Inside(d) /\ call'[d] = call[d]
      /\ \A d \in Calls : Waiting(d)' => call'[d].gen = <<>>
  BY <1>1 DEF Inside, Open, Waiting, ContextInv
<1>4. QED
  BY <1>1, <1>2, <1>3, OthersKeepContext

LEMMA PoolStepKeepsContext ==
    ASSUME TypeInv, ContextInv,
           \/ \E v \in Convs : CreateConversation(v) \/ DisposeConversation(v)
           \/ \E src, v \in Convs : ForkConversation(src, v)
           \/ UnloadModel \/ UnloadModelDone
    PROVE  ContextInv'
<1>1. UNCHANGED call /\ pool \in [Convs -> PoolType]
  BY DEF CreateConversation, DisposeConversation, ForkConversation, UnloadModel,
         UnloadModelDone, TypeInv, TypeOK
<1>2. /\ \A d \in Calls : Inside(d)' => Inside(d) /\ call'[d] = call[d]
      /\ \A d \in Calls : Waiting(d)' => call'[d].gen = <<>>
  BY <1>1 DEF Inside, Open, Waiting, ContextInv
<1>3. \A w \in Convs : pool'[w].snap = None \/ \E x \in Convs : pool'[w].snap = pool[x].snap
  <2>1. ASSUME NEW v \in Convs, CreateConversation(v) PROVE \A w \in Convs : pool'[w].snap = pool[w].snap
    BY <1>1, <2>1 DEF CreateConversation, PoolType
  <2>2. ASSUME NEW v \in Convs, DisposeConversation(v)
        PROVE  \A w \in Convs : pool'[w].snap = None \/ pool'[w].snap = pool[w].snap
    BY <1>1, <2>2 DEF DisposeConversation, Gone
  <2>3. ASSUME NEW src \in Convs, NEW v \in Convs, ForkConversation(src, v)
        PROVE  \A w \in Convs : pool'[w].snap = pool[src].snap \/ pool'[w].snap = pool[w].snap
    BY <1>1, <2>3 DEF ForkConversation, PoolType
  <2>4. ASSUME UnloadModel
        PROVE  \A w \in Convs : pool'[w].snap = None \/ pool'[w].snap = pool[w].snap
    BY <2>4 DEF UnloadModel, Gone
  <2>5. ASSUME UnloadModelDone PROVE \A w \in Convs : pool'[w].snap = pool[w].snap
    BY <2>5 DEF UnloadModelDone
  <2>6. QED
    BY <2>1, <2>2, <2>3, <2>4, <2>5
<1>4. CASE UnloadModel
  <2>1. model' # "loaded"
    BY <1>4 DEF UnloadModel
  <2>2. SnapshotFaithful'
    BY <1>3 DEF ContextInv, SnapshotFaithful, KvRoom
  <2>3. QED
    BY <1>2, <2>1, <2>2 DEF ContextInv
<1>5. CASE ~UnloadModel
  <2>1. UNCHANGED <<slots, nCached>> /\ (model' = "loaded" => model = "loaded")
    BY <1>5 DEF CreateConversation, DisposeConversation, ForkConversation, UnloadModelDone
  <2>2. QED
    BY <1>2, <1>3, <2>1, OthersKeepContext
<1>6. QED
  BY <1>4, <1>5

LEMMA ContextStep == Inv /\ Inv' /\ HeldInv /\ ContextInv /\ [Next]_vars => ContextInv'
<1> SUFFICES ASSUME TypeInv, OneInside', HeldInv, ContextInv, [Next]_vars PROVE ContextInv'
  BY DEF Inv, OrderInv
<1>1. ASSUME \/ \E v \in Convs : CreateConversation(v) \/ DisposeConversation(v)
             \/ \E src, v \in Convs : ForkConversation(src, v)
             \/ UnloadModel \/ UnloadModelDone
      PROVE  ContextInv'
  BY <1>1, PoolStepKeepsContext
<1>2. ASSUME NEW c \in Calls, NEW v \in Convs, NEW p \in Prompts, ChatBegin(c, v, p)
      PROVE  ContextInv'
  BY <1>2, BeginKeepsContext
<1>3. ASSUME NEW c \in Calls, CallStep(c) PROVE ContextInv'
  BY <1>3, EnterKeepsContext, PrefillKeepsContext, FirstKeepsContext, DecodeKeepsContext,
     DemandKeepsContext, EndKeepsContext DEF CallStep
<1>4. CASE UNCHANGED vars
  BY <1>4, OthersKeepContext DEF vars, Inside, Open, Waiting, ContextInv
<1>5. QED
  BY <1>1, <1>2, <1>3, <1>4 DEF Next

LEMMA ContextInvHolds == Spec => [](HeldInv /\ ContextInv)
<1>1. Inv /\ Inv' /\ HeldInv /\ ContextInv /\ [Next]_vars => HeldInv' /\ ContextInv'
  BY HeldStep, ContextStep DEF Inv
<1>2. QED
  BY <1>1, InitHeld, InitContext, InvHolds, PTL DEF Spec

\* Every forward of a call conditions on its own prompt and reply and on nothing
\* of any other conversation, and every snapshot is what its token ids say, for
\* any interleaving of calls, forks, disposals and an unload.
THEOREM ContextsAreOwnHolds == Spec => []ContextsAreOwn
<1>1. Inv /\ ContextInv => ContextsAreOwn
  <2> SUFFICES ASSUME Inv, ContextInv PROVE OwnContext
    BY DEF ContextInv, ContextsAreOwn
  <2> SUFFICES ASSUME KvRoom, NEW c \in Calls, model = "loaded",
                      call[c].phase \in {"prefill", "first", "decode"}
               PROVE  /\ call[c].phase # "prefill" => call[c].pos = call[c].past
                      /\ \A i \in Range0(call[c].past) : slots[i] = <<Own(c)[i + 1], i>>
    BY DEF OwnContext
  <2>1. Placed(c) /\ HoldsOwn(c)
    BY DEF ContextInv, Inside, Open, Waiting
  <2>2. QED
    BY <2>1 DEF Placed, HoldsOwn, HoldsText, Reach
<1>2. QED
  BY <1>1, InvHolds, ContextInvHolds, PTL

(***************************************************************************)
(* The refinement.  The turn of a live conversation is the prompt of the   *)
(* one call that holds it, its history what its snapshot's bytes contain.  *)
(***************************************************************************)

Histories == [v \in Convs |-> HistoryOf(v)]
Turns     == [v \in Convs |-> TurnOf(v)]

LEMMA TurnIs ==
    ASSUME HeldInv, NEW v \in Convs
    PROVE  /\ ~Live(v) => TurnOf(v) = None
           /\ (\A c \in Calls : Open(c) => call[c].conv # v) => TurnOf(v) = None
           /\ \A c \in Calls : Open(c) /\ call[c].conv = v /\ Live(v) => TurnOf(v) = call[c].prompt
<1>1. ~Live(v) => TurnOf(v) = None
  BY DEF TurnOf
<1>2. ASSUME \A c \in Calls : Open(c) => call[c].conv # v PROVE TurnOf(v) = None
  BY <1>2 DEF TurnOf, Answering
<1>3. ASSUME NEW c \in Calls, Open(c), call[c].conv = v, Live(v) PROVE TurnOf(v) = call[c].prompt
  <2>1. Answering(v) = {c}
    BY <1>3 DEF HeldInv, Answering
  <2>2. TurnOf(v) = call[CHOOSE d \in Answering(v) : TRUE].prompt
    BY <1>3, <2>1 DEF TurnOf
  <2>3. (CHOOSE d \in Answering(v) : TRUE) = c
    BY <2>1
  <2>4. QED
    BY <2>2, <2>3
<1>4. QED
  BY <1>1, <1>2, <1>3

\* A step that changes nothing about who answers a conversation.
LEMMA SameTurn ==
    ASSUME NEW v \in Convs, Live(v)' <=> Live(v),
           \A c \in Calls : /\ (Open(c)' /\ call'[c].conv = v) <=> (Open(c) /\ call[c].conv = v)
                            /\ Open(c) /\ call[c].conv = v => call'[c].prompt = call[c].prompt
    PROVE  TurnOf(v)' = TurnOf(v)
<1>1. Answering(v)' = Answering(v)
  BY DEF Answering
<1>2. CASE Live(v) /\ Answering(v) # {}
  <2> DEFINE d == CHOOSE c \in Answering(v) : TRUE
  <2>1. d \in Answering(v)
    BY <1>2
  <2>2. TurnOf(v) = call[d].prompt
    BY <1>2 DEF TurnOf
  <2>3. TurnOf(v)' = call'[d].prompt
    BY <1>1, <1>2 DEF TurnOf
  <2> HIDE DEF d
  <2>4. d \in Calls /\ Open(d) /\ call[d].conv = v
    BY <2>1 DEF Answering
  <2>5. QED
    BY <2>2, <2>3, <2>4
<1>3. CASE ~(Live(v) /\ Answering(v) # {})
  BY <1>1, <1>3 DEF TurnOf
<1>4. QED
  BY <1>2, <1>3

LEMMA SameHistory ==
    ASSUME NEW v \in Convs, pool'[v].snap = pool[v].snap
    PROVE  HistoryOf(v)' = HistoryOf(v)
BY DEF HistoryOf

\* Nothing a caller could see has changed.
LEMMA SameIsStutter ==
    ASSUME \A v \in Convs : /\ pool'[v].snap = pool[v].snap
                            /\ TurnOf(v)' = TurnOf(v)
    PROVE  UNCHANGED Isolated!isoVars
<1>1. \A v \in Convs : HistoryOf(v)' = HistoryOf(v) /\ TurnOf(v)' = TurnOf(v)
  BY SameHistory
<1>2. Histories' = Histories /\ Turns' = Turns
  BY <1>1 DEF Histories, Turns
<1>3. QED
  BY <1>2 DEF Isolated!isoVars, Histories, Turns

LEMMA PromptIsTurn ==
    ASSUME MarkerAssumption, NEW p \in Prompts
    PROVE  p # None
<1>1. p \in Seq(Tokens)
  OBVIOUS
<1>2. p \in Seq(Tokens \cup {-1})
  BY <1>1
<1>3. QED
  BY <1>2 DEF MarkerAssumption

LEMMA SnapshotTyped ==
    ASSUME TypeInv, NEW c \in Calls, Open(c)
    PROVE  Snapshot(c) \in SnapshotType
<1>1. call[c] \in CallType /\ call[c].prompt \in Prompts
  BY DEF TypeInv, TypeOK, Begun
<1>2. call[c].past \in Nat /\ call[c].prompt \in Seq(Tokens) /\ call[c].gen \in Seq(Tokens)
  BY <1>1, PromptsType DEF CallType
<1>3. /\ Serialized(call[c].past) \in Seq(Slot)
      /\ FullIds(c, call[c].past) \in Seq(Tokens \cup {-1})
  BY <1>2, SerializedType, FullIdsType DEF TypeInv, TypeOK
<1>4. QED
  BY <1>3 DEF Snapshot, SnapshotType

\* The content of a snapshot is a history.
LEMMA ContentIsHistory ==
    ASSUME MarkerAssumption, NEW kv \in Seq(Slot)
    PROVE  Content(kv) # None
<1>1. Len(kv) \in Nat /\ DOMAIN kv = 1 .. Len(kv) /\ \A k \in 1 .. Len(kv) : kv[k] \in Slot
  OBVIOUS
<1>2. ASSUME NEW k \in 1 .. Len(kv) PROVE kv[k][1] \in Tokens \cup {-1}
  BY <1>1 DEF Slot, Junk
<1>3. Content(kv) \in [1 .. Len(kv) -> Tokens \cup {-1}]
  BY <1>1, <1>2 DEF Content
<1>4. Content(kv) \in Seq(Tokens \cup {-1})
  BY <1>1, <1>3
<1>5. QED
  BY <1>4 DEF MarkerAssumption

\* A text cut off within its reply is one of the histories a turn may keep.
LEMMA KeptText ==
    ASSUME NEW prompt \in Seq(Tokens), NEW gen \in Seq(Tokens), NEW n \in Nat,
           n <= Len(prompt) + Len(gen), n >= Len(prompt) - 1, Len(prompt) >= 1,
           n - Len(prompt) <= MaxTokens,
           NEW text, text = [k \in 1 .. n |-> (prompt \o gen)[k]]
    PROVE  text \in Isolated!Kept(prompt)
<1>0. Len(prompt) \in Nat /\ Len(gen) \in Nat /\ MaxTokens \in Nat
  OBVIOUS
<1>1. CASE n = Len(prompt) - 1
  <2>1. SubSeq(prompt, 1, n) = [k \in 1 .. n |-> prompt[k]]
    BY <1>0, <1>1
  <2>2. text = SubSeq(prompt, 1, n)
    BY <1>0, <1>1, <2>1
  <2>3. QED
    BY <1>1, <2>2 DEF Isolated!Kept
<1>2. CASE n # Len(prompt) - 1
  <2> DEFINE m == n - Len(prompt)
             reply == [j \in 1 .. m |-> gen[j]]
  <2>1. m \in Nat /\ m \in 0 .. MaxTokens /\ m <= Len(gen) /\ n = Len(prompt) + m
    BY <1>0, <1>2
  <2> HIDE DEF m
  <2>2. \A j \in 1 .. m : gen[j] \in Tokens
    BY <1>0, <2>1
  <2>3. reply \in [1 .. m -> Tokens] /\ reply \in Seq(Tokens) /\ Len(reply) = m
        /\ \A j \in 1 .. m : reply[j] = gen[j]
    BY <2>1, <2>2
  <2>4. reply \in Isolated!Replies
    BY <2>1, <2>3 DEF Isolated!Replies
  <2> HIDE DEF reply
  <2>5. prompt \o reply = text
    <3>0. reply \in Seq(Tokens) /\ Len(reply) = m
      BY <2>3
    <3> DEFINE whole == prompt \o reply
    <3>1. whole \in Seq(Tokens) /\ Len(whole) = Len(prompt) + m
      BY <3>0, OwnBegins
    <3>2. whole = [k \in 1 .. n |-> whole[k]]
      <4> HIDE DEF whole
      <4>1. whole = [k \in 1 .. Len(whole) |-> whole[k]]
        BY <3>1
      <4>2. QED
        BY <2>1, <3>1, <4>1
    <3>3. ASSUME NEW k \in 1 .. n PROVE (prompt \o reply)[k] = (prompt \o gen)[k]
      <4>1. CASE k <= Len(prompt)
        <5>1. k \in 1 .. Len(prompt)
          BY <1>0, <4>1
        <5>2. QED
          BY <2>3, <5>1, OwnBegins
      <4>2. CASE ~(k <= Len(prompt))
        <5>1. PICK j : j = k - Len(prompt) /\ j \in 1 .. m /\ k = Len(prompt) + j
                       /\ j \in 1 .. Len(gen) /\ j \in 1 .. Len(reply)
          BY <1>0, <2>1, <2>3, <4>2
        <5>2. (prompt \o reply)[Len(prompt) + j] = reply[j]
          BY <2>3, <5>1, OwnBegins
        <5>3. (prompt \o gen)[Len(prompt) + j] = gen[j]
          BY <5>1, OwnBegins
        <5>4. QED
          BY <2>3, <5>1, <5>2, <5>3
      <4>3. QED
        BY <4>1, <4>2
    <3>4. QED
      BY <3>2, <3>3
  <2>6. QED
    BY <2>4, <2>5 DEF Isolated!Kept
<1>3. QED
  BY <1>1, <1>2

\* Joining is asking.
LEMMA BeginIsAsk ==
    ASSUME TypeInv, HeldInv, NEW c \in Calls, NEW v \in Convs, NEW p \in Prompts,
           ChatBegin(c, v, p)
    PROVE  Isolated!Ask(v)
<1>1. /\ Live(v) /\ ~pool[v].locked /\ ~Open(c)
      /\ call'[c].conv = v /\ call'[c].prompt = p /\ Open(c)'
      /\ \A d \in Calls : d # c => call'[d] = call[d] /\ (Open(d)' <=> Open(d))
  BY DEF ChatBegin, Invocation, TypeInv, TypeOK, Open
<1>2. \A w \in Convs : pool'[w].snap = pool[w].snap /\ (Live(w)' <=> Live(w))
  BY DEF ChatBegin, TypeInv, TypeOK, PoolType, Live
<1>3. \A d \in Calls : Open(d) => call[d].conv # v
  BY <1>1 DEF HeldInv
<1>4. TurnOf(v) = None
  BY <1>3, TurnIs
<1>5. TurnOf(v)' = p
  <2>1. Answering(v)' = {c} /\ Live(v)'
    BY <1>1, <1>2, <1>3 DEF Answering
  <2>2. TurnOf(v)' = call'[CHOOSE d \in Answering(v)' : TRUE].prompt
    BY <2>1 DEF TurnOf
  <2>3. (CHOOSE d \in Answering(v)' : TRUE) = c
    BY <2>1
  <2>4. QED
    BY <1>1, <2>2, <2>3
<1>6. \A w \in Convs : w # v => TurnOf(w)' = TurnOf(w)
  <2> SUFFICES ASSUME NEW w \in Convs, w # v PROVE TurnOf(w)' = TurnOf(w)
    OBVIOUS
  <2>1. \A d \in Calls :
            /\ (Open(d)' /\ call'[d].conv = w) <=> (Open(d) /\ call[d].conv = w)
            /\ Open(d) /\ call[d].conv = w => call'[d].prompt = call[d].prompt
    BY <1>1
  <2>2. QED
    BY <1>2, <2>1, SameTurn
<1>7. Turns[v] = None /\ Turns' = [Turns EXCEPT ![v] = p]
  BY <1>4, <1>5, <1>6 DEF Turns
<1>8. Histories' = Histories
  BY <1>2, SameHistory DEF Histories
<1>9. QED
  BY <1>7, <1>8 DEF Isolated!Ask, Histories, Turns

\* The steps between joining and ending are not seen.
LEMMA InnerIsStutter ==
    ASSUME TypeInv, NEW c \in Calls,
           \/ ChatEnter(c) \/ PrefillDone(c) \/ FirstDone(c) \/ DecodeDone(c)
           \/ Resume(c) \/ SaveBegin(c)
    PROVE  UNCHANGED Isolated!isoVars
<1>1. call[c] \in CallType /\ call \in [Calls -> CallType]
  BY DEF TypeInv, TypeOK
<1>2. /\ Open(c) /\ Open(c)' /\ call'[c].conv = call[c].conv
      /\ call'[c].prompt = call[c].prompt /\ UNCHANGED pool
      /\ \A d \in Calls : d # c => call'[d] = call[d]
  <2>1. CASE ChatEnter(c)
    <3>1. PICK phase \in {"prefill", "first", "finished"} : \E past, pos :
              call' = [call EXCEPT ![c].phase = phase, ![c].past = past, ![c].pos = pos]
      BY <2>1 DEF ChatEnter, Generating
    <3>2. PICK past, pos :
              call' = [call EXCEPT ![c].phase = phase, ![c].past = past, ![c].pos = pos]
      BY <3>1
    <3>3. Open(c) /\ UNCHANGED pool
      BY <2>1 DEF ChatEnter, Open, Waiting
    <3>4. QED
      BY <1>1, <3>2, <3>3 DEF Open, CallType
  <2>2. CASE PrefillDone(c)
    <3>1. PICK phase \in {"first", "finished"} : \E past :
              call' = [call EXCEPT ![c].phase = phase, ![c].past = past]
      BY <2>2 DEF PrefillDone, Generating
    <3>2. PICK past : call' = [call EXCEPT ![c].phase = phase, ![c].past = past]
      BY <3>1
    <3>3. Open(c) /\ UNCHANGED pool
      BY <2>2 DEF PrefillDone, Open
    <3>4. QED
      BY <1>1, <3>2, <3>3 DEF Open, CallType
  <2>3. CASE FirstDone(c)
    BY <1>1, <2>3 DEF FirstDone, Sampled, Open, CallType
  <2>4. CASE DecodeDone(c)
    BY <1>1, <2>4 DEF DecodeDone, Sampled, Open, CallType
  <2>5. CASE Resume(c)
    BY <1>1, <2>5 DEF Resume, Steps, Open, CallType
  <2>6. CASE SaveBegin(c)
    BY <1>1, <2>6 DEF SaveBegin, Open, CallType
  <2>7. QED
    BY <2>1, <2>2, <2>3, <2>4, <2>5, <2>6
<1>3. \A v \in Convs : pool'[v].snap = pool[v].snap /\ TurnOf(v)' = TurnOf(v)
  <2> SUFFICES ASSUME NEW v \in Convs PROVE TurnOf(v)' = TurnOf(v)
    BY <1>2
  <2>1. \A d \in Calls :
            /\ (Open(d)' /\ call'[d].conv = v) <=> (Open(d) /\ call[d].conv = v)
            /\ Open(d) /\ call[d].conv = v => call'[d].prompt = call[d].prompt
    BY <1>2 DEF Open
  <2>2. Live(v)' <=> Live(v)
    BY <1>2 DEF Live
  <2>3. QED
    BY <2>1, <2>2, SameTurn
<1>4. QED
  BY <1>3, SameIsStutter

\* A call that ends frees its conversation and no other.
LEMMA EndTurns ==
    ASSUME TypeInv, HeldInv, NEW c \in Calls, Open(c), NEW v, v = call[c].conv,
           call' = [call EXCEPT ![c] = Over],
           \A w \in Convs : Live(w)' <=> Live(w)
    PROVE  /\ TurnOf(v)' = None
           /\ \A w \in Convs : w # v => TurnOf(w)' = TurnOf(w)
<1>1. /\ ~Open(c)' /\ v \in Convs
      /\ \A d \in Calls : d # c => call'[d] = call[d] /\ (Open(d)' <=> Open(d))
  BY DEF Over, Invocation, Open, TypeInv, TypeOK, Begun
<1>2. \A d \in Calls : Open(d) /\ call[d].conv = v => d = c
  BY DEF HeldInv
<1>3. Answering(v)' = {}
  BY <1>1, <1>2 DEF Answering
<1>4. TurnOf(v)' = None
  BY <1>3 DEF TurnOf
<1>5. ASSUME NEW w \in Convs, w # v PROVE TurnOf(w)' = TurnOf(w)
  <2>1. \A d \in Calls :
            /\ (Open(d)' /\ call'[d].conv = w) <=> (Open(d) /\ call[d].conv = w)
            /\ Open(d) /\ call[d].conv = w => call'[d].prompt = call[d].prompt
    BY <1>1, <1>5
  <2>2. QED
    BY <2>1, SameTurn
<1>6. QED
  BY <1>4, <1>5

\* A turn that is saved is answered: the history becomes the call's own text.
LEMMA SaveIsAnswer ==
    ASSUME MarkerAssumption, KvRoom, TypeInv, HeldInv, ContextInv, NEW c \in Calls, SaveDone(c),
           NEW v, v = call[c].conv
    PROVE  Isolated!Answer(v)
<1> DEFINE prompt == call[c].prompt
           gen    == call[c].gen
           past   == call[c].past
           text   == Content(Snapshot(c).kv)
<1>1. /\ Open(c) /\ Inside(c) /\ Live(v) /\ model = "loaded" /\ call[c].phase = "saving"
      /\ call' = [call EXCEPT ![c] = Over]
  BY SaveNeedsModel DEF SaveDone, Finally, Open, Inside, Waiting
<1>2. v \in Convs /\ prompt \in Prompts /\ pool \in [Convs -> PoolType]
  BY <1>1 DEF TypeInv, TypeOK, Begun
<1>3. /\ pool'[v].snap = Snapshot(c)
      /\ \A w \in Convs : w # v => pool'[w].snap = pool[w].snap
      /\ \A w \in Convs : Live(w)' <=> Live(w)
  BY <1>2 DEF SaveDone, Finally, PoolType, Live
<1>4. TurnOf(v) = prompt /\ prompt # None
  BY <1>1, <1>2, TurnIs, PromptIsTurn
<1>5. TurnOf(v)' = None /\ \A w \in Convs : w # v => TurnOf(w)' = TurnOf(w)
  BY <1>1, <1>3, EndTurns
<1>6. HistoryOf(v)' = text
  <2>1. Snapshot(c) # None
    BY <1>1, SnapshotTyped DEF MarkerAssumption
  <2>2. QED
    BY <1>2, <1>3, <2>1 DEF HistoryOf, Content
<1>7. \A w \in Convs : w # v => HistoryOf(w)' = HistoryOf(w)
  BY <1>3, SameHistory
<1>8. text \in Isolated!Kept(prompt)
  <2>1. /\ prompt \in Seq(Tokens) /\ gen \in Seq(Tokens)
        /\ Len(prompt) \in Nat /\ Len(prompt) >= 1 /\ Len(gen) \in Nat /\ past \in Nat
    BY <1>1, InsideTypes
  <2>2. AtEnd(c, past)
    BY <1>1 DEF ContextInv, Placed
  <2>3. /\ past <= Len(prompt) + Len(gen) /\ past >= Len(prompt) - 1
        /\ past - Len(prompt) <= MaxTokens
    <3>1. /\ past = Len(prompt) + Len(gen) - 1 \/ past = Len(prompt) + Len(gen)
          /\ Len(gen) <= MaxTokens
      BY <2>2 DEF AtEnd
    <3>2. MaxTokens \in Nat
      OBVIOUS
    <3> HIDE DEF past, prompt, gen
    <3>3. QED
      BY <2>1, <3>1, <3>2
  <2>4. text = [k \in 1 .. past |-> (prompt \o gen)[k]]
    <3>1. DOMAIN Snapshot(c).kv = 1 .. past
      BY <1>1, SnapshotIsOwn
    <3>2. \A k \in 1 .. past : Snapshot(c).kv[k] = <<Own(c)[k], k - 1>>
      BY <1>1, SnapshotIsOwn
    <3> DEFINE kv == Snapshot(c).kv
    <3>3. Own(c) = prompt \o gen
      BY DEF Own
    <3> HIDE DEF prompt, gen, past, kv
    <3>4. \A k \in 1 .. past : kv[k] = <<(prompt \o gen)[k], k - 1>>
      BY <3>2, <3>3 DEF kv
    <3>5. ASSUME NEW k \in 1 .. past
          PROVE  kv[k][1] = (prompt \o gen)[k]
      <4> DEFINE x == (prompt \o gen)[k]
                 y == k - 1
      <4>1. kv[k] = <<x, y>>
        BY <3>4
      <4> HIDE DEF x, y
      <4>2. kv[k][1] = x
        BY <4>1
      <4>3. QED
        BY <4>2 DEF x
    <3>6. DOMAIN kv = 1 .. past
      BY <3>1 DEF kv
    <3>7. Content(kv) = [k \in 1 .. past |-> (prompt \o gen)[k]]
      BY <3>5, <3>6 DEF Content
    <3>8. QED
      BY <3>7 DEF kv
  <2> HIDE DEF prompt, gen, past, text
  <2>5. QED
    BY <2>1, <2>3, <2>4, KeptText
<1>9. /\ Turns[v] # None /\ Turns[v] = prompt
      /\ Turns' = [Turns EXCEPT ![v] = None]
      /\ Histories' = [Histories EXCEPT ![v] = text]
  <2> HIDE DEF text, prompt
  <2>1. QED
    BY <1>2, <1>4, <1>5, <1>6, <1>7 DEF Turns, Histories
<1> HIDE DEF text, prompt
<1>10. QED
  BY <1>8, <1>9 DEF Isolated!Answer, Histories, Turns

\* Any other end gives the turn up, unless the conversation has already gone.
LEMMA LeaveIsGiveUp ==
    ASSUME MarkerAssumption, TypeInv, HeldInv, NEW c \in Calls, Leave(c),
           NEW v, v = call[c].conv
    PROVE  Isolated!GiveUp(v) \/ UNCHANGED Isolated!isoVars
<1>1. Open(c) /\ call' = [call EXCEPT ![c] = Over]
  BY DEF Leave, Finally, Inside, Open, Waiting
<1>2. v \in Convs /\ call[c].prompt \in Prompts /\ pool \in [Convs -> PoolType]
  BY <1>1 DEF TypeInv, TypeOK, Begun
<1>3. \A w \in Convs : pool'[w].snap = pool[w].snap /\ (Live(w)' <=> Live(w))
  BY <1>2 DEF Leave, Finally, PoolType, Live
<1>4. TurnOf(v)' = None /\ \A w \in Convs : w # v => TurnOf(w)' = TurnOf(w)
  BY <1>1, <1>3, EndTurns
<1>5. CASE Live(v)
  <2>1. TurnOf(v) # None
    BY <1>1, <1>2, <1>5, TurnIs, PromptIsTurn
  <2>2. Turns[v] # None /\ Turns' = [Turns EXCEPT ![v] = None]
    BY <1>2, <1>4, <2>1 DEF Turns
  <2>3. Histories' = Histories
    BY <1>3, SameHistory DEF Histories
  <2>4. QED
    BY <2>2, <2>3 DEF Isolated!GiveUp, Histories, Turns
<1>6. CASE ~Live(v)
  <2>1. TurnOf(v) = None
    BY <1>2, <1>6, TurnIs
  <2>2. QED
    BY <1>2, <1>3, <1>4, <2>1, SameIsStutter
<1>7. QED
  BY <1>5, <1>6

\* Conversations are created unseen, copied by forks and forgotten when they go.
LEMMA PoolStepIsolated ==
    ASSUME MarkerAssumption, TypeInv, HeldInv,
           \/ \E v \in Convs : CreateConversation(v) \/ DisposeConversation(v)
           \/ \E src, v \in Convs : ForkConversation(src, v)
           \/ UnloadModel \/ UnloadModelDone
    PROVE  Isolated!IsoNext \/ UNCHANGED Isolated!isoVars
<1>0. pool \in [Convs -> PoolType] /\ UNCHANGED call
  BY DEF TypeInv, TypeOK, CreateConversation, DisposeConversation, ForkConversation,
         UnloadModel, UnloadModelDone
<1>1. ASSUME NEW v \in Convs, Live(v)' <=> Live(v) PROVE TurnOf(v)' = TurnOf(v)
  BY <1>0, <1>1, SameTurn DEF Open
<1>2. ASSUME NEW v \in Convs, pool[v].status = "fresh"
      PROVE  TurnOf(v) = None /\ TurnOf(v)' = None
  <2>1. \A c \in Calls : Open(c) => call[c].conv # v
    BY <1>2 DEF HeldInv
  <2>2. TurnOf(v) = None
    BY <2>1, TurnIs
  <2>3. Answering(v)' = {}
    BY <1>0, <2>1 DEF Answering, Open
  <2>4. QED
    BY <2>2, <2>3 DEF TurnOf
<1>3. ASSUME NEW gone \in SUBSET Convs,
             \A v \in gone : pool'[v] = Gone,
             \A v \in Convs \ gone : pool'[v] = pool[v]
      PROVE  Isolated!Forget(gone)
  <2>1. \A v \in gone : HistoryOf(v)' = None /\ TurnOf(v)' = None
    BY <1>3 DEF HistoryOf, TurnOf, Live, Gone
  <2>2. \A v \in Convs \ gone : HistoryOf(v)' = HistoryOf(v) /\ TurnOf(v)' = TurnOf(v)
    <3> SUFFICES ASSUME NEW v \in Convs \ gone
                 PROVE  HistoryOf(v)' = HistoryOf(v) /\ TurnOf(v)' = TurnOf(v)
      OBVIOUS
    <3>1. pool'[v] = pool[v]
      BY <1>3
    <3>2. QED
      BY <1>1, <3>1, SameHistory DEF Live
  <2>3. /\ Histories' = [v \in Convs |-> IF v \in gone THEN None ELSE Histories[v]]
        /\ Turns' = [v \in Convs |-> IF v \in gone THEN None ELSE Turns[v]]
    BY <2>1, <2>2 DEF Histories, Turns
  <2>4. QED
    BY <2>3 DEF Isolated!Forget, Histories, Turns
<1>4. ASSUME NEW v \in Convs, CreateConversation(v) PROVE UNCHANGED Isolated!isoVars
  <2>1. pool[v].status = "fresh"
    BY <1>4 DEF CreateConversation
  <2>2. \A w \in Convs : pool'[w].snap = pool[w].snap /\ (w # v => (Live(w)' <=> Live(w)))
    BY <1>0, <1>4 DEF CreateConversation, PoolType, Live
  <2>3. QED
    BY <1>1, <1>2, <2>1, <2>2, SameIsStutter
<1>5. ASSUME NEW v \in Convs, DisposeConversation(v) PROVE Isolated!Forget({v})
  BY <1>0, <1>3, <1>5 DEF DisposeConversation
<1>6. ASSUME NEW src \in Convs, NEW v \in Convs, ForkConversation(src, v)
      PROVE  Isolated!Copy(src, v)
  <2>1. pool[v].status = "fresh" /\ pool[src].snap # None /\ Live(src) /\ ~Live(v)
    BY <1>6 DEF ForkConversation, Live
  <2>2. /\ pool'[v].snap = pool[src].snap
        /\ \A w \in Convs : w # v => pool'[w].snap = pool[w].snap /\ (Live(w)' <=> Live(w))
    BY <1>0, <1>6 DEF ForkConversation, PoolType, Live
  <2>3. HistoryOf(v) = None
    BY <2>1 DEF HeldInv, HistoryOf
  <2>4. HistoryOf(src) # None
    <3>1. pool[src].snap.kv \in Seq(Slot)
      BY <1>0, <2>1 DEF PoolType, SnapshotType
    <3>2. QED
      BY <2>1, <3>1, ContentIsHistory DEF HistoryOf
  <2>5. HistoryOf(v)' = HistoryOf(src)
    BY <2>2 DEF HistoryOf, Content
  <2>6. \A w \in Convs : w # v => HistoryOf(w)' = HistoryOf(w)
    BY <2>2, SameHistory
  <2>7. \A w \in Convs : TurnOf(w)' = TurnOf(w)
    BY <1>1, <1>2, <2>1, <2>2
  <2>8. /\ Histories' = [Histories EXCEPT ![v] = Histories[src]] /\ Turns' = Turns
        /\ Histories[src] # None /\ Histories[v] = None /\ Turns[v] = None
    BY <1>2, <2>1, <2>3, <2>4, <2>5, <2>6, <2>7 DEF Histories, Turns
  <2>9. QED
    BY <2>8 DEF Isolated!Copy, Histories, Turns
<1>7. ASSUME UnloadModel PROVE \E gone \in SUBSET Convs : Isolated!Forget(gone)
  <2> DEFINE gone == {v \in Convs : Live(v)}
  <2>1. /\ gone \in SUBSET Convs
        /\ \A v \in gone : pool'[v] = Gone
        /\ \A v \in Convs \ gone : pool'[v] = pool[v]
    BY <1>0, <1>7 DEF UnloadModel
  <2> HIDE DEF gone
  <2>2. QED
    BY <1>3, <2>1
<1>8. ASSUME UnloadModelDone PROVE UNCHANGED Isolated!isoVars
  BY <1>1, <1>8, SameIsStutter DEF UnloadModelDone, Live
<1>9. QED
  BY <1>4, <1>5, <1>6, <1>7, <1>8 DEF Isolated!IsoNext

LEMMA IsolatedStep ==
    ASSUME MarkerAssumption, KvRoom
    PROVE  TypeInv /\ HeldInv /\ ContextInv /\ [Next]_vars
               => [Isolated!IsoNext]_Isolated!isoVars
<1> SUFFICES ASSUME TypeInv, HeldInv, ContextInv, [Next]_vars
             PROVE  Isolated!IsoNext \/ UNCHANGED Isolated!isoVars
  OBVIOUS
<1>1. ASSUME \/ \E v \in Convs : CreateConversation(v) \/ DisposeConversation(v)
             \/ \E src, v \in Convs : ForkConversation(src, v)
             \/ UnloadModel \/ UnloadModelDone
      PROVE  Isolated!IsoNext \/ UNCHANGED Isolated!isoVars
  BY <1>1, PoolStepIsolated
<1>2. ASSUME NEW c \in Calls, NEW v \in Convs, NEW p \in Prompts, ChatBegin(c, v, p)
      PROVE  Isolated!IsoNext
  BY <1>2, BeginIsAsk DEF Isolated!IsoNext
<1>3. ASSUME NEW c \in Calls,
             \/ ChatEnter(c) \/ PrefillDone(c) \/ FirstDone(c) \/ DecodeDone(c)
             \/ Resume(c) \/ SaveBegin(c)
      PROVE  UNCHANGED Isolated!isoVars
  BY <1>3, InnerIsStutter
<1>4. ASSUME NEW c \in Calls, SaveDone(c) \/ Leave(c)
      PROVE  Isolated!IsoNext \/ UNCHANGED Isolated!isoVars
  <2>1. call[c].conv \in Convs
    BY <1>4 DEF SaveDone, Leave, Inside, Open, Waiting, TypeInv, Begun
  <2>2. QED
    BY <1>4, <2>1, SaveIsAnswer, LeaveIsGiveUp DEF Isolated!IsoNext
<1>5. CASE UNCHANGED vars
  <2>1. \A v \in Convs : pool'[v].snap = pool[v].snap /\ TurnOf(v)' = TurnOf(v)
    BY <1>5, SameTurn DEF vars, Open, Live
  <2>2. QED
    BY <2>1, SameIsStutter
<1>6. QED
  BY <1>1, <1>2, <1>3, <1>4, <1>5 DEF Next, CallStep

\* Conversations on one model are isolated: with room in the buffers for every
\* admitted prompt and its reply, every behaviour is one of histories of their
\* own, in which a turn reads and keeps nothing but its prompt and reply.
THEOREM ImplementsIsolationHolds == KvRoom => (Spec => ImplementsIsolation)
<1> SUFFICES ASSUME KvRoom PROVE Spec => ImplementsIsolation
  OBVIOUS
<1>1. Init => Isolated!IsoInit
  <2> SUFFICES ASSUME Init PROVE Isolated!IsoInit
    OBVIOUS
  <2>1. \A v \in Convs : HistoryOf(v) = None /\ TurnOf(v) = None
    BY DEF Init, HistoryOf, TurnOf, Live, NoEntry
  <2>2. QED
    BY <2>1 DEF Isolated!IsoInit
<1>2. Inv /\ HeldInv /\ ContextInv /\ [Next]_vars => [Isolated!IsoNext]_Isolated!isoVars
  BY IsolatedStep, MarkerAssumption DEF Inv
<1>3. QED
  BY <1>1, <1>2, InvHolds, ContextInvHolds, PTL DEF Spec, ImplementsIsolation, Isolated!Spec
=============================================================================
