--------------------------- MODULE ConversationChat ---------------------------
(***************************************************************************)
(* chatCompletion(conv, messages, config) on one model                     *)
(* (engine.ts, chatCompletionWithConversation, with the KV primitives of   *)
(* inference/model-inference.ts and the loop of inference/generation.ts).  *)
(* Calls on several conversations share the model's working KV cache; the  *)
(* per-conversation lock admits one call per conversation and a chain of   *)
(* promises, one per call, lets one call at a time use the cache.  A call  *)
(* is cut wherever its generator awaits or yields, and other calls, new    *)
(* conversations, forks, disposals and an unload of the model may take     *)
(* place there.                                                            *)
(*                                                                         *)
(* A member of Calls is one invocation and stands for its promise in the   *)
(* chain.  The calls that bypass the chain (the model-id path) are the     *)
(* subject of ModelSession.                                                *)
(***************************************************************************)
EXTENDS Integers, Sequences, FiniteSets

CONSTANTS
    Convs,      \* conversation ids, each created at most once
    Calls,      \* invocations of chatCompletion
    None,       \* no call, no snapshot
    Tokens,     \* token ids
    Eos,        \* the end-of-sequence token
    Prompts,    \* canonical prompts a caller may pass, already tokenised
    MaxTokens,  \* config.maxTokens of every call
    MaxCtx,     \* options.maxContextTokens, or the model's context length
    KvSize      \* slots of the KV buffers

ASSUME ChatAssumption ==
    /\ None \notin Calls
    /\ Eos \in Tokens
    /\ Prompts \subseteq Seq(Tokens) \ {<<>>}
    /\ MaxTokens \in Nat \ {0}
    /\ MaxCtx \in Nat
    /\ KvSize \in Nat

VARIABLES
    pool,      \* per conversation: status, lock and snapshot
    model,     \* "loaded", "unloading" (inference disposed) or "gone"
    chain,     \* ModelRecord.chatChain: the call whose promise is the tail
    call,      \* the state of each invocation
    slots,     \* the working KV cache: what was written to each slot
    nCached,   \* its logical length
    ticket,    \* history: the place of each call in the order of joining
    joined     \* history: how many calls have joined the chain

vars == <<pool, model, chain, call, slots, nCached, ticket, joined>>

Junk   == <<-1, -1>>                 \* a slot with nothing of use in it
Slot   == (Tokens \X Nat) \cup {Junk}  \* a token and the position it was given
SlotNo == 0 .. (KvSize - 1)

Range0(n) == 0 .. (n - 1)

Invocation(phase, v, prompt, prior) ==
    [phase |-> phase, conv |-> v, prompt |-> prompt, prior |-> prior,
     past |-> 0, pos |-> 0, gen |-> <<>>]

NotStarted == Invocation("idle", None, <<>>, None)
Over       == Invocation("ended", None, <<>>, None)
NoEntry    == [status |-> "fresh", locked |-> FALSE, snap |-> None]

Init ==
    /\ pool = [v \in Convs |-> NoEntry]
    /\ model = "loaded"
    /\ chain = None
    /\ call = [c \in Calls |-> NotStarted]
    /\ slots = [i \in SlotNo |-> Junk]
    /\ nCached = 0
    /\ ticket = [c \in Calls |-> 0]
    /\ joined = 0

-----------------------------------------------------------------------------
(* The phases of an invocation.                                            *)

Open(c)    == call[c].phase \notin {"idle", "ended"}
Waiting(c) == call[c].phase = "waiting"
\* Past the chain: the call may touch the working KV cache.
Inside(c)  == Open(c) /\ ~Waiting(c)

Live(v) == pool[v].status = "live"

\* Mutant: "if (prior) await prior" is missing.
ChainFreeUnawaited(c) == TRUE

\* The promise a waiting call awaits has been resolved, or there was none.
ChainFree(c) == call[c].prior # None => call[call[c].prior].phase = "ended"

Steps(c, phase) == call' = [call EXCEPT ![c].phase = phase]

-----------------------------------------------------------------------------
(* The KV primitives of ModelInference.                                    *)

\* forward: tokens written from slot at on, with consecutive positions.  Nothing
\* checks the size of the buffers: what does not fit in the rows of one head
\* lands in the first slots of the next.
Written(mem, at, tokens, pos) ==
    LET end == at + Len(tokens)
    IN  [i \in SlotNo |-> IF i \in at .. (end - 1) THEN <<tokens[i - at + 1], pos + (i - at)>>
                          ELSE IF i + KvSize < end THEN Junk
                          ELSE mem[i]]

\* loadKVCache fills the leading slots; it leaves no meaning to the others.
Loaded(kv, n) == [i \in SlotNo |-> IF i < n THEN kv[i + 1] ELSE Junk]

\* serializeKVCache(n)
Serialized(n) == [k \in 1 .. n |-> IF k <= KvSize THEN slots[k - 1] ELSE Junk]

\* Mutant: only lengths are compared.
SharedLenUnread(ids, prompt) == IF Len(ids) < Len(prompt) THEN Len(ids) ELSE Len(prompt)

\* Length of the longest prefix a snapshot shares with a prompt.
SharedLen(ids, prompt) ==
    Cardinality({n \in 1 .. Len(prompt) :
                     n <= Len(ids) /\ \A k \in 1 .. n : ids[k] = prompt[k]})

SharedWith(v, prompt) ==
    IF pool[v].snap = None THEN 0 ELSE SharedLen(pool[v].snap.ids, prompt)

\* Mutant: the last prompt token is taken for the first generated one.
FullIdsShifted(c, n) ==
    LET known == SubSeq(call[c].prompt, 1, Len(call[c].prompt) - 1) \o call[c].gen
    IN  [k \in 1 .. n |-> IF k <= Len(known) THEN known[k] ELSE -1]

\* The token ids stored with a snapshot of n slots, padded with -1.
FullIds(c, n) ==
    LET known == call[c].prompt \o call[c].gen
    IN  [k \in 1 .. n |-> IF k <= Len(known) THEN known[k] ELSE -1]

\* Mutant: the session is not advanced.
SeedPositionZero(prompt) == 0

\* The position the session is advanced to before generation.
SeedPosition(prompt) == Len(prompt) - 1

-----------------------------------------------------------------------------
(* Conversations come and go independently of the calls.                   *)

CreateConversation(v) ==
    /\ pool[v].status = "fresh" /\ model # "gone"
    /\ pool' = [pool EXCEPT ![v].status = "live"]
    /\ UNCHANGED <<model, chain, call, slots, nCached, ticket, joined>>

ForkConversation(src, v) ==
    /\ Live(src) /\ pool[src].snap # None
    /\ pool[v].status = "fresh"
    /\ pool' = [pool EXCEPT ![v].status = "live", ![v].snap = pool[src].snap]
    /\ UNCHANGED <<model, chain, call, slots, nCached, ticket, joined>>

\* The entry leaves the pool: disposeConversation at any time, LRU eviction
\* when no call is using it.
Gone == [status |-> "gone", locked |-> FALSE, snap |-> None]

DisposeConversation(v) ==
    /\ Live(v)
    /\ pool' = [pool EXCEPT ![v] = Gone]
    /\ UNCHANGED <<model, chain, call, slots, nCached, ticket, joined>>

\* unloadModel up to its first await: all conversations leave the pool and
\* inference.dispose frees the KV buffers.
UnloadModel ==
    /\ model = "loaded"
    /\ model' = "unloading"
    /\ pool' = [v \in Convs |-> IF Live(v) THEN Gone ELSE pool[v]]
    /\ slots' = [i \in SlotNo |-> Junk]
    /\ nCached' = 0
    /\ UNCHANGED <<chain, call, ticket, joined>>

\* models.delete drops the record and, with it, the tail of the chain.
UnloadModelDone ==
    /\ model = "unloading"
    /\ model' = "gone"
    /\ chain' = None
    /\ UNCHANGED <<pool, call, slots, nCached, ticket, joined>>

-----------------------------------------------------------------------------
(* One invocation.                                                         *)

\* Mutant: the call's own promise replaces the tail before the tail is read.
ChainTailOwn(c) == IF model = "gone" THEN chain ELSE c

\* The promise a new call c awaits: the tail before its own takes its place.
ChainTail(c) == chain

\* assertExists, tryAcquireLock, and the call's own promise becomes the tail.
ChatBegin(c, v, prompt) ==
    /\ call[c].phase = "idle"
    /\ Live(v) /\ ~pool[v].locked
    /\ pool' = [pool EXCEPT ![v].locked = TRUE]
    /\ call' = [call EXCEPT ![c] = Invocation("waiting", v, prompt, ChainTail(c))]
    /\ chain' = IF model = "gone" THEN chain ELSE c
    /\ joined' = joined + 1
    /\ ticket' = [ticket EXCEPT ![c] = joined + 1]
    /\ UNCHANGED <<model, slots, nCached>>

\* Where a call is once its prompt but for the last token is in the cache: the
\* generator forwards the last token, unless the signal is already aborted.
Generating == {"first", "finished"}

\* After the chain: overflow check, shared prefix, load or reset, then the
\* divergent middle is forwarded or a full match is truncated.
ChatEnter(c) ==
    LET v      == call[c].conv
        prompt == call[c].prompt
        last   == Len(prompt) - 1
        shared == SharedWith(v, prompt)
        cached == IF shared > last THEN last ELSE shared
    IN  /\ Waiting(c) /\ ChainFree(c)
        /\ model = "loaded" /\ Live(v)
        /\ Len(prompt) <= MaxCtx
        /\ slots' = IF shared > 0 THEN Loaded(pool[v].snap.kv, shared) ELSE slots
        /\ nCached' = cached
        /\ \E phase \in IF shared < last THEN {"prefill"} ELSE Generating :
               call' = [call EXCEPT ![c].phase = phase, ![c].past = cached,
                                    ![c].pos = SeedPosition(prompt)]
        /\ UNCHANGED <<pool, model, chain, ticket, joined>>

\* The forward of the middle of the prompt ends.
PrefillDone(c) ==
    LET mid == SubSeq(call[c].prompt, call[c].past + 1, Len(call[c].prompt) - 1)
        end == call[c].past + Len(mid)
    IN  /\ call[c].phase = "prefill" /\ model = "loaded"
        /\ slots' = Written(slots, call[c].past, mid, call[c].past)
        /\ nCached' = end
        /\ \E phase \in Generating :
               call' = [call EXCEPT ![c].phase = phase, ![c].past = end]
        /\ UNCHANGED <<pool, model, chain, ticket, joined>>

\* A forward of one token ends: the last prompt token or the last one sampled.
TokenForwarded(c, token) ==
    /\ slots' = Written(slots, call[c].past, <<token>>, call[c].pos)
    /\ nCached' = call[c].past + 1

\* Generation goes on with a token handed to the caller, or ends: abort, a
\* stop token, or a think-close token that ends the block at once.
Sampled(c, candidates) ==
    \/ call' = [call EXCEPT ![c].phase = "finished", ![c].pos = @ + 1]
    \/ \E t \in candidates :
           call' = [call EXCEPT ![c].phase = "yielded", ![c].pos = @ + 1,
                                ![c].gen = Append(@, t)]

\* The first token is yielded whatever it is.
FirstDone(c) ==
    /\ call[c].phase = "first"
    /\ TokenForwarded(c, call[c].prompt[Len(call[c].prompt)])
    /\ Sampled(c, Tokens)
    /\ UNCHANGED <<pool, model, chain, ticket, joined>>

DecodeDone(c) ==
    /\ call[c].phase = "decode"
    /\ TokenForwarded(c, call[c].gen[Len(call[c].gen)])
    /\ Sampled(c, Tokens \ {Eos})
    /\ UNCHANGED <<pool, model, chain, ticket, joined>>

\* session.shouldStop: the history holds the one prompt token handed to the
\* generator and the tokens yielded so far.
ShouldStop(c) ==
    LET gen == call[c].gen
    IN  gen[Len(gen)] = Eos \/ 1 + Len(gen) >= MaxTokens

\* The caller asks for more after a token.
Resume(c) ==
    /\ call[c].phase = "yielded"
    /\ \/ Steps(c, "finished")  \* shouldStop, or aborted
       \/ /\ ~ShouldStop(c) /\ model = "loaded"
          /\ call' = [call EXCEPT ![c].phase = "decode", ![c].past = nCached]
    /\ UNCHANGED <<pool, model, chain, slots, nCached, ticket, joined>>

\* The caller asks for more after the done chunk: the save phase begins.
SaveBegin(c) ==
    /\ call[c].phase = "finished" /\ model = "loaded"
    /\ call' = [call EXCEPT ![c].phase = "saving", ![c].past = nCached]
    /\ UNCHANGED <<pool, model, chain, slots, nCached, ticket, joined>>

\* Mutant: the tail is dropped without asking whose it is.
FinallyDropsTail(c, entries) ==
    /\ pool' = IF entries[call[c].conv].status = "live"
               THEN [entries EXCEPT ![call[c].conv].locked = FALSE] ELSE entries
    /\ call' = [call EXCEPT ![c] = Over]
    /\ chain' = None

\* The finally block: release the lock, resolve the promise, drop the tail of
\* the chain if it is still this call's.
Finally(c, entries) ==
    /\ pool' = IF entries[call[c].conv].status = "live"
               THEN [entries EXCEPT ![call[c].conv].locked = FALSE] ELSE entries
    /\ call' = [call EXCEPT ![c] = Over]
    /\ chain' = IF chain = c THEN None ELSE chain

Snapshot(c) == [ids |-> FullIds(c, call[c].past), kv |-> Serialized(call[c].past)]

SaveDone(c) ==
    /\ call[c].phase = "saving" /\ Live(call[c].conv)
    /\ Finally(c, [pool EXCEPT ![call[c].conv].snap = Snapshot(c)])
    /\ UNCHANGED <<model, slots, nCached, ticket, joined>>

\* Any other end: a step throws, the caller returns at a yield, skipSave.  A
\* call that awaits its turn in the chain cannot leave it.
Leave(c) ==
    /\ Inside(c) \/ (Waiting(c) /\ ChainFree(c))
    /\ Finally(c, pool)
    /\ UNCHANGED <<model, slots, nCached, ticket, joined>>

-----------------------------------------------------------------------------
CallStep(c) ==
    \/ ChatEnter(c) \/ PrefillDone(c) \/ FirstDone(c) \/ DecodeDone(c)
    \/ Resume(c) \/ SaveBegin(c) \/ SaveDone(c) \/ Leave(c)

Next ==
    \/ \E v \in Convs : CreateConversation(v) \/ DisposeConversation(v)
    \/ \E src, v \in Convs : ForkConversation(src, v)
    \/ UnloadModel \/ UnloadModelDone
    \/ \E c \in Calls : \/ \E v \in Convs, p \in Prompts : ChatBegin(c, v, p)
                        \/ CallStep(c)

Spec == Init /\ [][Next]_vars

\* Every await settles and callers drain their streams or return from them; the
\* worker host and for-await loops do.  Nothing is assumed of new calls.
FairSpec == Spec /\ \A c \in Calls : WF_vars(CallStep(c))

-----------------------------------------------------------------------------
SnapshotType == [ids: Seq(Tokens \cup {-1}), kv: Seq(Slot)]

PoolType == [status: {"fresh", "live", "gone"}, locked: BOOLEAN,
             snap: SnapshotType \cup {None}]

Phases == {"idle", "waiting", "prefill", "first", "yielded", "decode",
           "finished", "saving", "ended"}

CallType ==
    [phase: Phases, conv: Convs \cup {None}, prompt: Prompts \cup {<<>>},
     prior: Calls \cup {None}, past: Nat, pos: Nat, gen: Seq(Tokens)]

TypeOK ==
    /\ pool \in [Convs -> PoolType]
    /\ model \in {"loaded", "unloading", "gone"}
    /\ chain \in Calls \cup {None}
    /\ call \in [Calls -> CallType]
    /\ slots \in [SlotNo -> Slot]
    /\ nCached \in Nat
    /\ ticket \in [Calls -> Nat]
    /\ joined \in Nat

\* The chain serialises the calls of a model: at most one call at a time is past
\* it, whatever conversations come, go or fail and even while the model unloads.
OneInside == \A c, d \in Calls : Inside(c) /\ Inside(d) => c = d

\* Calls are served in the order in which they joined the chain.
FirstComeFirstServed ==
    \A c, d \in Calls : Inside(c) /\ Waiting(d) => ticket[c] < ticket[d]

\* A call's tokens: its prompt followed by what it has generated.
Own(c) == call[c].prompt \o call[c].gen

\* The buffers have room for every admitted prompt and its reply.
KvRoom == \A p \in Prompts : Len(p) <= MaxCtx => Len(p) + MaxTokens - 1 <= KvSize

\* Every forward conditions on the tokens of its own call and nothing else: the
\* slots it attends to hold the call's own tokens, each at the position equal to
\* its slot, and the token it adds continues them.
OwnContext ==
    KvRoom =>
        \A c \in Calls : call[c].phase \in {"prefill", "first", "decode"} /\ model = "loaded" =>
            /\ call[c].phase # "prefill" => call[c].pos = call[c].past
            /\ \A i \in Range0(call[c].past) : slots[i] = <<Own(c)[i + 1], i>>

\* A snapshot's token ids describe its KV bytes slot by slot, so the next turn's
\* shared prefix reuses nothing computed for other tokens; the -1 padding of
\* "shouldn't happen, but defensive" (engine.ts:1287-1288) never happens.
SnapshotFaithful ==
    KvRoom =>
        \A v \in Convs : pool[v].snap # None =>
            LET snap == pool[v].snap
            IN  /\ Len(snap.kv) = Len(snap.ids)
                /\ \A k \in DOMAIN snap.kv : snap.kv[k] = <<snap.ids[k], k - 1>>

\* The two together: whatever attends to or will reuse the cache finds its own tokens.
ContextsAreOwn == OwnContext /\ SnapshotFaithful

\* A call that starts comes to an end: no call waits for ever in the chain,
\* whatever happens to those before it.
CallsEnd == \A c \in Calls : Open(c) ~> call[c].phase = "ended"
=============================================================================
