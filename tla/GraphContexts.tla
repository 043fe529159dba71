---------------------------- MODULE GraphContexts ----------------------------
(***************************************************************************)
(* One wasm module and what its ggml bridge keeps for a model: a stack of  *)
(* contexts (webgpu-bridge.cpp: g_ctx_stack), of which every call sees the *)
(* top only, and the backend buffers that give the tensors of a context    *)
(* their memory.  Loading a model leaves the contexts of its weights and   *)
(* of its KV cache at the bottom; a forward pass, an embedding or a        *)
(* diagnostic pushes a context, builds its graph there, gives it memory,   *)
(* waits for the GPU, reads the result and pops.  They differ in where     *)
(* they await and in what they release when something throws.  Nothing in  *)
(* the engine serialises them, and unloadModel does not wait for them.     *)
(*                                                                         *)
(* A context is named by the call that pushed it.  A call is cut where it  *)
(* awaits: after building its graph (buildForwardGraph), for the compute   *)
(* queue, for the start of a download, for its completion; the downloads   *)
(* of a call that reads several tensors, one after another, are one here.  *)
(***************************************************************************)
EXTENDS Integers, Sequences, FiniteSets

CONSTANTS
    MaxCalls, \* bound: calls made on the model
    Weights,  \* the context of the weights
    Kv,       \* the context of the KV cache
    None      \* no buffer: backendAllocCtxTensors found nothing to allocate

\* The calls, numbered as they begin.
Calls == 1 .. MaxCalls

ASSUME ContextAssumption ==
    /\ MaxCalls \in Nat
    /\ Weights \notin Calls
    /\ Kv \notin Calls
    /\ None \notin Calls \cup {Weights, Kv}
    /\ Weights # Kv

VARIABLES
    model,   \* what is loaded, and how far its life has gone
    stack,   \* g_ctx_stack, the top last
    backed,  \* contexts whose tensors have memory on the backend
    queue,   \* graphComputeQueue
    call     \* the state of each call

vars == <<model, stack, backed, queue, call>>

Owners == Calls \cup {Weights, Kv}

ModelKinds == {"chat", "encoder", "causal"}

\* What a call does about its context and its buffer.  "forward" stands for forwardSingle,
\* forwardAllPositions and forwardDecode, "embed" for forwardForEmbedding and
\* forwardWithLayerTaps, "diagnose" for debugLayerOutput and debugReadEmbeddingRow.
Kinds == {"forward", "embed", "diagnose", "encode", "causalEmbed"}

\* Mutant: a free less.
FreesOnFailureLess == {"embed", "causalEmbed"}

\* Those that pop their context when the build throws, when a later step throws,
\* and those that free their buffer then.
PopsFailedBuild == {"diagnose", "causalEmbed"}
PopsOnFailure == {"embed", "diagnose", "encode", "causalEmbed"}
FreesOnFailure == {"embed", "encode", "causalEmbed"}

Call ==
    [kind : Kinds,
     phase : {"idle", "built", "computing", "beginning", "waiting", "rejected",
              "ready", "done"},
     buf : Owners \cup {None},  \* graphBuf: the context it gave memory to
     told : BOOLEAN,            \* the download completed before anybody waited for it
     left : BOOLEAN,            \* ended without popping a context
     alone : BOOLEAN]           \* history: no other call was under way at the same time

TypeOK ==
    /\ model \in [kind : ModelKinds, life : {"new", "weights", "ready", "disposed", "shut"}]
    /\ stack \in Seq(Owners)
    /\ backed \subseteq Owners
    /\ queue \in Seq(Calls)
    /\ call \in [Calls -> Call]

Active(c) == call[c].phase \notin {"idle", "done"}

\* What the calls find at the bottom of the stack.
Base == IF model.kind = "chat" THEN <<Weights, Kv>> ELSE <<Weights>>

Init ==
    /\ model \in [kind : ModelKinds, life : {"new"}]
    /\ stack = <<>>
    /\ backed = {}
    /\ queue = <<>>
    /\ call = [c \in Calls |-> [kind |-> "forward", phase |-> "idle", buf |-> None,
                                told |-> FALSE, left |-> FALSE, alone |-> FALSE]]

-----------------------------------------------------------------------------
\* The bridge

CtxCreate(s, o) == Append(s, o)

\* Mutant: the bottom of the stack.
CurrentCtxFirst(s) == s[1]

CurrentCtx(s) == s[Len(s)]

\* ctx_free does nothing on an empty stack.  Mutant: it pops twice.
CtxFreeTwo(s) == IF Len(s) <= 1 THEN <<>> ELSE SubSeq(s, 1, Len(s) - 2)

CtxFree(s) == IF s = <<>> THEN <<>> ELSE SubSeq(s, 1, Len(s) - 1)

\* Contexts whose tensors point to memory, which may have been freed since.
Assigned == {Weights, Kv} \cup {call[c].buf : c \in Calls}

\* The buffer backend_alloc_ctx_tensors returns: none if the tensors of the current
\* context point to memory already.
Allocated(s) == IF CurrentCtx(s) \in Assigned THEN None ELSE CurrentCtx(s)

-----------------------------------------------------------------------------
\* Loading and unloading

\* The weights get a context and their memory; a chat model is not ready without a KV
\* cache.
PushWeights(kind, life) ==
    /\ model = [kind |-> kind, life |-> "new"]
    /\ stack' = CtxCreate(stack, Weights)
    /\ backed' = backed \cup {Weights}
    /\ model' = [model EXCEPT !.life = life]
    /\ UNCHANGED <<queue, call>>

LoadWeights == PushWeights("chat", "weights")
LoadEncoderWeights == PushWeights("encoder", "ready")
LoadCausalWeights == PushWeights("causal", "ready")

InitKVCache ==
    /\ model.life = "weights"
    /\ stack' = CtxCreate(stack, Kv)
    /\ backed' = backed \cup {Kv}
    /\ model' = [model EXCEPT !.life = "ready"]
    /\ UNCHANGED <<queue, call>>

\* unloadModel up to the end of its await of dispose: the buffers go, and as many contexts
\* from the top as the model made at the bottom.
Release(kind, rest) ==
    /\ model = [kind |-> kind, life |-> "ready"]
    /\ stack' = rest
    /\ backed' = backed \ {Weights, Kv}
    /\ model' = [model EXCEPT !.life = "disposed"]
    /\ UNCHANGED <<queue, call>>

Dispose == Release("chat", CtxFree(CtxFree(stack)))
DisposeEncoder == Release("encoder", CtxFree(stack))
DisposeCausal == Release("causal", CtxFree(stack))

\* Mutant: asyncTensorGetWaiters is left as it is.
WaitersForgotten == [c \in Calls |-> [call[c] EXCEPT !.told = FALSE]]

\* Every download that is being waited for is rejected, and what was told is forgotten.
WaitersRejected ==
    [c \in Calls |->
        [call[c] EXCEPT !.phase = IF @ = "waiting" THEN "rejected" ELSE @, !.told = FALSE]]

\* shutdown: the heap goes with the module.
Shutdown ==
    /\ model.life = "disposed"
    /\ stack' = <<>>
    /\ backed' = {}
    /\ call' = WaitersRejected
    /\ model' = [model EXCEPT !.life = "shut"]
    /\ UNCHANGED queue

-----------------------------------------------------------------------------
\* A call

\* The calls once c, of kind k, has begun: those under way are no longer alone.
Joined(c, k) ==
    [d \in Calls |->
        IF d = c THEN [call[c] EXCEPT !.kind = k, !.alone = \A e \in Calls : ~Active(e)]
        ELSE IF Active(d) THEN [call[d] EXCEPT !.alone = FALSE]
        ELSE call[d]]

\* The calls once c has ended, l being whether it left its context.
Ended(calls, c, l) ==
    [calls EXCEPT ![c] = [@ EXCEPT !.phase = "done", !.told = FALSE, !.alone = FALSE, !.left = l]]

CanBegin(c, kind) ==
    /\ model = [kind |-> kind, life |-> "ready"]
    /\ call[c].phase = "idle"
    /\ \A d \in 1 .. (c - 1) : call[d].phase # "idle"

\* An operator of the graph throws while the graph is being built.
BuildFails(c, k) ==
    /\ stack' = IF k \in PopsFailedBuild THEN stack ELSE CtxCreate(stack, c)
    /\ call' = Ended(Joined(c, k), c, k \notin PopsFailedBuild)
    /\ UNCHANGED <<model, backed, queue>>

\* The graph is built and awaited.
BuildForwardGraph(c, k) ==
    \/ BuildFails(c, k)
    \/ /\ stack' = CtxCreate(stack, c)
       /\ call' = [Joined(c, k) EXCEPT ![c].phase = "built"]
       /\ UNCHANGED <<model, backed, queue>>

\* The graph is built, gets its memory and its inputs and is queued, all at once.
BuildAndSubmit(c, k) ==
    \/ BuildFails(c, k)
    \/ /\ stack' = CtxCreate(stack, c)
       /\ backed' = backed \cup {c}
       /\ queue' = Append(queue, c)
       /\ call' = [Joined(c, k) EXCEPT ![c] = [@ EXCEPT !.phase = "computing", !.buf = c]]
       /\ UNCHANGED model

\* The last logits; those of every position, to verify drafted tokens; a decode step.
ForwardSingle(c) == CanBegin(c, "chat") /\ BuildForwardGraph(c, "forward")
ForwardAllPositions(c) == CanBegin(c, "chat") /\ BuildForwardGraph(c, "forward")
ForwardDecode(c) == CanBegin(c, "chat") /\ BuildForwardGraph(c, "forward")

\* Stateless passes over a chat model: the hidden state, or what the caller taps.
ForwardForEmbedding(c) == CanBegin(c, "chat") /\ BuildForwardGraph(c, "embed")
ForwardWithLayerTaps(c) == CanBegin(c, "chat") /\ BuildForwardGraph(c, "embed")

DebugLayerOutput(c) == CanBegin(c, "chat") /\ BuildAndSubmit(c, "diagnose")
DebugReadEmbeddingRow(c) == CanBegin(c, "chat") /\ BuildAndSubmit(c, "diagnose")

\* The embedders without a KV cache.
EncoderEmbed(c) == CanBegin(c, "encoder") /\ BuildAndSubmit(c, "encode")
CausalForwardEmbed(c) == CanBegin(c, "causal") /\ BuildAndSubmit(c, "causalEmbed")

Begin(c) ==
    \/ ForwardSingle(c) \/ ForwardAllPositions(c) \/ ForwardDecode(c)
    \/ ForwardForEmbedding(c) \/ ForwardWithLayerTaps(c)
    \/ DebugLayerOutput(c) \/ DebugReadEmbeddingRow(c)
    \/ EncoderEmbed(c) \/ CausalForwardEmbed(c)

\* After the await: memory for the context that is on top now, and the inputs.  Inputs
\* cannot be written to tensors without memory; if the context is gone, anything goes.
Submit(c) ==
    /\ model.life # "shut"
    /\ call[c].phase = "built"
    /\ stack # <<>>
    /\ c \in Assigned \cup {CurrentCtx(stack)} \/ \A i \in 1 .. Len(stack) : stack[i] # c
    /\ backed' = (backed \cup {Allocated(stack)}) \ {None}
    /\ queue' = Append(queue, c)
    /\ call' = [call EXCEPT ![c] = [@ EXCEPT !.phase = "computing", !.buf = Allocated(stack)]]
    /\ UNCHANGED <<model, stack>>

\* What is left of the stack and of the memory when c throws with buffer b.  Mutant: no
\* finally block pops.
StackAfterFailureKept(c) == stack
StackAfterFailure(c) == IF call[c].kind \in PopsOnFailure THEN CtxFree(stack) ELSE stack
FreedByFailure(c, b) == IF call[c].kind \in FreesOnFailure THEN {b} ELSE {}

Failed(c) == Ended(call, c, call[c].kind \notin PopsOnFailure)

\* The allocation itself throws, outside of every try.
AllocFails(c) ==
    /\ model.life # "shut"
    /\ call[c].phase = "built"
    /\ call' = Ended(call, c, TRUE)
    /\ UNCHANGED <<model, stack, backed, queue>>

\* The inputs cannot be written.
UploadFails(c) ==
    /\ model.life # "shut"
    /\ call[c].phase = "built"
    /\ stack # <<>>
    /\ backed' = (backed \cup {Allocated(stack)}) \ (FreedByFailure(c, Allocated(stack)) \cup {None})
    /\ stack' = StackAfterFailure(c)
    /\ call' = [Failed(c) EXCEPT ![c].buf = Allocated(stack)]
    /\ UNCHANGED <<model, queue>>

\* The queue runs one graph at a time, in order.
HasTurn(c) == queue # <<>> /\ Head(queue) = c

GraphDone(c) ==
    /\ model.life # "shut"
    /\ call[c].phase = "computing"
    /\ HasTurn(c)
    /\ queue' = Tail(queue)
    /\ call' = [call EXCEPT ![c].phase = "beginning"]
    /\ UNCHANGED <<model, stack, backed>>

\* The request exists: wait for it, unless it has completed already.
BeginDone(c) ==
    /\ model.life # "shut"
    /\ call[c].phase = "beginning"
    /\ call' = [call EXCEPT ![c].phase = IF call[c].told THEN "ready" ELSE "waiting"]
    /\ UNCHANGED <<model, stack, backed, queue>>

\* __webllmNotifyAsyncTensorGet: the waiter is resolved, or the state is noted.
Notified(c) ==
    /\ model.life # "shut"
    /\ \/ /\ call[c].phase = "beginning"
          /\ ~call[c].told
          /\ call' = [call EXCEPT ![c].told = TRUE]
       \/ /\ call[c].phase = "waiting"
          /\ call' = [call EXCEPT ![c].phase = "ready"]
    /\ UNCHANGED <<model, stack, backed, queue>>

\* The bytes are copied; the buffer and a context go.
Finish(c) ==
    /\ model.life # "shut"
    /\ call[c].phase = "ready"
    /\ backed' = backed \ {call[c].buf}
    /\ stack' = CtxFree(stack)
    /\ call' = Ended(call, c, FALSE)
    /\ UNCHANGED <<model, queue>>

\* The compute or the download rejects.
Fail(c) ==
    /\ model.life # "shut"
    /\ \/ call[c].phase = "computing" /\ HasTurn(c) /\ queue' = Tail(queue)
       \/ call[c].phase \in {"beginning", "waiting", "ready"} /\ queue' = queue
    /\ backed' = backed \ FreedByFailure(c, call[c].buf)
    /\ stack' = StackAfterFailure(c)
    /\ call' = Failed(c)
    /\ UNCHANGED model

\* After shutdown the module is null: the next use of it throws, in the finally
\* blocks too.
Cut(c) ==
    /\ model.life = "shut"
    /\ \/ call[c].phase = "computing" /\ HasTurn(c) /\ queue' = Tail(queue)
       \/ call[c].phase \in {"built", "beginning", "rejected", "ready"} /\ queue' = queue
    /\ call' = Ended(call, c, TRUE)
    /\ UNCHANGED <<model, stack, backed>>

Progress(c) ==
    \/ Submit(c) \/ AllocFails(c) \/ UploadFails(c)
    \/ GraphDone(c) \/ BeginDone(c) \/ Finish(c) \/ Cut(c)

Next ==
    \/ LoadWeights \/ LoadEncoderWeights \/ LoadCausalWeights \/ InitKVCache
    \/ Dispose \/ DisposeEncoder \/ DisposeCausal \/ Shutdown
    \/ \E c \in Calls : Begin(c) \/ Progress(c) \/ Fail(c) \/ Notified(c)

\* What is awaited settles, and the GPU answers while there is a module to hear it.
Fairness ==
    /\ WF_vars(Shutdown)
    /\ \A c \in Calls : WF_vars(Progress(c)) /\ WF_vars(Notified(c))

Spec == Init /\ [][Next]_vars /\ Fairness

-----------------------------------------------------------------------------
\* Properties

BaseStays ==
    /\ Len(stack) >= Len(Base)
    /\ SubSeq(stack, 1, Len(Base)) = Base
    /\ \A i \in 1 .. Len(Base) : Base[i] \in backed

Holds(c) == Active(c) \/ call[c].left

\* Whatever calls overlap and fail in whatever order, the contexts of the weights and
\* of the KV cache stay at the bottom of the stack, with their memory, until the model
\* is unloaded: no ctxFree of a call ever reaches them.  Above them there is one context
\* for each call under way and one for each that threw without popping: a call never
\* pops twice, nor pops for another one that still will.
StackAccounted ==
    model.life = "ready" =>
        /\ BaseStays
        /\ Len(stack) = Len(Base) + Cardinality({c \in Calls : Holds(c)})

\* A call that nobody overlaps works on the tensors it built, in memory it frees itself,
\* whatever earlier calls left on the stack.
AloneOnItsOwn ==
    \A c \in Calls :
        (/\ model.life = "ready" /\ Active(c) /\ call[c].alone) =>
            /\ CurrentCtx(stack) = c
            /\ call[c].phase # "built" => call[c].buf = c /\ c \in backed

\* The memory of a graph outlives the call that allocated it only when a forward or a
\* diagnostic threw.
BuffersAccounted ==
    \A o \in backed \ {Weights, Kv} : \E c \in Calls :
        /\ call[c].buf = o
        /\ Active(c) \/ call[c].kind \in {"forward", "diagnose"}

\* The two together: every context and every buffer has an owner that answers for it.
MemoryAccounted == StackAccounted /\ BuffersAccounted

\* Every call ends: the calls before it in the queue may fail and the module may be shut
\* down while it waits for its bytes.
CallsEnd == \A c \in Calls : Active(c) ~> ~Active(c)
=============================================================================
