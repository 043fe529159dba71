# webllm: a TLA+ verification project

This directory models webllm, an LLM inference engine that runs in the
browser, from its TypeScript source in `src/src/`. It holds TLA+ modules, the TLC
configurations that check them on small instances, and theorems that TLAPS
proves for every value of the constants. Every definition is translated from
the code; `PROJECT.json` maps each one to the lines it stands for.

## 1. The system

webllm loads GGUF models into a ggml wasm module with a WebGPU backend and
offers chat, completion, conversations with a prefix cache, characters, tools,
embeddings and a worker façade. It runs on one JavaScript thread per realm (the
page, or a worker driven over `postMessage`). Code between two awaits is atomic;
whatever is awaited, or yielded to a consumer, lets other calls in.

| Component | State | Operations | Hard behaviour | What makes it correct |
|---|---|---|---|---|
| Conversation pool (`core/conversation-pool.ts`) | Map of entries (model, snapshot, lock, access ordinal), id and access counters | create, fork, dispose, clear, disposeAllForModel, get, set, tryAcquireLock | eviction while calls hold locks; stale handles and stale release closures | one writer per conversation; capacity; eviction skips entries in use; ids never reused; the victim is the least recently used |
| Conversation chat (`core/engine.ts`, chatCompletionWithConversation) | `ModelRecord.chatChain`, the conversation's lock, the model's working KV cache | lock, wait for the chain, load snapshot, prefill, decode, save, release | calls interleave at every await and yield; abort, errors, disposal, unload in between | one call at a time on the cache, in order; no token of another call in the context; the snapshot describes its bytes; every call ends |
| Model inference KV (`inference/model-inference.ts`) | K/V buffers, `nCached` | forward, forwardDecode, truncate, reset, load, serialize | append at `nCached` against caller-given positions; no bound check | slot = position = index in the call's tokens |
| Generator, session (`inference/generation.ts`, `models/inference-session.ts`) | token history, position, flags that steer think blocks, two text decoders | prefill, decode in three sampling modes, mask, route, stop, abort | abort between forward and yield; five flags choose mask and mode at each step | position equals cached length; thoughts and answer kept apart; a block is closed and answered before the end; the reason of the end is the true one |
| Bridge, wasm binding, passes (`wasm/webgpu-bridge.cpp`, `inference/ggml-wasm.ts`, `model-inference.ts`, the encoder and the embedder) | stack of ggml contexts, backend buffers, compute queue, waiters for downloads | push a context, build, allocate, compute, download, free, pop; shutdown | passes overlap on one stack; each kind releases something else when it throws; shutdown under waiters | the model's contexts stay below; a pass alone works on its own; every pass ends |
| JSEP runtime (`inference/jsep/`) | handles, pooled buffers, batch of dispatches | alloc, free, write, read, clear, run, sync, install, destroy | recorded commands against immediate ones; results that alias operands; heap growth under a read | handles are memory used in program order |
| Model-id chat (`core/engine.ts`: chat, generateStream, prepareChatPrompt) | `ConversationSession` (messages, position, history), and the same KV cache | fast path (delta), full prompt with reset, resetModelSession | no lock and no chain: a cache hit trusts lengths; messages recorded before their prefill | the KV holds the conversation the session says it holds |
| Speculative decoding (`inference/speculative.ts`) | target and drafter KV, `pastLen` | draft burst, verify, accept, rollback | rollback after partial accept, bonus, abort | the two caches agree and hold the emitted tokens |
| Worker façade (`core/webllm-proxy.ts`, `webllm-worker-host.ts`, `worker-bridge.ts`) | pending requests, stream entries (queue, waiters, flags), abort controllers of the host | call, start, next, return, throw, cancel, crash; host: serve, batch, flush, end | messages in flight past a cancel or crash; errors while nobody waits | every request settles once; a stream delivers its chunks in order, then one end that is the true one |
| Model loading (`core/engine.ts`, `memory-pool.ts`, `model-manager.ts`) | records, manager entries, wasm modules, memory accounting | load (three ways), unload, shutdown | failure at each await of a load | what a failed load acquired is released; records, entries and accounting agree |
| Scheduler, game loop (`core/scheduler.ts`, `game-loop.ts`) | queue, running map, timers | enqueue, runFrame, preempt, pause, resume, stop | overlapping frames; preemption does not wait for the task | no slot is lost; queued tasks start |
| Stream router (`inference/stream-router.ts`) | consumers by id, each with a queue, flags and a promise | emit, close, interrupt, the generator's next | values and closes between a promise and its continuation; consumers that are too slow | each consumer gets what was emitted to it, in order, and is told of its end |
| KV ring (`models/kv-cache.ts`) | cells, head, usedCells | findSlots, updateSlots, share, evict, reset | wrap-around, sharing | the count is that of the cells held; a complete prompt is complete |
| Tokenizers (`inference/tokenizer.ts`) | symbol list and heap of one call | push, pop, merge | stale entries of the heap, ties | the merges are those of the table |
| Characters, tools (`characters/`) | history, stop flag, tool rounds | chat, stop, clearHistory | stop between rounds | the history pairs turns; a stop ends what streams |
| Persistence (`core/persistence.ts`, `persistence/indexeddb-store.ts`) | exported blobs | export, import, save, load | none beyond the pool's | a blob round-trips |
| Live dashboard (`eval/live-events.ts`, `live-server.ts`, `live-db.ts`, `live-client.ts`, `smoke-test/dashboard.js`) | event buffer, records in memory and in SQLite; a dashboard's state and last event id | post, stamp, broadcast, snapshot, replay, reset, restart | posts and connections that are lost, replays behind a snapshot, failed writes, restarts | a settled dashboard shows what the server holds |
| Chat page (`smoke-test/chat-page.js`, `chat-conversation.js`, `chat-persistence.js`, `chat-restore.js`) | engine, conversation, controller, saved slot | load, send, stop, clear, save, restore, reload | handlers overlap at every await; a load forgets the engine under them and leaves it running | saved questions have answers; what is cleared stays cleared |
| Sampler, templates, GGUF parser, evaluation, probes | none | pure, numeric or scripts | none concurrent | see `PROJECT.json` |

The components meet in six places: the working KV cache of a model (both chat
paths, speculative decoding and unload write to it), the pool (conversation calls
and unload), the records of the engine with its manager and memory pool (loads,
unloads, evictions, shutdown), the context stack of a model's wasm module (every
pass, and unload), the message channel between page and worker, and, for the pages, the
worker's engine, which the chat page drives, and the event stream of the live server.

## 2. The plan

Most important first. Each module keeps its parameters as CONSTANTS with a named
assumption, has one action per operation (cut at the awaits), and, except for
`TokenMerges`, declares no RECURSIVE operator, so that it can be proved about.

1. `ConversationPool`, its promise `LruSet`, the refinement
   `ConversationPoolLru`; proofs in `ConversationPoolProofs`. **Done.**
2. `ConversationChat`, its promise `IsolatedConversations`, the refinement
   `ConversationChatIsolation`; proofs in `ConversationChatProofs`. **Done.**
3. `WorkerStreams`: proxy, channel and host; proofs in `WorkerStreamsProofs`.
   **Done** but for the init handshake.
4. `Speculative` and its promise `TokenStream`; proofs in `SpeculativeProofs`.
   **Done.**
5. `ModelSession`: the model-id path (`chat`, `generateStream`,
   `prepareChatPrompt`, `resetModelSession`) over the same cache, with the steps of
   conversations on it; proofs in `ModelSessionProofs`. **Done** but for `unloadModel`
   in the middle of a call.
6. `ModelLoad` with the memory pool and the model manager: resource ownership
   over the loaders' failure paths; proofs in `EnginePartsProofs`. **Done.**
7. `GraphContexts`: the bridge's stack and the passes of every class of model;
   proofs in `GraphContextsProofs`. **Done** but for a proof of liveness.
8. `Generation`: the loop with its steering; proofs in `EnginePartsProofs`. **Done.**
9. `JsepQueue` and its promise `SequentialMemory`; proofs in `GraphContextsProofs`. **Done.**
10. `FrameLoop`: scheduler and game loop; proofs in `ApplicationProofs`. **Done** but for
    a proof of liveness.
11. `Character`: chats, tools and stops; proofs in `ApplicationProofs`. **Done.**
12. `LiveDashboard`: posts, server, connections and dashboards; proofs in
    `EnginePartsProofs`. **Done** but for the score chart.
13. `ChatPage`: the handlers of the page over an engine in its worker; proofs in
    `ApplicationProofs`. **Done.**
14. `TokenMerges`: the merge loops of the two tokenizers with their heaps, against the
    meaning of a merge table. **Done**, model-checked only (it recurses).
15. `StreamRouter`; proofs in `ApplicationProofs`. **Done.**
16. `KvRing`; proofs in `EnginePartsProofs`. **Done** but for the buffer ids.

Every safety property that a run checks is a theorem, but for that of `TokenMerges` (section 5).

## 3. From the code to the modules

### ConversationPool

`entries` is the `Map<number, PoolEntry>`; `nextId` and `accessCounter` are the
fields of those names; `modelState` merges the manager's entry and the engine's
record, which the code checks together; `closing` marks the span of `shutdown`.
Each engine operation is one action that makes every pool call of the method, in
order: an export touches its entry three or four times, an import twice, a refused
fork once although it throws. `unloadModel` and `shutdown` are cut at their
awaits (`UnloadModel`/`UnloadModelDone`, `Shutdown`/`ShutdownDone`), `chatCompletion`
at the chain and at the save. `disposed` is a history variable.
`ConversationPoolLru` maps the pool to `LruSet`, a bounded set whose members are
ordered by their last use (`older`, a relation: the abstract set has no ordinals)
and whose insertions forget the least recently used member that is not in use.

### ConversationChat

`chain` is `ModelRecord.chatChain`; a member of `Calls` stands for the promise of
one invocation. `call[c]` holds the phase of the async generator (where it is
suspended), its prompt, the promise it awaits, `past` (the `pastLen` a forward
read before it awaited), the session's position and the tokens yielded. `slots` and
`nCached` are the K/V buffers and their logical length: a slot is the token and
position that were written to it. `Written` includes what the code does past the
end of a buffer: there is no bound check, and a head's row runs into the next one.
The actions are the synchronous stretches between awaits and yields: `ChatBegin`
(lock, join), `ChatEnter` (steps 3 to 8: overflow check, shared prefix, load or
reset, truncate), `PrefillDone`, `FirstDone`, `DecodeDone`, `Resume`, `SaveBegin`,
`SaveDone`, and `Leave` for every throw or early return; the last two run the
`finally` block. The promise, `IsolatedConversations`, has no cache, lock or chain:
a turn reads its prompt and replaces a history of its own. The refinement mapping
takes the history from the KV bytes of the snapshot, not from the ids beside them,
so a snapshot whose bytes and ids disagree breaks it.

### WorkerStreams

`pending` and `entry` are the proxy's two maps; `consumer[s]` is the `for await`
loop that reads a stream (`waiting` when it has a pending `next()`), `promise[r]` what
a caller of a method holds. `toWorker` and `toProxy` are the two `postMessage`
queues, `host[s]` the loop of `handleStreamStart` with its controller and its
batch. A flush happens when the batch is full or 16 ms have passed, so any
chunk may end a batch. `Crash` is `handleCrash`, from a worker error or from
`dispose`; `terminate` drops what is queued. The ids come from counters and are
never reused.

### Speculative

`target` and `drafter` are the two KV caches as sequences of (token, position) slots,
in the order in which they were appended. `DraftForward` is one iteration of the
burst, `Verify` the forward of the target with `acceptPrefix`, `EmitToken` one
yield, `Rollback` what follows the yields. `AcceptPrefix` is the set of results
`acceptPrefix` may return when probabilities are left out: any number of drafts
accepted, any residual or bonus token, cut by stop tokens and by the budget at
the places where the code cuts. `TokenStream` is what the consumer sees. The code
checks the signal at the top of the loop and before the first draft in one stretch;
an abort between the two ends the same way and is not excluded.

### ModelSession

`session` is the `ConversationSession` of the model's record: the position and the
history of its `InferenceSession`, and `cachedMessages` (whose length is
`messageCount`). `cache` is the working KV cache of `ConversationChat`, seen from
this path: a slot is the message or the sampled token written to it, or `Foreign`
for whatever another kind of call wrote. `BeginChat` is `generateStream` with a list
up to the await of its prefill, `prepareChatPrompt` included; `BeginPrompt` is
`chat`, or `generateStream` with a string, whose session is its own and starts at
position 0 on the cache as it is. A prefill longer than the tile is several forwards
(`PrefillTile`). `Resume` is the stretch from a yield to the next forward (push, stop
conditions, forward), `DecodeDone` the end of that forward. A forward reads `past`
before it awaits and sets the length when it ends, whatever happened between.
`ConversationStep` is any effect that a conversation's call has on the cache.
`Fail`, `Leave`, `Abort` and `ResetModelSession` may come at any point. A call that
is under way at a reset keeps its session object, which is no longer the model's
(`own`). Two history variables serve the properties: `alone` says that nobody else
has used the cache since the call began, `skipped` that some call ended before its
prefill was complete. The code serialises nothing on this path and promises nothing
to calls that overlap; the properties therefore speak of calls that have the cache to
themselves, after any overlap, failure, reset or conversation before them.

### Generation

The variables are the locals of `Generator.generate`, under their names; `config` is
what the engine passes it, reduced to what the loop does with it: a Qwen model with
its tags (`qwen`), any other model (`plain`), the option that asks for an answer
before any stop (`answerFirst`), and one of the three ways to sample. A token is one of
nine classes that the code tells apart: the tags, the end of turn, the model's and the
caller's stop tokens, `<|im_start|>`, and text by its whitespace. Logits are left out:
whatever a mask leaves may be sampled, and the resampling of `sampleVisibleAnswerToken`
ends with a token of the wanted class. `Candidates` is what one decode step may
return, by mode; `Steer` the update of the flags; `EmitAndYield` the routing of the text
to a decoder, with the depth the visible decoder counts for itself when the loop was
given no tags. `Resume` is the head of the loop, `DecodeDone` the rest of it. The
text is `emitted`, with `channel[i]` the decoder that got its i-th token.

### GraphContexts

`stack` is `g_ctx_stack` of the bridge, `backed` the contexts whose tensors have memory,
`queue` the promise chain of `enqueueGraphCompute`. A context is named by the call that
pushed it. A call is one pass; its kind says which function it is, and the sets
`PopsFailedBuild`, `PopsOnFailure` and `FreesOnFailure` what that function releases
when it throws, which differs from one to the next. The actions are the stretches between
awaits: the build (one action per function, since each loads its leaves in its own
order), `Submit`, `GraphDone`, `BeginDone`, `Notified`, `Finish`; `AllocFails`, `UploadFails`
and `Fail` are the throws, `Cut` a call that finds the module gone. `Shutdown` rejects the
waiters. A call always acts on whatever is on top of the stack, as the bridge does.

### ModelLoad

A model stands for one load. A Map in insertion order (the manager's entries, the pool's
allocations) is the set of its keys with the relation that says which came before which.
`load[m]` is where its loader is suspended; `wasm`,
`staging`, `registry`, `records`, `pool`, `used` and `pressure` are the module, the
file in its heap, `ModelManager.models`, `WebLLM.models`, and the fields of the memory
pool (`usedBytes` where `EngineParts` names it apart from the ring's). `InitDone`, `Stream`, `Build`, `HashDone` and their failures follow the three
loaders through `_buildInferenceAndRegister`; a failure tears down exactly what the code's
`catch` reaches (`FailAndShutdown`, or `Failure` where the promise of the helper is
returned and not awaited). Both loaders tell the size of the file; who adopts a pipeline may leave
it out, and then `HashDone` counts nothing. `uncounted` keeps the models that run and are not
counted, for that reason or because they were evicted. Unloads, evictions by both owners, sessions and `shutdown`
come in at every await.

### JsepQueue and SequentialMemory

`handles`, `freeBuckets` and `pending` are the tables of `GpuDataManager` and
`CommandEncoder`. A buffer has a value per cell and a dispatch computes a function of
its operands, so that the order of the commands shows in the contents. `Record` flushes a
full batch; writes, clears and reads go to the queue at once, after a flush;
`Divert` is a run whose result lies in the buffer of an operand. The
device is external: it executes submissions in order and rejects a batch that names a
destroyed buffer, or that binds one buffer for reading and for writing within one scope. The
scope is the constant `PassScope`: the whole pass, which is the whole batch, as the comments of
the operators say, or each dispatch, as the WebGPU standard says. `JsepInstance` assumes the
latter (`DispatchScope`), on which the runtime depends (4.3). `SequentialMemory` knows none of this: cells of live handles, used in
the order of the calls. The refinement mapping shows it the buffers as they will be once
the batch is submitted.

### FrameLoop

`queue` and `running` are those of the scheduler. The array that a stable sort keeps in
order is the set of its tasks with `before`, which of two equally urgent ones was queued
first; `FirstOf` is then the one that `shift`, or `findIndex` among those of an id, comes
upon. `frame[f]` is the task that a call of
`runFrame` awaits, and several frames may be under way. `timers` are those set and not
cleared, `timerId` the field. A frame may end after any task, since the model has no
clock. `dequeue`, `preemptModel` and `clear` abort a task and delete its entry at once,
while it still executes.

### Character

`active` and `stopped` are the two flags that all chats of a character share;
`chat[c]` is where the generator of a chat is suspended: in the engine's stream, at its own
yield, or in a tool. `Stop` is also what the manager's `remove`, `stopAll` and `clear` do.

### LiveDashboard

`buffer`, `memory` and `disk` are the event store's ring, its two maps and the two tables;
`view[d]` is the state of a dashboard tab, `stream[d]` its event source with what is on the
way and the last id it saw. A post is stamped, stored and broadcast in one step (the server
handles a request without an await after it has read the body); `Stored` is the order in which
buffer, memory and table are written, which shows when the write fails. Any post may be lost
(`Lost`), since the client does not repeat it. `Connect` is `handleStream`: a snapshot, then
the events after `Last-Event-ID` (`Greeting`), then what is broadcast. The code filters the
buffer by number; `EventsSince` takes as many off its end, which is the same since the numbers
follow one another (`ReplaysRight` proves that they do). `Deliver` runs the
dashboard's handler for one event, with the pruning of evals that a newer one of the same
model or session replaces (`Orphans`). `Crash` and `Restart` lose memory and sequence and load
the tables up to their limit. History variables record what was in flight, acknowledged and
missed.

### ChatPage

The variables are those of the page's closure under their names; `load`, `send`, `clearing`
and `resume` say where each asynchronous handler is suspended. The engine is the worker as the
page uses it: requests served in order (`Create`, `Start`, `Export`, `Dispose`, `Resumed`), one
turn per conversation at a time, a last chunk that comes before the save (`Saving`) and the
release. Workers come with loads (`up`) and go with a reload only: `engine.shutdown?.()` names a
method that the proxy does not have, so a load forgets the engine and leaves it running, with its
turns and the exports that it has yet to answer. `conv` stays as it is, the old engine's, and a
dispose on the new one takes the entry of its number (`Named`, `Number`: both pools count
`conv_1`, `conv_2` ...). `meta` is the slot in
localStorage, `blob` the one in IndexedDB, written later by `Commit` in the order of the
calls. `Reload` forgets everything but the slot. A message is its role, which is what the
saved history is judged by; an answer that was stopped is kept with its marker if it has text
(`Stopped`). `mixed` marks turns that overlapped another one, `cleared` that nothing has been
sent since a clear that found no other engine about to export (`ExportedElsewhere`).

### TokenMerges

A step is an iteration of the merge loop: `Skip` a stale entry, `Merge` a current one.
`symText`, `symPrev`, `symNext` and `symMerged` are the parallel arrays, `heap` the binary heap
with its own `bubbleUp` and `sinkDown`, since the order among equal ranks is what the shape of
the heap makes it. `kind` chooses between the two functions: the key of a pair (a pair of
texts, or the text it makes) and the check of a popped entry (`RankHolds`) differ, nothing
else. `Init` ranges over every word and every vocabulary on its pairs; a BPE table is one that
merging could have learned. `Canonical` is the meaning of the table: the leftmost of the best
pairs, again and again.

### StreamRouter

`streams` is the map of ids, the rest the locals of `createConsumer` per consumer: `resolve`
whether its promise waits, `result` what it was resolved with and has not been handed over yet.
`reader[c]` is the loop over the generator. `Ask` is `next()` up to its value, its end or its
await; `Wake` the continuation of the await, which may come after any number of other calls.

### KvRing

`position` and `sequenceIds` are the cells. `Write` is `findSlots` followed by `updateSlots` of
what it found (callers do both in one stretch), with the positions that follow those the
sequence has; `Starts` gives the place the two scans of `findSlots` would choose. `mixed` says
that a prompt was shared with a sequence that had cells of its own.

## 4. What each run checks

| Run | Instance | States | Shows |
|---|---|---|---|
| `MCConversationPool` | 2 models, 2 calls, capacity 2, 4 ids, 9 access ordinals; symmetric | 381,282 | locks match calls in flight; stale handles stay dead; the pool is an LRU set |
| `MCConversationChat` | 2 conversations, 3 calls, prompts of 1 and 3 tokens that share a prefix (with the reply too) or diverge after it, up to 2 new tokens, context 3, buffers of 5 | 279,939 | serialisation and order of the calls, context of every forward, faithful snapshots, the isolation refinement; every call ends |
| `MCStreams` | *worker*: 1 request, 1 stream of up to 3 chunks, batches of 2; *router*: 2 consumers under one id, queues of 2, 5 values; *frames*: 3 tasks (2 under one id), 3 frames, 2 timers, 2 slots | 105,253 | chunks, cancels, callbacks, answers; consumers get what was emitted; no slot is lost; requests are answered and queued tasks start |
| `MCSpeculative` | 3 tokens (1 stops), bursts of 2, 6 new tokens | 57,078 | the caches agree; text in the cache; a token stream that ends |
| `MCModelSession` | 2 calls, 3 lists of 1 or 2 messages, 2 new tokens, session of 3, tiles of 1; symmetric | 863,194 | positions and context of a lone chat after anything else |
| `MCFastPath` | the same | violation | messages recorded before their prefill |
| `MCGraphContexts` | 3 calls of any kind on a model of any class | 165,484 | contexts and buffers have their owners; a lone call works on its own; every call ends |
| `MCEngineParts` | *loads*: 3 models (2 large, 1 small and adopted, with its size or without) in a budget of 4; *merges*: 2 characters, word and merges 8 together, words up to 6; *generation*: 5 new tokens, room for 2 or 6, all options and ways to sample; *ring*: 3 sequences, 4 cells, 1 or 2 tokens a call | 1,015,999 | the pool adds up and modules, records, entries and allocations have owners; merging is complete and BPE means its table; thoughts apart, an answer after each block, the true end; the ring's counts are those of its cells |
| `MCJsepQueue` | 2 binary cells a buffer, 4 handles, batches of 3, 1 reader | 225,649 | one owner per buffer; program order |
| `MCCharacter` | 3 chats; symmetric | 397,664 | stops take effect; turns are paired |
| `MCLiveDashboard` | 1 run, 2 evals of a session, 1 dashboard, buffer and tables of 2, 4 posts, 1 cut, 1 restart, 1 failed write | 545,131 | a settled dashboard is right, tasks counted once; acknowledged history survives; finished work arrives |
| `MCChatPage` | 2 loads, 2 sends, 1 clear, 2 calls, 1 reload; symmetric | 350,030 | answers saved; cleared is gone |

`PageInstance` names the chat page's constants and variables for `MCChatPage` and for
`ApplicationProofs`, `LiveInstance` the dashboard's for `MCLiveDashboard` and for
`EnginePartsProofs`, `JsepInstance` those of the JSEP runtime, with its promise, for
`MCJsepQueue` and for `GraphContextsProofs`. `MCStreams` and `MCEngineParts` each check several modules that share no state. Their
initial states choose a part, by the variable `part`; only its actions are taken from
then on, and the other parts stay in an initial state. The state space is the sum of
those of the parts, and each property says nothing new of the parts that stand still. `Application`
declares the router and the frames side by side, for `MCStreams` and for `ApplicationProofs`, and `EngineParts`
the loads and the ring, for `MCEngineParts` and for `EnginePartsProofs`.

Several properties have named parts, which their modules define one by one:
`ContextsAreOwn` is `OwnContext` and `SnapshotFaithful`, `StreamsDeliver` is `NothingLost` and
`EndIsComplete`, `EverybodyIsAnswered` is `RequestsSettle` and `NobodyWaitsForEver`,
`MemoryAccounted` is `StackAccounted` and `BuffersAccounted`, `OwnersAgree` is
`NothingOrphaned` and `RecordsAgree`, `HandlesAreMemory` is `OneOwner` and
`ImplementsSequential`, `DashboardsAgree` is `Converged`, `RunningIsInFlight` and
`ProgressIsExact`, `EncodingIsRight` is `SymbolsSpellWord`, `NothingLeft` and `BpeIsTable`,
`CountsAreRight` is `CountAddsUp` and `PromptIsComplete`.

Type invariants, `Capacity`, `RecencyTotal`, `InUseKept`, `DecodeWithinSession`,
`OneAnswerUnderWay` and `ActiveIsStreaming` hold in these instances too and are left out
of the runs; those of the modules with proofs are proved (section 5).

### 4.1 Bounds, and why they are enough

- Pool: with capacity 2 and two calls, every entry can be locked, one can, or none,
  so that eviction meets all three cases; four ids allow two evictions and a
  handle staler than any live entry; nine ordinals allow each live entry to be used
  between two insertions. Nothing in the pool counts beyond "full" and "oldest".
- Chat: three calls on two conversations make a chain with a caller inside, one
  waiting and one that arrives after the tail has been dropped; the prompts share
  one token or a whole prompt, and a first turn has nothing to share, so the full
  match, the partial match and the miss all occur, also across conversations through a
  fork; generated tokens are drawn from the prompts' tokens and so take part in later
  matches.
- Worker: three chunks and batches of two give a full batch, a partial one and a
  timed flush, with chunks left in the host, on the way and in the queue at once.
  Streams do not touch each other's state; an instance of two streams with two
  chunks each (1.1 million states) was explored with the same results.
- Speculative: six tokens with bursts of two allow three or more steps in every
  order of accept, refusal and bonus, and all the ways the budget can fall inside a
  burst.
- Session: one list extends another and a third diverges from it at the same length,
  so the fast path is taken, refused for its messages and refused for the position;
  tiles of one message let a prefill fail or be overtaken in the middle; a session of
  three tokens is filled by two chats. Calls start without end: forwards begin while
  at most `MaxCached` slots are in use, because two calls that overlap can push the
  cache's length up for ever. `MaxForeign` bounds what a conversation leaves.
- Graph contexts: three calls give one that works, one that overlaps it and one that
  finds what a failed one has left; they queue, wait and are cut off in every order.
- Loading: any two models fit, the two large ones cross the pressure mark, three do not
  fit, so allocation is refused and eviction takes one, each also during another's load.
- JSEP: with batches of three a flush comes from the batch, from a command or from a
  divert; four handles let a pooled buffer come back twice. The kernels are tables (NAND,
  negation, a copied row), not translations of the shaders: the run checks which tensors an
  operator reads and writes and in which order the commands take effect, as far as two binary
  cells tell them apart, and nothing of what the shaders compute, of offsets within a tensor or
  of types. That the order is right whatever the kernels compute is what the proof is for.
- Frames: two tasks of one id, one of another and three overlapping frames are what it takes for an
  entry to be deleted under a task that was started after it; two timers are one more
  than the loop should have.
- Characters: a third chat is one that two others have overlapped.
- Generation: five tokens hold an opening tag, a thought, a closing tag, whitespace and
  an answer, and with the shorter room end inside any of them. That the text may be
  longer is what the proofs are for.
- Live dashboard: two posts past the buffer make a gap that the replay does not cover; an eval
  and its successor in one session meet the pruning; one cut, one restart and one failed
  write come at every point between them. The properties speak of one dashboard.
- Chat page: two turns, or a turn and a clear, with two loads under them: an engine that is
  left behind and one that comes; one reload between any two writes of the slot.
- Token merges: a stale entry matters in words of four characters with four merges, a tie in
  words of five or six with one or two; `MaxSize` 8 holds both.
- Stream router: five values fill a queue of two, overflow it and leave some for after; two
  consumers under one id are a consumer and its successor, closed or displaced.
- KV ring: four cells let a stretch go around the end beside cells that stay; three sequences
  let a prompt be shared twice. A prompt is shared once with a sequence that has cells, because
  `usedCells` grows with each repetition.
- `MaxAccess`, `MaxId`, `MaxChunks`, `MaxCalls`, `MaxHandle`, `MaxTokens` of the instances,
  and the finite `Calls`, `Requests`, `Streams`, `Frames` and `Timers`
  are the only other bounds on counters; runs whose behaviours stop when they are used
  up say `CHECK_DEADLOCK FALSE`.

### 4.2 Fairness

- ConversationChat: weak fairness of each call's own steps. Awaited forwards
  settle, and a consumer either asks for the next token or leaves its loop (both
  `for await` and the worker host do). No fairness for new calls, disposals or unloads.
- WorkerStreams: weak fairness of delivery in each direction, of the engine's
  promises and of its iterators. None for the consumer or for crashes.
- Speculative: weak fairness of the generator's steps, a consumer that resumes or
  leaves included. None for aborts.
- GraphContexts: weak fairness of what each call awaits, of the notifications of the GPU
  and of `shutdown` once the model is disposed of. None for new calls or for failures.
- FrameLoop: weak fairness of tasks (they settle) and of timers (they fire).
- LiveDashboard: weak fairness of reconnecting, of delivery and of a restart after a crash.
  None for posts, cuts, crashes or resets.
- None in the other modules, whose properties are about safety.

### 4.3 Disagreements found

`MCFastPath` is expected to fail: `prepareChatPrompt` records the messages before they are
forwarded, and after a chat whose prefill never ran, or failed, the next one takes the fast
path on a cache that lacks them (engine.ts:1451). `PROJECT.json` quotes what the repository
says of it.

The other disagreements with a document, a comment or a report that the models reach are
listed here and at their hazards, where the text is quoted; the properties are stated around
them and name the exception.

- `fork` may evict its own source when every other entry is locked
  (conversation-pool.ts:119; the comment at 103-106).
- A conversation created while `unloadModel` awaits survives its model (engine.ts:394).
- Decode is not bounded by `maxContextTokens` (engine.ts:999).
- After a worker crash, or a stream error with nothing queued and nobody waiting,
  `next()` reports a normal end (webllm-proxy.ts:511, 539).
- After a bonus token both speculative caches lack the last accepted draft (it is never
  forwarded) and the next partial accept keeps a refused token (speculative.ts:437).
- A load that fails in `_buildInferenceAndRegister` leaves its wasm module up
  (engine.ts:1779; the comments at 1635-1637 and 1793).
- `engine.embed` may overlap a forward on the same context stack, which
  model-inference.ts:3119 leaves to the caller.
- A read whose heap grew is rejected (gpu-data-manager.ts:165; the comment at 164), and an
  oversized buffer freed under recorded dispatches loses the batch.
- The comment at set-rows.ts:437-442 says that a dispatch which writes a buffer that a neighbouring
  dispatch of the same pass reads trips the validator at `encoder.finish()`, and matmul.ts:675-680
  that a buffer must not be read and written in the same compute pass. A pass is the whole batch
  (command-encoder.ts:33-51), and nothing keeps an operator out of the pass of the one whose result
  it reads; only a result in the buffer of an operand of its own is diverted. If the comments were
  right the batch would be lost: with `PassScope = TRUE`, and without the assumption, TLC refutes
  `HandlesAreMemory` in six steps (two operators write one buffer, a third reads it into another
  that they read: all three are lost).
  The WebGPU standard makes each dispatch a scope of its own, and the code works only on such a
  device, so `HandlesAreMemory` is checked and proved under `DispatchScope`.
- A pipeline adopted without `weightBytes` runs and is not counted in the pool (engine.ts:1572), as
  the comment at 1515-1517 says; nor is a model that was evicted behind the engine's back. Both
  are the exception in `OwnersAgree`. The comments at memory-pool.ts:67 and 125 call the
  allocation that goes first the one of the lowest priority; the code takes the one of the
  highest number (137), and so does the model.
- A character's stop between two chats ends the later ones before they begin, and
  `clearHistory` does not reset it (character.ts:161; the comment at 146-149); `setTools`
  during a tool call makes the chat throw (the comment at 295-296).
- At temperature 0 without penalty the argmax is taken on the GPU and none of the masks
  apply, so a text may end in a think block or before an answer (generation.ts:426; the
  comments at 66-75). A first token that is a stop token is handed over and generation
  goes on. The limit of a string prompt's session counts the prompt
  (inference-session.ts:89, engine.ts:697).
- The tables of the live server are loaded oldest first up to 5000, so that a restart
  forgets the newest records of a larger one (live-db.ts:131; live-events.ts:210-211).
- A snapshot leaves the sessions of a dashboard as they are, and one whose end was missed
  stays active (dashboard.js:155; the comment at 279-280); the server compares a
  `Last-Event-ID` of an earlier process with its own numbers (live-server.ts:785;
  live-events.ts:213-214).
- A load leaves the engine before it running, with its worker and its memory: the page's engine
  is a `WebLLMProxy`, which has `dispose` and no `shutdown`, so that `engine.shutdown?.()` does
  nothing (chat-page.js:52), where the comment at 41 says that any prior engine is disposed of.
  Its turn goes on and is saved, under the name of the new model if that is loaded by then
  (models are not in the model). When a turn has ended and its export waits on the old engine,
  another model is loaded and the conversation cleared, the answer puts the blob back behind the
  delete, without metadata (chat-page.js:276-285, chat-persistence.js:56-58): `ClearedIsGone`
  excepts a clear that finds such an export; without the exception TLC finds this.
- A turn that fails leaves its question in the saved history (chat-conversation.js:98), a
  change of the model keeps the conversation of the engine left behind (chat-page.js:112),
  and Send is enabled again after a turn whatever has become of the model (367); the
  page's design says otherwise (2026-05-03-chat-page-design.md:254-255, 309-310, 316-318).
- Entries of equal rank leave the BPE heap in no order of their own, so that a run of one
  character is split otherwise than by llama.cpp (tokenizer.ts:109), and `encodeSpm` lacks
  the check of a popped entry's rank that `encodeBpe` has (831);
  2026-05-05-tier3-llama-decode-migration-design.md:257-258 asks for identical output.
- An interrupted consumer drains its queue (stream-router.ts:84; the comment at 121).
- A shared cell counts once per sequence, so that more than the whole ring may be in use
  (kv-cache.ts:148; the comment at 224), and `hasPromptCache` counts cells, so that a position
  held twice stands for one that is missing (174; the comment at 160-161).

## 5. What is proved

Every theorem is of the form `Spec => []P` or `Spec => [][A]_vars`, for all values of
the constants that the module's named assumption allows, or a refinement `Spec =>
Abstract!Spec`, and follows one line: an inductive invariant, the proof that `Init`
establishes it, the proof that each action keeps it (one step per action, one sub-step
per conjunct that the action can disturb), and a temporal step. A refinement adds that
initial states map to initial states and every step to a step or a stutter. The
strengthened invariants were checked on the instances of section 4 before they were
proved. The assumptions (`PoolAssumption`, `ChatAssumption`, `WorkerAssumption`,
`SpeculativeAssumption`, `SessionAssumption`, `ContextAssumption`,
`GenerationAssumption`, `LoadAssumption`, `RingAssumption`, `RouterAssumption`,
`FrameAssumption`, `PageAssumption`, `LiveAssumption`, `JsepAssumption`) only type the constants,
and ask that an operator has the operands its dispatch demands, a batch holds a message, a burst two drafts, a prompt one token, a list one
message, the scheduler one slot, the ring one cell, the memory budget and a model's file one
byte: the code's own preconditions or defaults. Eight of them
keep apart what the models write side by side: `RouterAssumption` and `FrameAssumption`
say that the markers for nothing and for the end are no values, consumers, tasks or
timers, `MarkerAssumption` says that the marker for "no snapshot" is neither a list of
tokens nor a snapshot, `SessionAssumption` that the entry for a sampled token is not a
message, `LoadAssumption` that the marker for no model to spare is not a model, `PageAssumption` that the
marker for nothing is no load, send, clear or id, `LiveAssumption` that runs, evals, sessions
and the marker for no session differ, `JsepAssumption` that the size above all buckets is not a
bucket. One speaks of the world: `DispatchScope`, that the GPU looks for a buffer that is read and
written in each dispatch and not in the pass (4.3). No set is assumed finite.

- **ConversationPoolProofs** (`PoolAssumption`). `IdsIssued`: ids in use, held by a
  call or disposed lie below `nextId`; it makes a new entry different from whatever a stale
  closure names. With it `SingleWriter` (at most one call believes that it has a
  conversation, and the entry says so) and `InUseKept` (an entry that a
  call holds goes only by its owner or with its model) are inductive.
  `RecencyTotal` needs that every ordinal is at most `accessCounter`. `Capacity` and `NeverRevived` follow.
  The same invariant gives the refinement, `ImplementsLru`: since ordinals are distinct, the entry
  with the smallest one among the idle is the member of `LruSet` that is older than all the
  others, and an ordinal above all others is a move to the end of the order.
- **ConversationChatProofs** (`ChatAssumption`). Order and exclusion on the promise
  chain. `OneInside` alone is not inductive: that a caller who waits finds
  the cache free when it is resumed depends on whom it waits for. The invariant
  `OrderInv` adds that arrival tickets are distinct, that the tail is the last call to have arrived
  among those not finished, and that whoever is behind a call waits for one that arrived
  between the two. `TypeInv` ties a locked conversation to one call.
  `ContextsAreOwn` rests on `OneInside` and on two more invariants. `HeldInv`: an open call's
  conversation was created, is locked by that call alone, and is gone once the model is being
  unloaded under a call that is inside. `ContextInv`: while the model is loaded, the call inside is
  where its phase says (`Placed`: the session's position, `nCached`, how many tokens are prefilled
  or generated), the slots below its length hold its own prompt and reply (`HoldsOwn`), and each
  snapshot's bytes are what its ids say. It is proved under `KvRoom` (the buffers hold every
  admitted prompt and its reply), which `ContextsAreOwn` states as its hypothesis, because decode
  has no bound of its own (section 4.3). `SharedLenAgrees` and `WrittenContinues` are the two
  lemmas on data: what the prefix match finds equal is equal, and a write at the end of a prefix
  extends it. `ImplementsIsolationHolds`, again under `KvRoom`, maps the turn of a conversation to
  the prompt of the one call that holds it (`HeldInv`) and its history to the bytes of its
  snapshot (`ContextInv`): `ChatBegin` is a question, `SaveDone` an answer, every other end gives
  up, and all that happens between them is invisible.
- **WorkerStreamsProofs** (`WorkerAssumption`). `AnswerInv`: what is under way for
  a request (its call in `toWorker`, the engine's promise, its answer in `toProxy`)
  totals at most one, exactly one while it is pending, none before it is
  made. `CallbackInv`: a stream not started, or released, has no entry through
  which a callback could run. `CancelInv`: the start message precedes the cancel
  on the channel, so that the cancel finds the host's controller. `StreamsDeliver` needs
  `DeliveryInv`, over the whole path of a chunk: what the consumer has, what the entry queues, what
  the channel carries (`Joined` of the batches in `toProxy`) and what the host buffers are, in this
  order, the chunks made so far, as long as there is an entry to take them (`PageSide`); a stream is
  started once, its end is the last message about it, and nothing is buffered at its end (`HostSide`). `Joined` is a recursive function on the length of the channel; its two
  laws (a message put at the end, a message taken from the front) are proved by a least counterexample.
- **SpeculativeProofs** (`SpeculativeAssumption`). `CacheInv`: at every point of the
  generator the two caches have the same positions up to `pastLen`, and
  `Ahead` bounds by phase how far each runs past it. `OwnInv`, for
  `CacheIsOwnText`, which claims nothing once a bonus token has been added (after it the cache may
  keep a refused token, 4.3), says that up to the first bonus token the target holds the prompt and the text
  slot by slot, all but its last token, where the tokens that a verdict has found and not yet handed
  out are part of the text. `TextInv` carries the
  refinement of `TokenStream`: what is emitted and still to be emitted fits the
  budget and stops at the first stop token.
- **ModelSessionProofs** (`SessionAssumption`). `PositionsMatch` speaks of the moment
  of a forward; `LoneInv` says what holds in every phase of a lone call: nobody else is
  under way, the model's session is the one it prepared, and the cache has grown with
  the session's position (within a prefill, by the tiles that are done). It needs
  nothing of the calls before, since the fast path compares position and length and the
  other path resets both. `KnownInv` (what lone chats wrote belongs to the messages
  recorded) gives `NoForeignContext`. `ContextIsComplete` needs
  `SaidInv`: as long as no call has ended before its prefill was complete, what is cached together
  with what a lone call has still to forward says its list of messages (`Says`: each once and in
  order), and what is cached at rest says the list that the session records, wherever the session's
  position is the cache's length; `BegunInv` and `SizeInv` rule out a session that records messages
  and has not moved. `HistoryInv` (on an unmixed cache the history
  covers the position, by one more while a decode is awaited) gives
  `DecodeWithinSession`.
- **GraphContextsProofs** (`ContextAssumption`, `JsepAssumption`, `DispatchScope`). Contexts. `Holding` counts the calls that hold a
  context; `LifeInv` says what lies at the bottom in each phase of the model's life and
  that the rest of the stack has `Holding` members, which is `StackAccounted`. `BufInv` and
  `FreshInv` (a call that has not begun owns nothing) give `BuffersAccounted`; the two are
  `MemoryAccounted`. `AloneOnItsOwn`
  needs that calls begin in order (`BegunInv`), that at most one active call is alone
  (`AloneInv`), and that a lone one is on top (`OwnInv`), which holds at
  its build whatever was left below.
  JSEP. `TablesInv` is `OneOwner` and what it needs to last: nothing lies twice in a bucket, and
  what is alive is older than the next handle, so that a buffer that is made is new. `BatchInv`:
  as long as no buffer was lost, the queue will accept the batch. What a batch leaves
  (`Left`) is a recursive function of it, with three laws that are proved by a least
  counterexample: no dispatch, no change; one dispatch more runs on what the others leave
  (`QueueAppend`), so that it does not show whether an operator is recorded, flushes the batch or
  comes after the flush; and a batch neither sees nor changes a buffer that it does not use
  (`QueueElsewhere`), so that a buffer can be made while dispatches wait. `DivertedIs` says that a
  diverted run leaves what the kernel would have left in place. With one handle to a buffer, each
  call then changes the memory of its own handle and of no other (`Show...`, one lemma for each
  action), and `HandlesHold` follows. `RuntimeTypes` adds the flags and that a batch is never over-full.
- **ApplicationProofs** (`RouterAssumption`, `FrameAssumption`, `PageAssumption`; the theorems
  about Character need none). Character. `OverlapInv`: two chats that stream have overlapped.
  `HaltInv`: a chat that was streaming at a stop and has not been overlapped finds the flag
  down. `LastInv`: while a lone chat is under way its question is the last message. They
  give `StopTakesEffect` and `TurnsPaired`; `ActiveIsStreaming` is inductive.
  Router. `RouterInv` says of each consumer that what it was given, is about to be given and
  has queued is 1, 2, ... up to some number (`Fits`: the number emitted, unless it was cut
  off), and that a consumer that was cut off is closed and one whose promise waits has
  nothing (`Settled`); a value only moves from one stage to the next (`StageTaken`), so that
  `ConsumersAreServed` follows. Scheduler. `RunningIsExecuting` is not inductive alone: that
  a frame which goes on deletes no other task's entry needs that a task executes in one frame
  and that what is queued neither executes nor was aborted (`PlacesApart`), and that tasks of
  one id that execute together have been noted (`ReuseNoted`). `Matches` is what holds in the
  middle of `TaskSettles`, after the entry is deleted and before the next task starts.
  Chat page. `OwnerInv`: a request or a write that is waited for finds its sender waiting for it,
  and each sender waits for one at most, so that no answer reaches a turn of another life of the
  send. `TurnInv`: a conversation that is not odd alternates, and ends with a question exactly
  while the one turn in it is under way (`ConvRight`); two turns of one conversation are marked as
  mixed; what is saved, offered or restored has its answers. `SavedIsAnswered` is the last part.
  None of this depends on which engine is the page's, so that an engine left behind by a load may
  go on with its turns. `ClearInv` carries `ClearedIsGone`: a conversation that was made lives in an engine whose load
  was done (`MadeRight`), and whatever is exported behind the disposal of the page's conversation
  is that conversation (`OrderRight`); so once it is disposed of, and no other engine has one of its
  own yet to export, every export under way finds it gone (`ExportsDead`), and the last write under way, or the
  blob when there is none, is the deletion (`LastGone`).
- **EnginePartsProofs** (`GenerationAssumption`, `LoadAssumption`, `RingAssumption`,
  `LiveAssumption`).
  Generation. `StepKinds` sorts the steps: nothing is
  sampled, or a token is sampled that is out of place, that breaks the loop, or that is handed
  over. `EndInv` ties `sampledId` to the text. `DepthInv` says that the depth (the
  loop's, or the decoder's) is that of the text, with the lemma `BlockAppend` about what one
  more token does to it; `ThoughtsApart` follows. `AnswerInv` says that an answer is awaited
  exactly from the end of a block to the first visible token (or, in the other style, from
  the start), and the lemmas on candidates say what the masks then exclude;
  `ThinkingThenAnswer` follows. Loads. `LoadAt` says of one load what is known of its module, file,
  entry, record and allocation together: a load that waits for its hash has its entry, unless it
  was removed under it (`early`), and what is recorded, counted or being unloaded is over; every
  action keeps it for each load, and `OwnersAgree` follows. `PoolInv` adds that the bytes of the
  pool are finitely many, so that an allocation adds its own (`OneMore`) and a release takes them
  off (`OneLess`); that a model is counted once rests on `LoadAt`. Ring. `Holds(s, n)`: the cells
  of a sequence carry the positions 0 to n - 1, each once. `Writing` shows that the slots that are
  found are as many different empty cells as there are tokens, around the end too (`Around`,
  `RoomThere`); with `HeldCount`, positions continue where the sequence ends. An eviction takes
  exactly the cells of its sequence off the count and leaves those of the others where they are.
  Live dashboard. What a settled dashboard shows says nothing of one that still has events on the
  way, and is not inductive. `AgreeInv` speaks of every dashboard that listens and was not passed
  over, by what it will show once it has handled its queue: whether a job is listed is what the
  last event says that speaks of it, or what is shown if none does (`ListedRight`); what was
  started and is not ended behind that is in flight (`RunningRight`); the progress of an eval
  comes to its tasks by counting those behind its start, or on top of what is shown
  (`ProgressRight`). `Handled` says of a handler what these three need to know, `ToldMore` and
  `ToldLess` that one event more or less in the queue keeps them if it says what the server does
  (`Tells`), and `ToldAnew` that a queue that ends with a snapshot makes up for everything
  before it. A greeting always ends so, because the snapshot is an event of the buffer itself
  (`Stamped`, `GreetingIs`): the replay, which is older than the snapshot that it follows, is
  undone by the copy of it at the end. `DashboardsAgree` is what is left with an empty queue.
  `HistoryKept` holds of what was acknowledged because it is in the tables (`HistoryInv`), as
  long as a table is not longer than what is loaded (`TablesFit`, the theorem's hypothesis:
  above it the newest records are left out, section 4). `ReplaysRight` rests on `NumbersInv`.

Out of the prover's reach: liveness under
fairness (every chat and pass ends, requests settle, nobody waits for ever, queued tasks
start, generation terminates, finished work arrives), ENABLED, and
induction over data, which is what the properties of `TokenMerges` would need: it alone
declares RECURSIVE operators (the heap, the walk along the list, the reference definition).
The other models use recursive functions. The library's
induction theorems take an operator and cannot be instantiated; an induction over numbers is
done by way of a least counterexample (`WorkerStreamsProofs`, `GraphContextsProofs`), which needs a
recursive function: a RECURSIVE operator or a fold it does not reach.

## 6. What is not modelled, and why

- *Not used by the engine*: the stream router is exported and called by nothing in `src/src`,
  and the KV ring is made once per entry and none of its operations is called; both are
  modelled as their callers in the tests use them. The cache in use is that of `ModelInference`.
- *Abstracted in what is modelled*: logits, probabilities and sampling (a
  sampled token is any token the masks leave); the text of messages and chat templates (prompts
  are token sequences); attention and the arithmetic of graphs and kernels (a slot is the token
  and position written to it, a kernel a function of its operands); the init handshake of the
  worker and the serialisation of errors; in JSEP the checks of shapes and types, which refuse
  without a change of state, the pipeline cache and the uniform buffers; the fetch of a model
  with its retries; the text of tool calls and the trimming of a character's prompt.
- *External*: the WebGPU device and its queue (ordered, validating), `WebAssembly.Memory`.
- *Pure and sequential*: of the tokenizers everything but the merge loops (pre-tokenizing, byte
  encoding, ids, WordPiece, decoding), the templates, the GGUF parser, the sampler and its
  profiles and the persistence codec keep no state between calls, and their unit tests reach
  what they do.
- *Of the pages*: rendering, metrics, settings, the score chart with its cache of points (dashboard.js:2264),
  other charts and their hints, system profiles, the
  checks of what is posted, the endpoints for reports, and the chat page's catalogue.
- *Scripts*: the evaluation harness, the benchmark pages and drivers and the probes run one
  measurement after the other over the public API. They are more than a third of the
  repository's code.

Of the engine itself (24,034 lines under `src/src`) about a quarter is mapped; most of the rest
is shaders, numerics, parsing, types and comments.
