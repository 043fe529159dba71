----------------------------- MODULE WorkerStreams -----------------------------
(***************************************************************************)
(* The worker facade: WebLLMProxy on the page (core/webllm-proxy.ts), the  *)
(* worker host (core/webllm-worker-host.ts) and the two ordered message    *)
(* queues between them.  A request is one method call, a stream one        *)
(* chatCompletion or generateStream; ids are never used twice.  The proxy  *)
(* is modelled from the end of its init on.  A chunk is its number in the  *)
(* stream.  The engine behind the host is external: a method call ends in  *)
(* a value or an error, an iterator yields up to MaxChunks chunks and ends *)
(* or throws.                                                              *)
(***************************************************************************)
EXTENDS Naturals, Sequences, FiniteSets

CONSTANTS
    Requests,   \* method calls
    Streams,    \* calls of a streaming method
    MaxChunks,  \* bound on the chunks of a stream
    BatchMax    \* BATCH_MAX_CHUNKS

ASSUME WorkerAssumption ==
    /\ MaxChunks \in Nat
    /\ BatchMax \in Nat \ {0}

VARIABLES
    disposed,  \* handleCrash has run: the proxy is disposed, the worker terminated
    pending,   \* ids in the proxy's map of requests
    promise,   \* per request: the promise its caller holds
    entry,     \* the proxy's map of streams: a function on the ids it holds
    consumer,  \* per stream: the for-await loop that reads it, and what it got
    cancelled, \* per stream: the flag of its cancel closure
    fired,     \* history: chunks for which onToken or onThinking was invoked
    toWorker,  \* messages posted by the proxy
    toProxy,   \* messages posted by the host
    serving,   \* requests the host has handed to the engine
    host       \* per stream: the host's loop

vars == <<disposed, pending, promise, entry, consumer, cancelled, fired,
          toWorker, toProxy, serving, host>>

proxyVars  == <<pending, promise>>
streamVars == <<entry, consumer, cancelled, fired>>
hostVars   == <<serving, host>>

Chunks    == 1 .. MaxChunks
ToWorker  == [type: {"method-call"}, id: Requests]
             \cup [type: {"stream-start", "stream-cancel"}, id: Streams]
ToProxy   == [type: {"method-result", "method-error"}, id: Requests]
             \cup [type: {"stream-done", "stream-error"}, id: Streams]
             \cup [type: {"stream-chunks"}, id: Streams, chunks: Seq(Chunks) \ {<<>>}]
Entry     == [queue: Seq(Chunks), errored: BOOLEAN, done: BOOLEAN, released: BOOLEAN]
Consumer  == [state: {"idle", "refused", "ready", "waiting", "ended", "failed", "left"},
              got: Seq(Chunks)]
HostLoop  == [state: {"idle", "running", "done", "error"}, aborted: BOOLEAN,
              made: 0 .. MaxChunks, buffer: Seq(Chunks)]

TypeOK ==
    /\ disposed \in BOOLEAN
    /\ pending \subseteq Requests /\ serving \subseteq Requests
    /\ promise \in [Requests -> {"new", "open", "resolved", "rejected"}]
    /\ DOMAIN entry \subseteq Streams /\ entry \in [DOMAIN entry -> Entry]
    /\ consumer \in [Streams -> Consumer]
    /\ cancelled \in [Streams -> BOOLEAN]
    /\ fired \in [Streams -> Seq(Chunks)]
    /\ toWorker \in Seq(ToWorker)
    /\ toProxy \in Seq(ToProxy)
    /\ host \in [Streams -> HostLoop]

Init ==
    /\ disposed = FALSE
    /\ pending = {} /\ serving = {}
    /\ promise = [r \in Requests |-> "new"]
    /\ entry = [s \in {} |-> 0]
    /\ consumer = [s \in Streams |-> [state |-> "idle", got |-> <<>>]]
    /\ cancelled = [s \in Streams |-> FALSE]
    /\ fired = [s \in Streams |-> <<>>]
    /\ toWorker = <<>> /\ toProxy = <<>>
    /\ host = [s \in Streams |-> [state |-> "idle", aborted |-> FALSE,
                                  made |-> 0, buffer |-> <<>>]]

-----------------------------------------------------------------------------
Message(type, id) == [type |-> type, id |-> id]
Batch(s, chunks)  == [type |-> "stream-chunks", id |-> s, chunks |-> chunks]

\* A message to a terminated worker goes nowhere.
Post(m) == toWorker' = IF disposed THEN toWorker ELSE Append(toWorker, m)

\* The head of a queue is delivered; messages stay in order.
ToHost(type, id) ==
    /\ toWorker # <<>> /\ Head(toWorker) = Message(type, id)
    /\ toWorker' = Tail(toWorker)

FromHost(type, id) ==
    /\ toProxy # <<>> /\ Head(toProxy).type = type /\ Head(toProxy).id = id
    /\ toProxy' = Tail(toProxy)

Without(s) == [t \in DOMAIN entry \ {s} |-> entry[t]]

-----------------------------------------------------------------------------
(* Requests.                                                               *)

\* callMethod; postMessage throws when an argument cannot be cloned.
Call(r) ==
    /\ promise[r] = "new"
    /\ \/ /\ ~disposed
          /\ pending' = pending \cup {r}
          /\ promise' = [promise EXCEPT ![r] = "open"]
          /\ Post(Message("method-call", r))
       \/ /\ promise' = [promise EXCEPT ![r] = "rejected"]
          /\ UNCHANGED <<pending, toWorker>>
    /\ UNCHANGED <<disposed, streamVars, toProxy, hostVars>>

HostCall(r) ==
    /\ ToHost("method-call", r)
    /\ serving' = serving \cup {r}
    /\ UNCHANGED <<disposed, proxyVars, streamVars, toProxy, host>>

\* The engine's promise settles.
HostReply(r) ==
    /\ r \in serving /\ ~disposed
    /\ serving' = serving \ {r}
    /\ \E type \in {"method-result", "method-error"} :
           toProxy' = Append(toProxy, Message(type, r))
    /\ UNCHANGED <<disposed, proxyVars, streamVars, toWorker, host>>

Settled(r) == pending \ {r}

Reply(r) ==
    /\ \/ /\ FromHost("method-result", r)
          /\ promise' = IF r \in pending THEN [promise EXCEPT ![r] = "resolved"] ELSE promise
       \/ /\ FromHost("method-error", r)
          /\ promise' = IF r \in pending THEN [promise EXCEPT ![r] = "rejected"] ELSE promise
    /\ pending' = Settled(r)
    /\ UNCHANGED <<disposed, streamVars, toWorker, hostVars>>

-----------------------------------------------------------------------------
(* Streams, on the page.                                                   *)

NewEntry == [queue |-> <<>>, errored |-> FALSE, done |-> FALSE, released |-> FALSE]

Becomes(s, state) == consumer' = [consumer EXCEPT ![s].state = state]

\* Mutant: a consumer that waits is left to wait.
WakeNobody(s, state) == UNCHANGED consumer

\* A consumer that waits for a chunk learns that there is none.
Wake(s, state) ==
    IF consumer[s].state = "waiting" THEN Becomes(s, state) ELSE UNCHANGED consumer

\* startStream.  On a disposed proxy the iterator throws; when postMessage
\* throws, so does startStream, and the entry stays in the map.
StartStream(s) ==
    /\ consumer[s].state = "idle"
    /\ \/ /\ ~disposed
          /\ entry' = [t \in DOMAIN entry \cup {s} |-> IF t = s THEN NewEntry ELSE entry[t]]
          /\ \/ Becomes(s, "ready") /\ Post(Message("stream-start", s))
             \/ Becomes(s, "refused") /\ UNCHANGED toWorker
       \/ /\ disposed
          /\ Becomes(s, "refused")
          /\ UNCHANGED <<entry, toWorker>>
    /\ UNCHANGED <<disposed, proxyVars, cancelled, fired, toProxy, hostVars>>

\* Mutant: the callbacks are not released.
AbortEntryLeaky(e) == [e EXCEPT !.errored = TRUE]

\* cancel on the stream's entry.
AbortEntry(e) == [e EXCEPT !.errored = TRUE, !.released = TRUE]

\* The user's AbortSignal fires.  A consumer that waits fails at once.
Abort(s) ==
    /\ consumer[s].state \notin {"idle", "refused"} /\ ~cancelled[s]
    /\ cancelled' = [cancelled EXCEPT ![s] = TRUE]
    /\ Post(Message("stream-cancel", s))
    /\ IF s \in DOMAIN entry
       THEN /\ entry' = [entry EXCEPT ![s] = AbortEntry(@)]
            /\ Wake(s, "failed")
       ELSE UNCHANGED <<entry, consumer>>
    /\ UNCHANGED <<disposed, proxyVars, fired, toProxy, hostVars>>

Got(s, chunk) == consumer' = [consumer EXCEPT ![s].state = "ready", ![s].got = Append(@, chunk)]

\* Mutant: the error is looked at before the queue.
ErrorFirst(e) == e.errored

\* An error waits until the queue has been drained.
ErrorDue(e) == e.queue = <<>> /\ e.errored

\* next()
NextChunk(s) ==
    /\ consumer[s].state = "ready"
    /\ \/ /\ s \notin DOMAIN entry
          /\ Becomes(s, "ended")
          /\ UNCHANGED entry
       \/ /\ s \in DOMAIN entry /\ ErrorDue(entry[s])
          /\ entry' = Without(s)
          /\ Becomes(s, "failed")
       \/ /\ s \in DOMAIN entry /\ ~ErrorDue(entry[s]) /\ entry[s].queue # <<>>
          /\ entry' = [entry EXCEPT ![s].queue = Tail(@)]
          /\ Got(s, Head(entry[s].queue))
       \/ /\ s \in DOMAIN entry /\ entry[s].queue = <<>> /\ ~entry[s].errored
          /\ IF entry[s].done THEN Becomes(s, "ended") /\ entry' = Without(s)
                              ELSE Becomes(s, "waiting") /\ UNCHANGED entry
    /\ UNCHANGED <<disposed, proxyVars, cancelled, fired, toWorker, toProxy, hostVars>>

\* return(): the consumer breaks out of its loop.
Return(s) ==
    /\ consumer[s].state = "ready"
    /\ entry' = Without(s)
    /\ Becomes(s, "left")
    /\ cancelled' = [cancelled EXCEPT ![s] = TRUE]
    /\ IF cancelled[s] THEN UNCHANGED toWorker ELSE Post(Message("stream-cancel", s))
    /\ UNCHANGED <<disposed, proxyVars, fired, toProxy, hostVars>>

\* throw(): the entry goes, the host is not told.
Throw(s) ==
    /\ consumer[s].state = "ready"
    /\ entry' = Without(s)
    /\ Becomes(s, "left")
    /\ UNCHANGED <<disposed, proxyVars, cancelled, fired, toWorker, toProxy, hostVars>>

-----------------------------------------------------------------------------
(* Streams, in the worker.                                                 *)

HostStart(s) ==
    /\ ToHost("stream-start", s)
    /\ host' = [host EXCEPT ![s].state = "running"]
    /\ UNCHANGED <<disposed, proxyVars, streamVars, toProxy, serving>>

\* Mutant: the controller is looked up and not aborted.
HostAbortIgnored(s) == host[s]

HostAbort(s) == [host[s] EXCEPT !.aborted = (host[s].state = "running")]

\* A cancel for a stream that is over finds no controller.
HostCancel(s) ==
    /\ ToHost("stream-cancel", s)
    /\ host' = [host EXCEPT ![s] = HostAbort(s)]
    /\ UNCHANGED <<disposed, proxyVars, streamVars, toProxy, serving>>

\* Mutant: the batch is posted and not cleared.
RestKept(buffer) == buffer

\* What flush leaves in the buffer.
Rest(buffer) == <<>>

Flushed(s, buffer) == IF buffer = <<>> THEN toProxy ELSE Append(toProxy, Batch(s, buffer))

\* A chunk of a stream that is not aborted; a full batch is flushed, any other
\* when 16 ms have passed.
HostYield(s) ==
    LET chunk  == host[s].made + 1
        buffer == Append(host[s].buffer, chunk)
    IN  /\ host[s].state = "running" /\ ~host[s].aborted /\ ~disposed
        /\ chunk \in Chunks
        /\ \/ /\ Len(buffer) < BatchMax
              /\ host' = [host EXCEPT ![s].made = chunk, ![s].buffer = buffer]
              /\ UNCHANGED toProxy
           \/ /\ host' = [host EXCEPT ![s].made = chunk, ![s].buffer = Rest(buffer)]
              /\ toProxy' = Flushed(s, buffer)
        /\ UNCHANGED <<disposed, proxyVars, streamVars, toWorker, serving>>

\* The engine's iterator ends or throws, or the loop leaves it at the first
\* chunk after an abort.
HostEnd(s) ==
    /\ host[s].state = "running" /\ ~disposed
    /\ \E end \in {"done", "error"} :
           /\ host' = [host EXCEPT ![s].state = end, ![s].buffer = Rest(host[s].buffer)]
           /\ toProxy' = Append(Flushed(s, host[s].buffer),
                                Message(IF end = "done" THEN "stream-done" ELSE "stream-error", s))
    /\ UNCHANGED <<disposed, proxyVars, streamVars, toWorker, serving>>

-----------------------------------------------------------------------------
(* Streams, back on the page.                                              *)

\* invokeStreamCallbacks, then the oldest waiter or the queue, chunk by chunk.
ProxyChunks(s) ==
    LET chunks == Head(toProxy).chunks
    IN  /\ FromHost("stream-chunks", s)
        /\ IF s \notin DOMAIN entry
           THEN UNCHANGED <<entry, consumer, fired>>
           ELSE /\ fired' = IF entry[s].released THEN fired ELSE [fired EXCEPT ![s] = @ \o chunks]
                /\ IF consumer[s].state = "waiting"
                   THEN /\ Got(s, Head(chunks))
                        /\ entry' = [entry EXCEPT ![s].queue = @ \o Tail(chunks)]
                   ELSE /\ entry' = [entry EXCEPT ![s].queue = @ \o chunks]
                        /\ UNCHANGED consumer
        /\ UNCHANGED <<disposed, proxyVars, cancelled, toWorker, hostVars>>

\* The entry of a closed stream stays until its queue has been drained.
Closed(s, e) == IF e.queue = <<>> THEN Without(s) ELSE [entry EXCEPT ![s] = e]

ProxyEnd(s) ==
    /\ \/ /\ FromHost("stream-done", s)
          /\ IF s \notin DOMAIN entry THEN UNCHANGED <<entry, consumer>>
             ELSE /\ entry' = Closed(s, [entry[s] EXCEPT !.done = TRUE, !.released = TRUE])
                  /\ Wake(s, "ended")
       \/ /\ FromHost("stream-error", s)
          /\ IF s \notin DOMAIN entry THEN UNCHANGED <<entry, consumer>>
             ELSE /\ entry' = Closed(s, [entry[s] EXCEPT !.errored = TRUE, !.released = TRUE])
                  /\ Wake(s, "failed")
    /\ UNCHANGED <<disposed, proxyVars, cancelled, fired, toWorker, hostVars>>

-----------------------------------------------------------------------------
\* Mutant: the requests in flight are forgotten.
RejectedNone == promise

Rejected == [r \in Requests |-> IF r \in pending THEN "rejected" ELSE promise[r]]

\* handleCrash, on an error event of the worker or from dispose.  terminate
\* drops what is in the queues.
Crash ==
    /\ ~disposed
    /\ disposed' = TRUE
    /\ promise' = Rejected
    /\ pending' = {}
    /\ consumer' = [s \in Streams |-> IF consumer[s].state = "waiting"
                                     THEN [consumer[s] EXCEPT !.state = "failed"] ELSE consumer[s]]
    /\ entry' = [s \in {} |-> 0]
    /\ toWorker' = <<>> /\ toProxy' = <<>>
    /\ UNCHANGED <<cancelled, fired, hostVars>>

HostReceives  == \/ \E r \in Requests : HostCall(r)
                 \/ \E s \in Streams : HostStart(s) \/ HostCancel(s)

ProxyReceives == \/ \E r \in Requests : Reply(r)
                 \/ \E s \in Streams : ProxyChunks(s) \/ ProxyEnd(s)

Consumes(s) == StartStream(s) \/ Abort(s) \/ NextChunk(s) \/ Return(s) \/ Throw(s)

Next ==
    \/ HostReceives \/ ProxyReceives \/ Crash
    \/ \E r \in Requests : Call(r) \/ HostReply(r)
    \/ \E s \in Streams : Consumes(s) \/ HostYield(s) \/ HostEnd(s)

Spec == Init /\ [][Next]_vars

\* postMessage delivers, the engine's promises settle and its iterators end.
Fairness ==
    /\ WF_vars(HostReceives) /\ WF_vars(ProxyReceives)
    /\ \A r \in Requests : WF_vars(HostReply(r))
    /\ \A s \in Streams : WF_vars(HostYield(s) \/ HostEnd(s))

FairSpec == Spec /\ Fairness

-----------------------------------------------------------------------------
Posted(type, id) == \E k \in DOMAIN toWorker : toWorker[k] = Message(type, id)

Started(s) == consumer[s].state \notin {"idle", "refused"}

Upto(n) == [k \in 1 .. n |-> k]

\* The sequences of a list one after the other.
Joined(pieces) ==
    LET upto[n \in 0 .. Len(pieces)] == IF n = 0 THEN <<>> ELSE upto[n - 1] \o pieces[n]
    IN  upto[Len(pieces)]

ChunksOf(s, m) == IF m.type = "stream-chunks" /\ m.id = s THEN m.chunks ELSE <<>>

\* The chunks of s in the messages on their way to the proxy.
UnderWay(s) == Joined([k \in DOMAIN toProxy |-> ChunksOf(s, toProxy[k])])

\* No chunk is lost, doubled or put out of order between the engine's iterator
\* and the consumer, across the host's batches, the channel and the proxy's
\* queue, whether or not the stream was aborted, ended or failed meanwhile.
NothingLost ==
    \A s \in DOMAIN entry : Started(s) =>
        consumer[s].got \o entry[s].queue \o UnderWay(s) \o host[s].buffer
            = Upto(host[s].made)

\* A consumer that sees the end of its stream, or an error, has all the chunks
\* the engine yielded before, unless it aborted the stream or the worker died.
EndIsComplete ==
    \A s \in Streams :
        consumer[s].state \in {"ended", "failed"} /\ ~cancelled[s] /\ ~disposed =>
            /\ host[s].state \in {"done", "error"}
            /\ consumer[s].got = Upto(host[s].made)

\* The two together: a stream delivers its chunks, each once, and its end comes after them.
StreamsDeliver == NothingLost /\ EndIsComplete

\* A stream that has been cancelled is aborted in the worker once the cancel has
\* arrived, and is never started after it.
CancelTakesEffect ==
    \A s \in Streams :
        cancelled[s] /\ ~disposed /\ ~Posted("stream-cancel", s) =>
            /\ ~Posted("stream-start", s)
            /\ host[s].state = "running" => host[s].aborted

\* "no onToken/onThinking fires after terminal resolution" (webllm-proxy.ts:212-213):
\* once a stream is aborted, ended, failed or left, no callback of it is invoked.
NoLateCallback ==
    [][\A s \in Streams :
          fired'[s] # fired[s] => ~cancelled[s] /\ consumer[s].state \in {"ready", "waiting"}]_vars

\* How many of the given messages a queue holds.
Carried(queue, messages) == Cardinality({k \in DOMAIN queue : queue[k] \in messages})

Answers(r) == {Message("method-result", r), Message("method-error", r)}

\* An answer is under way for every promise a caller waits on, exactly one, and
\* for no other.
OneAnswerUnderWay ==
    \A r \in Requests :
        /\ promise[r] = "open" <=> r \in pending
        /\ r \in pending =>
              Carried(toWorker, {Message("method-call", r)}) + Carried(toProxy, Answers(r))
              + (IF r \in serving THEN 1 ELSE 0) = 1

\* Every request settles, by an answer or by the crash of the worker.
RequestsSettle == \A r \in Requests : promise[r] = "open" ~> promise[r] \in {"resolved", "rejected"}

\* A consumer that waits for a chunk gets one, or an end, or an error.
NobodyWaitsForEver == \A s \in Streams : consumer[s].state = "waiting" ~> consumer[s].state # "waiting"

\* The two together: nobody on the page's side of the channel is left without an answer.
EverybodyIsAnswered == RequestsSettle /\ NobodyWaitsForEver
=============================================================================
