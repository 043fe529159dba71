-------------------------- MODULE WorkerStreamsProofs --------------------------
(***************************************************************************)
(* Theorems about WorkerStreams, for any requests, streams, chunks and     *)
(* batch size.  Callbacks stop because a released entry is never           *)
(* un-released and a stream without an entry fires nothing; an answer is   *)
(* counted through the two queues; a cancel takes effect because it is     *)
(* posted after the start of its stream and overtakes nothing; the chunks  *)
(* a stream has made are what its consumer has, what is queued for it, on  *)
(* its way and in the buffer, in this order.                               *)
(***************************************************************************)
EXTENDS WorkerStreams, FunctionTheorems, FiniteSetTheorems, SequenceTheorems, TLAPS

USE WorkerAssumption

(***************************************************************************)
(* Queues.                                                                 *)
(***************************************************************************)

LEMMA AppendQueue ==
    ASSUME NEW S, NEW q \in Seq(S), NEW m \in S
    PROVE  /\ Append(q, m) \in Seq(S)
           /\ DOMAIN Append(q, m) = DOMAIN q \cup {Len(q) + 1}
           /\ \A k \in DOMAIN q : Append(q, m)[k] = q[k]
           /\ Append(q, m)[Len(q) + 1] = m
           /\ DOMAIN q = 1 .. Len(q) /\ Len(q) \in Nat
           /\ Len(Append(q, m)) = Len(q) + 1
OBVIOUS

LEMMA TailQueue ==
    ASSUME NEW S, NEW q \in Seq(S), q # <<>>
    PROVE  /\ Tail(q) \in Seq(S)
           /\ Head(q) \in S /\ Head(q) = q[1] /\ 1 \in DOMAIN q
           /\ DOMAIN q = 1 .. Len(q) /\ Len(q) \in Nat \ {0}
           /\ DOMAIN Tail(q) = 1 .. Len(q) - 1
           /\ Len(Tail(q)) = Len(q) - 1
           /\ \A k \in DOMAIN Tail(q) : k + 1 \in DOMAIN q /\ Tail(q)[k] = q[k + 1]
OBVIOUS

\* A queue that gains a message, or loses its first, carries one more, or one
\* less, of the messages asked about.
LEMMA CarriedFinite ==
    ASSUME NEW S, NEW q \in Seq(S), NEW M
    PROVE  /\ IsFiniteSet({k \in DOMAIN q : q[k] \in M})
           /\ Carried(q, M) \in Nat
<1>1. IsFiniteSet(1 .. Len(q)) /\ DOMAIN q = 1 .. Len(q)
  BY FS_Interval
<1>2. {k \in DOMAIN q : q[k] \in M} \in SUBSET (1 .. Len(q))
  BY <1>1
<1>3. QED
  BY <1>1, <1>2, FS_Subset, FS_CardinalityType DEF Carried

LEMMA CarriedAppend ==
    ASSUME NEW S, NEW q \in Seq(S), NEW m \in S, NEW M
    PROVE  Carried(Append(q, m), M) = Carried(q, M) + (IF m \in M THEN 1 ELSE 0)
<1> DEFINE old == {k \in DOMAIN q : q[k] \in M}
           new == {k \in DOMAIN Append(q, m) : Append(q, m)[k] \in M}
<1>1. Carried(q, M) = Cardinality(old) /\ Carried(Append(q, m), M) = Cardinality(new)
  BY DEF Carried
<1>2. IsFiniteSet(old) /\ Cardinality(old) \in Nat
  BY <1>1, CarriedFinite
<1>3. Len(q) + 1 \notin old
  BY AppendQueue
<1>4. new = IF m \in M THEN old \cup {Len(q) + 1} ELSE old
  BY AppendQueue
<1> HIDE DEF old, new
<1>5. Cardinality(old \cup {Len(q) + 1}) = Cardinality(old) + 1
  BY <1>2, <1>3, FS_AddElement
<1>6. QED
  BY <1>1, <1>2, <1>4, <1>5

LEMMA CarriedTail ==
    ASSUME NEW S, NEW q \in Seq(S), q # <<>>, NEW M
    PROVE  Carried(q, M) = Carried(Tail(q), M) + (IF Head(q) \in M THEN 1 ELSE 0)
<1> DEFINE old == {k \in DOMAIN q : q[k] \in M}
           new == {k \in DOMAIN Tail(q) : Tail(q)[k] \in M}
           rest == old \ {1}
           f == [k \in new |-> k + 1]
<1>1. Carried(q, M) = Cardinality(old) /\ Carried(Tail(q), M) = Cardinality(new)
  BY DEF Carried
<1>2. IsFiniteSet(old) /\ Cardinality(old) \in Nat
  BY <1>1, CarriedFinite
<1>3. IsFiniteSet(new) /\ Cardinality(new) \in Nat
  <2>1. Tail(q) \in Seq(S)
    BY TailQueue
  <2>2. QED
    BY <1>1, <2>1, CarriedFinite
<1>4. f \in Bijection(new, rest)
  <2>1. f \in [new -> rest]
    BY TailQueue
  <2>2. \A x, y \in new : f[x] = f[y] => x = y
    BY TailQueue
  <2>3. \A y \in rest : \E x \in new : f[x] = y
    <3>1. SUFFICES ASSUME NEW y \in rest PROVE y - 1 \in new /\ f[y - 1] = y
      OBVIOUS
    <3>2. y \in 2 .. Len(q)
      BY TailQueue
    <3>3. QED
      BY <3>2, TailQueue
  <2>4. QED
    BY <2>1, <2>2, <2>3, Fun_IsBij
<1>5. 1 \in old <=> Head(q) \in M
  BY TailQueue
<1> HIDE DEF old, new, f
<1>6. Cardinality(rest) = Cardinality(new)
  BY <1>3, <1>4, FS_Bijection DEF ExistsBijection
<1>7. Cardinality(rest) = IF 1 \in old THEN Cardinality(old) - 1 ELSE Cardinality(old)
  BY <1>2, FS_RemoveElement
<1>8. QED
  BY <1>1, <1>2, <1>3, <1>5, <1>6, <1>7

(***************************************************************************)
(* Types.                                                                  *)
(***************************************************************************)

LEMMA MessageTypes ==
    /\ \A r \in Requests : /\ Message("method-call", r) \in ToWorker
                           /\ Answers(r) \subseteq ToProxy
    /\ \A s \in Streams : /\ Message("stream-start", s) \in ToWorker
                          /\ Message("stream-cancel", s) \in ToWorker
                          /\ Message("stream-done", s) \in ToProxy
                          /\ Message("stream-error", s) \in ToProxy
                          /\ \A q \in Seq(Chunks) \ {<<>>} : Batch(s, q) \in ToProxy
BY DEF Message, Answers, Batch, ToWorker, ToProxy

\* A post leaves a queue of messages.
LEMMA PostType ==
    ASSUME TypeOK, NEW m \in ToWorker, Post(m)
    PROVE  toWorker' \in Seq(ToWorker)
<1>1. toWorker \in Seq(ToWorker)
  BY DEF TypeOK
<1>2. QED
  BY <1>1, AppendQueue DEF Post

\* So does a delivery.
LEMMA ShiftTypes ==
    ASSUME TypeOK
    PROVE  /\ toWorker # <<>> => Tail(toWorker) \in Seq(ToWorker) /\ Head(toWorker) \in ToWorker
           /\ toProxy # <<>> => Tail(toProxy) \in Seq(ToProxy) /\ Head(toProxy) \in ToProxy
<1>1. toWorker \in Seq(ToWorker) /\ toProxy \in Seq(ToProxy)
  BY DEF TypeOK
<1>2. QED
  BY <1>1, TailQueue

LEMMA InitTypes == Init => TypeOK
<1>1. SUFFICES ASSUME Init PROVE TypeOK
  OBVIOUS
<1>2. [state |-> "idle", aborted |-> FALSE, made |-> 0, buffer |-> <<>>] \in HostLoop
  BY DEF HostLoop
<1>3. [state |-> "idle", got |-> <<>>] \in Consumer
  BY DEF Consumer
<1>4. DOMAIN entry = {} /\ entry \in [DOMAIN entry -> Entry]
  BY <1>1 DEF Init
<1>5. fired \in [Streams -> Seq(Chunks)] /\ cancelled \in [Streams -> BOOLEAN]
  BY <1>1 DEF Init
<1>6. consumer \in [Streams -> Consumer] /\ host \in [Streams -> HostLoop]
  BY <1>1, <1>2, <1>3 DEF Init
<1>7. toWorker \in Seq(ToWorker) /\ toProxy \in Seq(ToProxy)
  BY <1>1 DEF Init
<1>8. QED
  BY <1>1, <1>4, <1>5, <1>6, <1>7 DEF Init, TypeOK

LEMMA RequestTypes ==
    ASSUME TypeOK, NEW r \in Requests, Call(r) \/ HostCall(r) \/ HostReply(r) \/ Reply(r)
    PROVE  TypeOK'
<1>1. CASE Call(r)
  <2>1. toWorker' \in Seq(ToWorker)
    BY <1>1, PostType, MessageTypes DEF Call, TypeOK
  <2>2. QED
    BY <1>1, <2>1 DEF TypeOK, Call, streamVars, hostVars
<1>2. CASE HostCall(r)
  <2>1. toWorker' \in Seq(ToWorker)
    BY <1>2, ShiftTypes DEF HostCall, ToHost
  <2>2. QED
    BY <1>2, <2>1 DEF TypeOK, HostCall, proxyVars, streamVars
<1>3. CASE HostReply(r)
  <2>1. toProxy' \in Seq(ToProxy)
    BY <1>3, AppendQueue, MessageTypes DEF HostReply, Answers, TypeOK
  <2>2. QED
    BY <1>3, <2>1 DEF TypeOK, HostReply, proxyVars, streamVars
<1>4. CASE Reply(r)
  <2>1. toProxy' \in Seq(ToProxy)
    BY <1>4, ShiftTypes DEF Reply, FromHost
  <2>2. QED
    BY <1>4, <2>1 DEF TypeOK, Reply, Settled, streamVars, hostVars
<1>5. QED
  BY <1>1, <1>2, <1>3, <1>4

\* The parts of the proxy's state that a stream's steps write.
LEMMA WithoutType ==
    ASSUME TypeOK, NEW s
    PROVE  /\ DOMAIN Without(s) \subseteq Streams
           /\ Without(s) \in [DOMAIN Without(s) -> Entry]
BY DEF TypeOK, Without

LEMMA EntryUpdate ==
    ASSUME TypeOK, NEW s \in DOMAIN entry, NEW e \in Entry
    PROVE  [entry EXCEPT ![s] = e] \in [DOMAIN entry -> Entry]
BY DEF TypeOK

LEMMA EntryTypes ==
    ASSUME NEW e \in Entry
    PROVE  /\ NewEntry \in Entry /\ AbortEntry(e) \in Entry
           /\ [e EXCEPT !.done = TRUE, !.released = TRUE] \in Entry
           /\ [e EXCEPT !.errored = TRUE, !.released = TRUE] \in Entry
           /\ e.queue \in Seq(Chunks)
           /\ \A q \in Seq(Chunks) : [e EXCEPT !.queue = q] \in Entry
<1>1. NewEntry \in Entry
  BY DEF Entry, NewEntry
<1>2. AbortEntry(e) \in Entry
  BY DEF Entry, AbortEntry
<1>3. [e EXCEPT !.done = TRUE, !.released = TRUE] \in Entry
  BY DEF Entry
<1>4. [e EXCEPT !.errored = TRUE, !.released = TRUE] \in Entry
  BY DEF Entry
<1>5. e.queue \in Seq(Chunks)
  BY DEF Entry
<1>6. ASSUME NEW q \in Seq(Chunks) PROVE [e EXCEPT !.queue = q] \in Entry
  BY DEF Entry
<1>7. QED
  BY <1>1, <1>2, <1>3, <1>4, <1>5, <1>6

LEMMA HostLoopTypes ==
    ASSUME NEW h \in HostLoop, NEW buffer \in Seq(Chunks)
    PROVE  /\ \A chunk \in Chunks : [h EXCEPT !.made = chunk, !.buffer = buffer] \in HostLoop
           /\ \A end \in {"done", "error"} :
                  [h EXCEPT !.state = end, !.buffer = buffer] \in HostLoop
<1>1. ASSUME NEW chunk \in Chunks
      PROVE  [h EXCEPT !.made = chunk, !.buffer = buffer] \in HostLoop
  <2>1. chunk \in 0 .. MaxChunks
    BY DEF Chunks
  <2>2. QED
    BY <2>1 DEF HostLoop
<1>2. ASSUME NEW end \in {"done", "error"}
      PROVE  [h EXCEPT !.state = end, !.buffer = buffer] \in HostLoop
  <2>1. end \in {"idle", "running", "done", "error"}
    OBVIOUS
  <2>2. QED
    BY <2>1 DEF HostLoop
<1>3. QED
  BY <1>1, <1>2

LEMMA BecomesType ==
    ASSUME TypeOK, NEW s \in Streams,
           NEW state \in {"idle", "refused", "ready", "waiting", "ended", "failed", "left"},
           Becomes(s, state) \/ Wake(s, state)
    PROVE  consumer' \in [Streams -> Consumer]
<1>1. consumer \in [Streams -> Consumer]
  BY DEF TypeOK
<1>2. [consumer[s] EXCEPT !.state = state] \in Consumer
  BY <1>1 DEF Consumer
<1>3. consumer' = [consumer EXCEPT ![s] = [@ EXCEPT !.state = state]] \/ consumer' = consumer
  BY DEF Becomes, Wake
<1>4. QED
  BY <1>1, <1>2, <1>3

LEMMA GotType ==
    ASSUME TypeOK, NEW s \in Streams, NEW chunk \in Chunks, Got(s, chunk)
    PROVE  consumer' \in [Streams -> Consumer]
<1>1. Append(consumer[s].got, chunk) \in Seq(Chunks)
  BY AppendQueue DEF TypeOK, Consumer
<1>2. QED
  BY <1>1 DEF TypeOK, Got, Consumer

LEMMA PageTypes ==
    ASSUME TypeOK, NEW s \in Streams, Consumes(s)
    PROVE  TypeOK'
<1>1. CASE StartStream(s)
  <2>1. toWorker' \in Seq(ToWorker)
    BY <1>1, PostType, MessageTypes DEF StartStream, TypeOK
  <2>2. consumer' \in [Streams -> Consumer]
    <3>1. Becomes(s, "ready") \/ Becomes(s, "refused")
      BY <1>1 DEF StartStream
    <3>2. QED
      BY <3>1, BecomesType
  <2>3. DOMAIN entry' \subseteq Streams /\ entry' \in [DOMAIN entry' -> Entry]
    <3>1. NewEntry \in Entry
      BY DEF NewEntry, Entry
    <3>2. QED
      BY <1>1, <3>1 DEF StartStream, TypeOK
  <2>4. QED
    BY <1>1, <2>1, <2>2, <2>3 DEF TypeOK, StartStream, proxyVars, hostVars
<1>2. CASE Abort(s)
  <2>1. toWorker' \in Seq(ToWorker)
    BY <1>2, PostType, MessageTypes DEF Abort, TypeOK
  <2>2. consumer' \in [Streams -> Consumer]
    BY <1>2, BecomesType DEF Abort, TypeOK
  <2>3. DOMAIN entry' \subseteq Streams /\ entry' \in [DOMAIN entry' -> Entry]
    <3>1. ASSUME s \in DOMAIN entry
          PROVE  [entry EXCEPT ![s] = AbortEntry(entry[s])] \in [DOMAIN entry -> Entry]
      BY <3>1, EntryUpdate, EntryTypes DEF TypeOK
    <3>2. QED
      BY <1>2, <3>1 DEF Abort, TypeOK
  <2>4. QED
    BY <1>2, <2>1, <2>2, <2>3 DEF TypeOK, Abort, proxyVars, hostVars
<1>3. CASE NextChunk(s)
  <2>1. consumer' \in [Streams -> Consumer]
    <3>1. ASSUME s \in DOMAIN entry, entry[s].queue # <<>>
          PROVE  Head(entry[s].queue) \in Chunks
      BY <3>1, TailQueue DEF TypeOK, Entry
    <3>2. QED
      BY <1>3, <3>1, BecomesType, GotType DEF NextChunk
  <2>2. DOMAIN entry' \subseteq Streams /\ entry' \in [DOMAIN entry' -> Entry]
    <3>1. ASSUME s \in DOMAIN entry, entry[s].queue # <<>>
          PROVE  [entry EXCEPT ![s].queue = Tail(@)] \in [DOMAIN entry -> Entry]
      <4>1. Tail(entry[s].queue) \in Seq(Chunks)
        BY <3>1, TailQueue DEF TypeOK, Entry
      <4>2. [entry[s] EXCEPT !.queue = Tail(@)] \in Entry
        BY <3>1, <4>1, EntryTypes DEF TypeOK
      <4>3. QED
        BY <3>1, <4>2, EntryUpdate
    <3>2. QED
      BY <1>3, <3>1, WithoutType DEF NextChunk, TypeOK
  <2>3. QED
    BY <1>3, <2>1, <2>2 DEF TypeOK, NextChunk, proxyVars, hostVars
<1>4. CASE Return(s)
  <2>1. toWorker' \in Seq(ToWorker)
    BY <1>4, PostType, MessageTypes DEF Return, TypeOK
  <2>2. QED
    BY <1>4, <2>1, WithoutType, BecomesType DEF TypeOK, Return, proxyVars, hostVars
<1>5. CASE Throw(s)
  BY <1>5, WithoutType, BecomesType DEF TypeOK, Throw, proxyVars, hostVars
<1>6. QED
  BY <1>1, <1>2, <1>3, <1>4, <1>5 DEF Consumes

LEMMA HostTypes ==
    ASSUME TypeOK, NEW s \in Streams,
           HostStart(s) \/ HostCancel(s) \/ HostYield(s) \/ HostEnd(s)
    PROVE  TypeOK'
<1>1. CASE HostStart(s) \/ HostCancel(s)
  <2>1. toWorker' \in Seq(ToWorker)
    BY <1>1, ShiftTypes DEF HostStart, HostCancel, ToHost
  <2>2. host' \in [Streams -> HostLoop]
    <3>1. CASE HostStart(s)
      BY <1>1, <3>1 DEF HostStart, TypeOK, HostLoop
    <3>2. CASE HostCancel(s)
      <4>1. HostAbort(s) \in HostLoop
        BY DEF HostAbort, TypeOK, HostLoop
      <4>2. QED
        BY <3>2, <4>1 DEF HostCancel, TypeOK
    <3>3. QED
      BY <1>1, <3>1, <3>2
  <2>3. QED
    BY <1>1, <2>1, <2>2 DEF TypeOK, HostStart, HostCancel, proxyVars, streamVars
<1>2. ASSUME NEW buffer \in Seq(Chunks)
      PROVE  Flushed(s, buffer) \in Seq(ToProxy)
  BY <1>2, AppendQueue, MessageTypes DEF Flushed, TypeOK
<1>3. CASE HostYield(s)
  <2>1. Append(host[s].buffer, host[s].made + 1) \in Seq(Chunks)
    BY <1>3, AppendQueue DEF HostYield, TypeOK, HostLoop
  <2>2. toProxy' \in Seq(ToProxy)
    BY <1>2, <1>3, <2>1 DEF HostYield, TypeOK
  <2>3. host' \in [Streams -> HostLoop]
    <3>1. PICK buffer \in Seq(Chunks) :
              host' = [host EXCEPT ![s] = [@ EXCEPT !.made = host[s].made + 1, !.buffer = buffer]]
      <4>1. host' = [host EXCEPT ![s].made = host[s].made + 1,
                                 ![s].buffer = Append(host[s].buffer, host[s].made + 1)]
            \/ host' = [host EXCEPT ![s].made = host[s].made + 1, ![s].buffer = <<>>]
        BY <1>3 DEF HostYield, Rest
      <4>2. <<>> \in Seq(Chunks)
        OBVIOUS
      <4>3. QED
        BY <2>1, <4>1, <4>2
    <3>2. host[s] \in HostLoop /\ host[s].made + 1 \in Chunks
      BY <1>3 DEF HostYield, TypeOK
    <3>3. QED
      BY <3>1, <3>2, HostLoopTypes DEF TypeOK
  <2>4. QED
    BY <1>3, <2>2, <2>3 DEF TypeOK, HostYield, proxyVars, streamVars
<1>4. CASE HostEnd(s)
  <2>1. Flushed(s, host[s].buffer) \in Seq(ToProxy)
    BY <1>2 DEF TypeOK, HostLoop
  <2>2. toProxy' \in Seq(ToProxy)
    BY <1>4, <2>1, AppendQueue, MessageTypes DEF HostEnd
  <2>3. host' \in [Streams -> HostLoop]
    <3>1. PICK end \in {"done", "error"} :
              host' = [host EXCEPT ![s] = [@ EXCEPT !.state = end, !.buffer = <<>>]]
      BY <1>4 DEF HostEnd, Rest
    <3>2. [host[s] EXCEPT !.state = end, !.buffer = <<>>] \in HostLoop
      <4>1. host[s] \in HostLoop /\ <<>> \in Seq(Chunks)
        BY DEF TypeOK
      <4>2. QED
        BY <4>1, HostLoopTypes
    <3>3. QED
      BY <3>1, <3>2 DEF TypeOK
  <2>4. QED
    BY <1>4, <2>2, <2>3 DEF TypeOK, HostEnd, proxyVars, streamVars
<1>5. QED
  BY <1>1, <1>3, <1>4

LEMMA ArrivalTypes ==
    ASSUME TypeOK, NEW s \in Streams, ProxyChunks(s) \/ ProxyEnd(s)
    PROVE  TypeOK'
<1>1. toProxy' \in Seq(ToProxy) /\ Head(toProxy) \in ToProxy
  BY ShiftTypes DEF ProxyChunks, ProxyEnd, FromHost
<1>2. CASE ProxyChunks(s)
  <2> DEFINE chunks == Head(toProxy).chunks
  <2>1. chunks \in Seq(Chunks) \ {<<>>}
    BY <1>1, <1>2 DEF ProxyChunks, FromHost, ToProxy
  <2>2. fired' \in [Streams -> Seq(Chunks)]
    <3>1. fired[s] \o chunks \in Seq(Chunks)
      BY <2>1 DEF TypeOK
    <3>2. QED
      BY <1>2, <3>1 DEF ProxyChunks, TypeOK
  <2>3. Head(chunks) \in Chunks /\ Tail(chunks) \in Seq(Chunks)
    BY <2>1, TailQueue
  <2>4. consumer' \in [Streams -> Consumer]
    BY <1>2, <2>3, GotType DEF ProxyChunks, TypeOK
  <2>5. DOMAIN entry' \subseteq Streams /\ entry' \in [DOMAIN entry' -> Entry]
    <3>1. ASSUME s \in DOMAIN entry, NEW more \in Seq(Chunks)
          PROVE  [entry EXCEPT ![s].queue = @ \o more] \in [DOMAIN entry -> Entry]
      <4>1. entry[s].queue \o more \in Seq(Chunks)
        <5>1. entry[s].queue \in Seq(Chunks)
          BY <3>1, EntryTypes DEF TypeOK
        <5>2. QED
          BY <5>1
      <4>2. [entry[s] EXCEPT !.queue = @ \o more] \in Entry
        BY <3>1, <4>1, EntryTypes DEF TypeOK
      <4>3. QED
        BY <3>1, <4>2, EntryUpdate
    <3>2. QED
      BY <1>2, <2>1, <2>3, <3>1 DEF ProxyChunks, TypeOK
  <2>6. QED
    BY <1>1, <1>2, <2>2, <2>4, <2>5 DEF TypeOK, ProxyChunks, proxyVars, hostVars
<1>3. CASE ProxyEnd(s)
  <2>1. consumer' \in [Streams -> Consumer]
    BY <1>3, BecomesType DEF ProxyEnd, TypeOK
  <2>2. DOMAIN entry' \subseteq Streams /\ entry' \in [DOMAIN entry' -> Entry]
    <3>1. ASSUME s \in DOMAIN entry, NEW e \in Entry
          PROVE  /\ DOMAIN Closed(s, e) \subseteq Streams
                 /\ Closed(s, e) \in [DOMAIN Closed(s, e) -> Entry]
      BY <3>1, WithoutType, EntryUpdate DEF Closed, TypeOK
    <3>2. QED
      BY <1>3, <3>1, EntryTypes DEF ProxyEnd, TypeOK
  <2>3. QED
    BY <1>1, <1>3, <2>1, <2>2 DEF TypeOK, ProxyEnd, proxyVars, hostVars
<1>4. QED
  BY <1>2, <1>3

LEMMA CrashTypes ==
    ASSUME TypeOK, Crash
    PROVE  TypeOK'
<1>1. consumer' \in [Streams -> Consumer]
  BY DEF Crash, TypeOK, Consumer
<1>2. promise' \in [Requests -> {"new", "open", "resolved", "rejected"}]
  BY DEF Crash, TypeOK, Rejected
<1>3. QED
  BY <1>1, <1>2 DEF Crash, TypeOK, hostVars

LEMMA NextTypes == TypeOK /\ [Next]_vars => TypeOK'
<1>1. SUFFICES ASSUME TypeOK, [Next]_vars PROVE TypeOK'
  OBVIOUS
<1>2. CASE UNCHANGED vars
  BY <1>1, <1>2 DEF TypeOK, vars
<1>3. CASE Next
  BY <1>1, <1>3, RequestTypes, PageTypes, HostTypes, ArrivalTypes, CrashTypes
     DEF Next, HostReceives, ProxyReceives
<1>4. QED
  BY <1>1, <1>2, <1>3

\* The proxy, the host and the queues keep their types.
THEOREM TypeCorrect == Spec => []TypeOK
<1>1. QED
  BY InitTypes, NextTypes, PTL DEF Spec

(***************************************************************************)
(* Callbacks.                                                              *)
(***************************************************************************)

StreamEvents == {"stream-chunks", "stream-done", "stream-error"}

\* Nothing is known of a stream that has not been started.
StartedInv ==
    /\ \A s \in Streams : cancelled[s] \/ host[s].state # "idle" => Started(s)
    /\ \A k \in DOMAIN toWorker :
           toWorker[k].type \in {"stream-start", "stream-cancel"} => Started(toWorker[k].id)
    /\ \A k \in DOMAIN toProxy :
           toProxy[k].type \in StreamEvents => Started(toProxy[k].id)

\* The entry of a stream that is over for its consumer has released its callbacks.
ReleasedInv ==
    \A s \in DOMAIN entry :
        cancelled[s] \/ consumer[s].state \in {"ended", "failed", "left"} => entry[s].released

\* A consumer changes state by Becomes, Wake or Got only, and other consumers do
\* not change with it.
LEMMA ConsumerStep ==
    ASSUME TypeOK, NEW s \in Streams, NEW state, NEW chunk,
           \/ Becomes(s, state) \/ Wake(s, state) \/ Got(s, chunk) \/ UNCHANGED consumer
    PROVE  /\ \A t \in Streams \ {s} : consumer'[t] = consumer[t]
           /\ consumer'[s].state \in {state, "ready", consumer[s].state}
           /\ Becomes(s, state) => consumer'[s].state = state
           /\ Got(s, chunk) => consumer'[s].state = "ready"
           /\ UNCHANGED consumer \/ Wake(s, state) =>
                  \/ consumer'[s].state = consumer[s].state
                  \/ consumer[s].state = "waiting" /\ consumer'[s].state = state
BY DEF TypeOK, Becomes, Wake, Got, Consumer

LEMMA StartedStays ==
    ASSUME TypeOK, Next
    PROVE  \A t \in Streams : Started(t) => Started(t)'
<1>1. ASSUME NEW s \in Streams, Consumes(s)
      PROVE  \A t \in Streams : Started(t) => Started(t)'
  <2>1. CASE StartStream(s)
    <3>1. Becomes(s, "ready") \/ Becomes(s, "refused")
      BY <2>1 DEF StartStream
    <3>2. QED
      BY <2>1, <3>1, ConsumerStep DEF StartStream, Started
  <2>2. CASE Abort(s)
    <3>1. Wake(s, "failed") \/ UNCHANGED consumer
      BY <2>2 DEF Abort
    <3>2. QED
      BY <3>1, ConsumerStep DEF Started
  <2>3. CASE NextChunk(s)
    <3>1. PICK state \in {"ended", "failed", "waiting"}, chunk \in {Head(entry[s].queue)} :
              Becomes(s, state) \/ Got(s, chunk)
      BY <2>3 DEF NextChunk
    <3>2. QED
      BY <2>3, <3>1, ConsumerStep DEF Started
  <2>4. CASE Return(s) \/ Throw(s)
    <3>1. Becomes(s, "left")
      BY <2>4 DEF Return, Throw
    <3>2. QED
      BY <3>1, ConsumerStep DEF Started
  <2>5. QED
    BY <1>1, <2>1, <2>2, <2>3, <2>4 DEF Consumes
<1>2. ASSUME NEW s \in Streams, ProxyChunks(s) \/ ProxyEnd(s)
      PROVE  \A t \in Streams : Started(t) => Started(t)'
  <2>1. PICK state \in {"ended", "failed"}, chunk \in {Head(Head(toProxy).chunks)} :
            Wake(s, state) \/ Got(s, chunk) \/ UNCHANGED consumer
    BY <1>2 DEF ProxyChunks, ProxyEnd
  <2>2. QED
    BY <2>1, ConsumerStep DEF Started
<1>3. CASE Crash
  BY <1>3 DEF Crash, Started, TypeOK
<1>4. CASE UNCHANGED consumer
  BY <1>4 DEF Started
<1>5. QED
  <2>1. ASSUME NEW s \in Streams, HostStart(s) \/ HostCancel(s) \/ HostYield(s) \/ HostEnd(s)
        PROVE  UNCHANGED consumer
    BY <2>1 DEF HostStart, HostCancel, HostYield, HostEnd, streamVars
  <2>2. ASSUME NEW r \in Requests, Call(r) \/ HostCall(r) \/ HostReply(r) \/ Reply(r)
        PROVE  UNCHANGED consumer
    BY <2>2 DEF Call, HostCall, HostReply, Reply, streamVars
  <2>3. QED
    BY <1>1, <1>2, <1>3, <1>4, <2>1, <2>2 DEF Next, HostReceives, ProxyReceives

\* What a step adds to the proxy's queue is about streams the host has started.
LEMMA StartedStep ==
    ASSUME TypeOK, StartedInv, Next
    PROVE  StartedInv'
<1> DEFINE Known(t) == consumer'[t].state \notin {"idle", "refused"}
<1>k. \A t \in Streams : Started(t) => Known(t)
  BY StartedStays DEF Started
<1>0. /\ toWorker \in Seq(ToWorker) /\ toProxy \in Seq(ToProxy)
      /\ \A k \in DOMAIN toWorker :
             toWorker[k].type \in {"stream-start", "stream-cancel"} => toWorker[k].id \in Streams
      /\ \A k \in DOMAIN toProxy : toProxy[k].type \in StreamEvents => toProxy[k].id \in Streams
  <2>1. /\ \A m \in ToWorker : m.type \in {"stream-start", "stream-cancel"} => m.id \in Streams
        /\ \A m \in ToProxy : m.type \in StreamEvents => m.id \in Streams
    BY DEF ToWorker, ToProxy, StreamEvents
  <2>2. toWorker \in Seq(ToWorker) /\ toProxy \in Seq(ToProxy)
    BY DEF TypeOK
  <2>3. QED
    BY <2>1, <2>2
<1> DEFINE KnownTo(q) == \A k \in DOMAIN q :
               q[k].type \in {"stream-start", "stream-cancel"} => Known(q[k].id)
           KnownFrom(q) == \A k \in DOMAIN q : q[k].type \in StreamEvents => Known(q[k].id)
<1>a. KnownTo(toWorker) /\ KnownFrom(toProxy)
  BY <1>0, <1>k DEF StartedInv
<1>b. /\ toWorker # <<>> => KnownTo(Tail(toWorker))
      /\ toProxy # <<>> => KnownFrom(Tail(toProxy))
  BY <1>0, <1>a, TailQueue
<1>c. ASSUME NEW m \in ToWorker, Post(m),
             m.type \in {"stream-start", "stream-cancel"} => Known(m.id)
      PROVE  KnownTo(toWorker')
  BY <1>0, <1>a, <1>c, AppendQueue DEF Post
<1>d. ASSUME NEW q \in Seq(ToProxy), KnownFrom(q), NEW m \in ToProxy,
             m.type \in StreamEvents => Known(m.id)
      PROVE  KnownFrom(Append(q, m))
  BY <1>d, AppendQueue
<1>e. ASSUME KnownTo(toWorker'), KnownFrom(toProxy'),
             \A s \in Streams : cancelled'[s] \/ host'[s].state # "idle" => Known(s)
      PROVE  StartedInv'
  BY <1>e DEF StartedInv, Started
<1>f. ASSUME UNCHANGED <<cancelled, host>>
      PROVE  \A s \in Streams : cancelled'[s] \/ host'[s].state # "idle" => Known(s)
  BY <1>f, <1>k DEF StartedInv
<1> HIDE DEF KnownTo, KnownFrom, Known
<1>1. ASSUME NEW r \in Requests, Call(r) \/ HostCall(r) \/ HostReply(r) \/ Reply(r)
      PROVE  StartedInv'
  <2>1. UNCHANGED <<cancelled, host>>
    BY <1>1 DEF Call, HostCall, HostReply, Reply, streamVars, hostVars
  <2>2. KnownTo(toWorker')
    <3>1. Message("method-call", r).type \notin {"stream-start", "stream-cancel"}
      BY DEF Message
    <3>2. \/ UNCHANGED toWorker \/ Post(Message("method-call", r))
          \/ toWorker # <<>> /\ toWorker' = Tail(toWorker)
      BY <1>1 DEF Call, HostCall, HostReply, Reply, ToHost
    <3>3. QED
      BY <1>a, <1>b, <1>c, <3>1, <3>2, MessageTypes
  <2>3. KnownFrom(toProxy')
    <3>1. \A m \in Answers(r) : m.type \notin StreamEvents
      BY DEF Message, Answers, StreamEvents
    <3>2. \/ UNCHANGED toProxy \/ \E m \in Answers(r) : toProxy' = Append(toProxy, m)
          \/ toProxy # <<>> /\ toProxy' = Tail(toProxy)
      BY <1>1 DEF Call, HostCall, HostReply, Reply, FromHost, Answers
    <3>3. QED
      BY <1>0, <1>a, <1>b, <1>d, <3>1, <3>2, MessageTypes
  <2>4. QED
    BY <1>e, <1>f, <2>1, <2>2, <2>3
<1>2. ASSUME NEW s \in Streams, Consumes(s)
      PROVE  StartedInv'
  <2>1. UNCHANGED <<toProxy, host>>
    BY <1>2 DEF Consumes, StartStream, Abort, NextChunk, Return, Throw, hostVars
  <2>2. /\ \/ UNCHANGED toWorker
           \/ Post(Message("stream-start", s)) /\ Known(s)
           \/ Post(Message("stream-cancel", s)) /\ Known(s)
        /\ \A t \in Streams : cancelled'[t] => cancelled[t] \/ (t = s /\ Known(s))
    <3>1. CASE StartStream(s)
      <4>1. UNCHANGED cancelled
        BY <3>1 DEF StartStream
      <4>2. UNCHANGED toWorker \/ (Post(Message("stream-start", s)) /\ Becomes(s, "ready"))
        BY <3>1 DEF StartStream
      <4>3. QED
        BY <4>1, <4>2, ConsumerStep DEF Started, Known
    <3>2. CASE Abort(s)
      <4>1. Known(s)
        BY <3>2, <1>k DEF Abort, Started
      <4>2. QED
        BY <3>2, <4>1 DEF Abort, TypeOK
    <3>3. CASE NextChunk(s) \/ Throw(s)
      BY <3>3 DEF NextChunk, Throw
    <3>4. CASE Return(s)
      <4>1. Known(s)
        BY <3>4, <1>k DEF Return, Started
      <4>2. QED
        BY <3>4, <4>1 DEF Return, TypeOK
    <3>5. QED
      BY <1>2, <3>1, <3>2, <3>3, <3>4 DEF Consumes
  <2>3. KnownTo(toWorker')
    <3>1. /\ Message("stream-start", s).id = s
          /\ Message("stream-cancel", s).id = s
      BY DEF Message
    <3>2. QED
      BY <1>a, <1>c, <2>2, <3>1, MessageTypes
  <2>4. \A t \in Streams : cancelled'[t] \/ host'[t].state # "idle" => Known(t)
    BY <2>1, <2>2, <1>k DEF StartedInv
  <2>5. QED
    BY <1>a, <1>e, <2>1, <2>3, <2>4
<1>3. ASSUME NEW s \in Streams, HostStart(s) \/ HostCancel(s)
      PROVE  StartedInv'
  <2>1. /\ toWorker # <<>> /\ toWorker' = Tail(toWorker) /\ UNCHANGED <<toProxy, cancelled>>
        /\ Head(toWorker) \in {Message("stream-start", s), Message("stream-cancel", s)}
    BY <1>3 DEF HostStart, HostCancel, ToHost, streamVars
  <2>2. Known(s)
    <3>1. Head(toWorker).id = s /\ Head(toWorker).type \in {"stream-start", "stream-cancel"}
      BY <2>1 DEF Message
    <3>2. Started(s)
      BY <1>0, <2>1, <3>1, TailQueue DEF StartedInv
    <3>3. QED
      BY <3>2, <1>k
  <2>3. \A t \in Streams \ {s} : host'[t] = host[t]
    BY <1>3 DEF HostStart, HostCancel, TypeOK
  <2>4. \A t \in Streams : cancelled'[t] \/ host'[t].state # "idle" => Known(t)
    BY <2>1, <2>2, <2>3, <1>k DEF StartedInv
  <2>5. QED
    BY <1>a, <1>b, <1>e, <2>1, <2>4
<1>4. ASSUME NEW s \in Streams, HostYield(s) \/ HostEnd(s)
      PROVE  StartedInv'
  <2>1. Known(s)
    BY <1>4, <1>k DEF HostYield, HostEnd, StartedInv
  <2>2. UNCHANGED <<toWorker, cancelled>> /\ \A t \in Streams \ {s} : host'[t] = host[t]
    BY <1>4 DEF HostYield, HostEnd, streamVars, TypeOK
  <2>3. ASSUME NEW buffer \in Seq(Chunks)
        PROVE  Flushed(s, buffer) \in Seq(ToProxy) /\ KnownFrom(Flushed(s, buffer))
    <3>1. CASE buffer = <<>>
      BY <1>0, <1>a, <3>1 DEF Flushed
    <3>2. CASE buffer # <<>>
      <4>1. Batch(s, buffer) \in ToProxy /\ Batch(s, buffer).id = s
        BY <3>2, MessageTypes DEF Batch
      <4>2. QED
        BY <1>0, <1>a, <1>d, <2>1, <3>2, <4>1, AppendQueue DEF Flushed
    <3>3. QED
      BY <3>1, <3>2
  <2>4. KnownFrom(toProxy')
    <3>1. CASE HostYield(s)
      <4>1. Append(host[s].buffer, host[s].made + 1) \in Seq(Chunks)
        BY <3>1, AppendQueue DEF HostYield, TypeOK, HostLoop
      <4>2. QED
        BY <1>a, <2>3, <3>1, <4>1 DEF HostYield
    <3>2. CASE HostEnd(s)
      <4>1. host[s].buffer \in Seq(Chunks)
        BY DEF TypeOK, HostLoop
      <4>2. PICK m \in {Message("stream-done", s), Message("stream-error", s)} :
                toProxy' = Append(Flushed(s, host[s].buffer), m)
        BY <3>2 DEF HostEnd
      <4>3. m \in ToProxy /\ m.id = s
        <5>1. /\ Message("stream-done", s) \in ToProxy /\ Message("stream-error", s) \in ToProxy
              /\ m = Message("stream-done", s) \/ m = Message("stream-error", s)
          BY MessageTypes
        <5>2. Message("stream-done", s).id = s /\ Message("stream-error", s).id = s
          BY DEF Message
        <5>3. QED
          BY <5>1, <5>2
      <4>4. QED
        BY <1>d, <2>1, <2>3, <4>1, <4>2, <4>3
    <3>3. QED
      BY <1>4, <3>1, <3>2
  <2>5. \A t \in Streams : cancelled'[t] \/ host'[t].state # "idle" => Known(t)
    BY <2>1, <2>2, <1>k DEF StartedInv
  <2>6. QED
    BY <1>a, <1>e, <2>2, <2>4, <2>5
<1>5. ASSUME NEW s \in Streams, ProxyChunks(s) \/ ProxyEnd(s)
      PROVE  StartedInv'
  <2>1. /\ UNCHANGED <<cancelled, host, toWorker>>
        /\ toProxy # <<>> /\ toProxy' = Tail(toProxy)
    BY <1>5 DEF ProxyChunks, ProxyEnd, FromHost, hostVars
  <2>2. QED
    BY <1>a, <1>b, <1>e, <1>f, <2>1
<1>6. CASE Crash
  <2>1. KnownTo(<<>>) /\ KnownFrom(<<>>)
    BY DEF KnownTo, KnownFrom
  <2>2. QED
    BY <1>6, <1>e, <1>f, <2>1 DEF Crash, hostVars
<1>7. QED
  BY <1>1, <1>2, <1>3, <1>4, <1>5, <1>6 DEF Next, HostReceives, ProxyReceives

\* A step of one stream keeps the entries of the others.
LEMMA ReleasedFrom ==
    ASSUME ReleasedInv, NEW s \in Streams,
           DOMAIN entry' \subseteq DOMAIN entry \cup {s},
           \A t \in DOMAIN entry' \ {s} :
               entry'[t] = entry[t] /\ cancelled'[t] = cancelled[t] /\ consumer'[t] = consumer[t],
           s \in DOMAIN entry' /\ (cancelled'[s] \/ consumer'[s].state \in {"ended", "failed", "left"})
               => entry'[s].released
    PROVE  ReleasedInv'
BY DEF ReleasedInv

LEMMA ReleasedStep ==
    ASSUME TypeOK, StartedInv, ReleasedInv, Next
    PROVE  ReleasedInv'
<1>1. ASSUME NEW s \in Streams, StartStream(s)
      PROVE  ReleasedInv'
  <2>1. Becomes(s, "ready") \/ Becomes(s, "refused")
    BY <1>1 DEF StartStream
  <2>2. ~cancelled[s]
    BY <1>1 DEF StartStream, StartedInv, Started
  <2>3. /\ DOMAIN entry' \subseteq DOMAIN entry \cup {s} /\ cancelled' = cancelled
        /\ \A t \in DOMAIN entry' \ {s} : entry'[t] = entry[t]
    BY <1>1 DEF StartStream
  <2>4. \A t \in Streams \ {s} : consumer'[t] = consumer[t]
    BY <2>1, ConsumerStep
  <2>5. consumer'[s].state \in {"ready", "refused"}
    BY <2>1, ConsumerStep
  <2>6. DOMAIN entry' \subseteq Streams
    BY <2>3 DEF TypeOK
  <2>7. QED
    BY <2>2, <2>3, <2>4, <2>5, <2>6, ReleasedFrom
<1>2. ASSUME NEW s \in Streams, Abort(s)
      PROVE  ReleasedInv'
  <2>1. Wake(s, "failed") \/ UNCHANGED consumer
    BY <1>2 DEF Abort
  <2>2. \A t \in Streams \ {s} : consumer'[t] = consumer[t]
    BY <2>1, ConsumerStep
  <2>3. /\ DOMAIN entry' = DOMAIN entry
        /\ \A t \in DOMAIN entry' \ {s} : entry'[t] = entry[t]
    BY <1>2 DEF Abort
  <2>4. \A t \in Streams \ {s} : cancelled'[t] = cancelled[t]
    BY <1>2 DEF Abort, TypeOK
  <2>5. s \in DOMAIN entry => entry'[s].released
    BY <1>2 DEF Abort, AbortEntry, TypeOK, Entry
  <2>6. DOMAIN entry \subseteq Streams
    BY DEF TypeOK
  <2>7. QED
    BY <2>2, <2>3, <2>4, <2>5, <2>6, ReleasedFrom
<1>3. ASSUME NEW s \in Streams, NextChunk(s)
      PROVE  ReleasedInv'
  <2> DEFINE taken == [entry EXCEPT ![s].queue = Tail(@)]
  <2>1. PICK state \in {"ended", "failed", "waiting"}, chunk \in {Head(entry[s].queue)} :
            \/ Becomes(s, state) /\ state = "waiting" /\ entry' = entry
            \/ Becomes(s, state) /\ s \notin DOMAIN entry'
                 /\ (entry' = entry \/ entry' = Without(s))
            \/ Got(s, chunk) /\ entry' = taken /\ s \in DOMAIN entry
    <3>1. s \notin DOMAIN Without(s)
      BY DEF Without
    <3>2. QED
      BY <1>3, <3>1 DEF NextChunk
  <2>2. \A t \in Streams \ {s} : consumer'[t] = consumer[t]
    BY <2>1, ConsumerStep
  <2>3. /\ DOMAIN entry' \subseteq DOMAIN entry
        /\ \A t \in DOMAIN entry' \ {s} : entry'[t] = entry[t]
    BY <2>1 DEF Without
  <2>4. s \in DOMAIN entry' =>
            consumer'[s].state \in {"ready", "waiting"} /\ entry'[s].released = entry[s].released
    <3>1. s \in DOMAIN entry => taken[s].released = entry[s].released
      BY DEF TypeOK, Entry
    <3>2. QED
      BY <2>1, <3>1, ConsumerStep
  <2>5. cancelled' = cancelled
    BY <1>3 DEF NextChunk
  <2>6. s \in DOMAIN entry /\ cancelled[s] => entry[s].released
    BY DEF ReleasedInv
  <2>7. DOMAIN entry \subseteq Streams
    BY DEF TypeOK
  <2>8. QED
    BY <2>2, <2>3, <2>4, <2>5, <2>6, <2>7, ReleasedFrom
<1>4. ASSUME NEW s \in Streams, Return(s) \/ Throw(s)
      PROVE  ReleasedInv'
  BY <1>4 DEF Return, Throw, ReleasedInv, TypeOK, Becomes, Without
<1>5. ASSUME NEW s \in Streams, ProxyChunks(s)
      PROVE  ReleasedInv'
  <2>1. PICK chunk \in {Head(Head(toProxy).chunks)} : Got(s, chunk) \/ UNCHANGED consumer
    BY <1>5 DEF ProxyChunks
  <2>2. /\ \A t \in Streams \ {s} : consumer'[t] = consumer[t]
        /\ consumer'[s].state \in {"ready", consumer[s].state}
    BY <2>1, ConsumerStep
  <2>3. /\ DOMAIN entry' = DOMAIN entry /\ cancelled' = cancelled
        /\ \A t \in DOMAIN entry' \ {s} : entry'[t] = entry[t]
    BY <1>5 DEF ProxyChunks
  <2>4. s \in DOMAIN entry => entry'[s].released = entry[s].released
    BY <1>5 DEF ProxyChunks, TypeOK, Entry
  <2>5. DOMAIN entry \subseteq Streams
    BY DEF TypeOK
  <2>6. QED
    BY <2>2, <2>3, <2>4, <2>5, ReleasedFrom DEF ReleasedInv
<1>6. ASSUME NEW s \in Streams, ProxyEnd(s)
      PROVE  ReleasedInv'
  <2>1. PICK state \in {"ended", "failed"} : Wake(s, state) \/ UNCHANGED consumer
    BY <1>6 DEF ProxyEnd
  <2>2. \A t \in Streams \ {s} : consumer'[t] = consumer[t]
    BY <2>1, ConsumerStep
  <2>3. ASSUME s \in DOMAIN entry
        PROVE  \E e \in {[entry[s] EXCEPT !.done = TRUE, !.released = TRUE],
                         [entry[s] EXCEPT !.errored = TRUE, !.released = TRUE]} :
                   e.released /\ entry' = Closed(s, e)
    BY <1>6, <2>3 DEF ProxyEnd, TypeOK, Entry
  <2>4. s \notin DOMAIN entry => entry' = entry
    BY <1>6 DEF ProxyEnd
  <2>5. /\ DOMAIN entry' \subseteq DOMAIN entry
        /\ \A t \in DOMAIN entry' \ {s} : entry'[t] = entry[t]
        /\ s \in DOMAIN entry' => entry'[s].released
    BY <2>3, <2>4 DEF Closed, Without
  <2>6. cancelled' = cancelled /\ DOMAIN entry \subseteq Streams
    BY <1>6 DEF ProxyEnd, TypeOK
  <2>7. QED
    BY <2>2, <2>5, <2>6, ReleasedFrom
<1>7. CASE Crash
  BY <1>7 DEF Crash, ReleasedInv
<1>8. CASE UNCHANGED streamVars
  BY <1>8 DEF ReleasedInv, streamVars
<1>9. QED
  <2>1. ASSUME NEW s \in Streams, HostStart(s) \/ HostCancel(s) \/ HostYield(s) \/ HostEnd(s)
        PROVE  UNCHANGED streamVars
    BY <2>1 DEF HostStart, HostCancel, HostYield, HostEnd
  <2>2. ASSUME NEW r \in Requests, Call(r) \/ HostCall(r) \/ HostReply(r) \/ Reply(r)
        PROVE  UNCHANGED streamVars
    BY <2>2 DEF Call, HostCall, HostReply, Reply
  <2>3. QED
    BY <1>1, <1>2, <1>3, <1>4, <1>5, <1>6, <1>7, <1>8, <2>1, <2>2
       DEF Next, HostReceives, ProxyReceives, Consumes

\* A callback is invoked by an arriving chunk only, while the entry has not been
\* released.
LEMMA FiresInTime ==
    ASSUME TypeOK, StartedInv, ReleasedInv, Next, NEW s \in Streams, fired'[s] # fired[s]
    PROVE  ~cancelled[s] /\ consumer[s].state \in {"ready", "waiting"}
<1>1. ASSUME NEW t \in Streams, ProxyChunks(t)
      PROVE  ~cancelled[s] /\ consumer[s].state \in {"ready", "waiting"}
  <2>1. t = s /\ s \in DOMAIN entry /\ ~entry[s].released
    BY <1>1 DEF ProxyChunks, TypeOK
  <2>2. Started(s)
    BY <1>1, <2>1, ShiftTypes, TailQueue DEF ProxyChunks, FromHost, StartedInv, StreamEvents, TypeOK
  <2>3. QED
    BY <2>1, <2>2 DEF ReleasedInv, Started, TypeOK, Consumer
<1>2. ASSUME NEW t \in Streams,
             \/ Consumes(t) \/ ProxyEnd(t)
             \/ HostStart(t) \/ HostCancel(t) \/ HostYield(t) \/ HostEnd(t)
      PROVE  fired' = fired
  BY <1>2 DEF Consumes, StartStream, Abort, NextChunk, Return, Throw, ProxyEnd,
              HostStart, HostCancel, HostYield, HostEnd, streamVars
<1>3. ASSUME NEW r \in Requests, Call(r) \/ HostCall(r) \/ HostReply(r) \/ Reply(r)
      PROVE  fired' = fired
  BY <1>3 DEF Call, HostCall, HostReply, Reply, streamVars
<1>4. CASE Crash
  BY <1>4 DEF Crash
<1>5. QED
  BY <1>1, <1>2, <1>3, <1>4 DEF Next, HostReceives, ProxyReceives

CallbackInv == TypeOK /\ StartedInv /\ ReleasedInv

LEMMA InitCallback == Init => CallbackInv
<1>1. SUFFICES ASSUME Init PROVE StartedInv /\ ReleasedInv
  BY InitTypes DEF CallbackInv
<1>2. QED
  BY <1>1 DEF Init, StartedInv, ReleasedInv

LEMMA NextCallback == CallbackInv /\ [Next]_vars => CallbackInv'
<1>1. SUFFICES ASSUME CallbackInv, [Next]_vars PROVE CallbackInv'
  OBVIOUS
<1>2. CASE UNCHANGED vars
  <2>1. StartedInv'
    BY <1>1, <1>2 DEF CallbackInv, StartedInv, Started, vars
  <2>2. ReleasedInv'
    BY <1>1, <1>2 DEF CallbackInv, ReleasedInv, vars
  <2>3. QED
    BY <1>1, <2>1, <2>2, NextTypes DEF CallbackInv
<1>3. CASE Next
  BY <1>1, <1>3, NextTypes, StartedStep, ReleasedStep DEF CallbackInv
<1>4. QED
  BY <1>1, <1>2, <1>3

LEMMA CallbackInvHolds == Spec => []CallbackInv
<1>1. QED
  BY InitCallback, NextCallback, PTL DEF Spec

\* No onToken or onThinking fires once the stream is aborted, ended, failed or
\* left, for any number of streams, chunks and batches.
THEOREM NoLateCallbackHolds == Spec => NoLateCallback
<1>1. CallbackInv /\ [Next]_vars
          => [\A s \in Streams :
                 fired'[s] # fired[s] => ~cancelled[s] /\ consumer[s].state \in {"ready", "waiting"}]_vars
  BY FiresInTime DEF CallbackInv
<1>2. QED
  BY <1>1, CallbackInvHolds, PTL DEF Spec, NoLateCallback

(***************************************************************************)
(* Answers.                                                                *)
(***************************************************************************)

Total(r) == Carried(toWorker, {Message("method-call", r)}) + Carried(toProxy, Answers(r))
            + (IF r \in serving THEN 1 ELSE 0)

\* A request has no part in the exchange before it is made, one while its
\* caller waits and never two: what a crash leaves in the engine is not called
\* a second time.
AnswerInv ==
    \A r \in Requests :
        /\ Total(r) <= 1
        /\ promise[r] = "open" <=> r \in pending
        /\ r \in pending => Total(r) = 1
        /\ promise[r] = "new" => Total(r) = 0

LEMMA CarriedNothing == \A M : Carried(<<>>, M) = 0
<1>1. SUFFICES ASSUME NEW M PROVE Carried(<<>>, M) = 0
  OBVIOUS
<1>2. {k \in DOMAIN <<>> : <<>>[k] \in M} = {}
  OBVIOUS
<1>3. QED
  BY <1>2, FS_EmptySet DEF Carried

\* Messages about streams and about other requests are not counted.
LEMMA NotCounted ==
    ASSUME NEW r \in Requests
    PROVE  /\ \A s \in Streams : /\ Message("stream-start", s) # Message("method-call", r)
                                 /\ Message("stream-cancel", s) # Message("method-call", r)
           /\ \A m : m.type \in StreamEvents => m \notin Answers(r)
           /\ \A p \in Requests \ {r} : /\ Message("method-call", p) # Message("method-call", r)
                                        /\ Answers(p) \cap Answers(r) = {}
<1>1. \A t1, t2, i, j : Message(t1, i) = Message(t2, j) => t1 = t2 /\ i = j
  <2>1. \A t1, i : Message(t1, i).type = t1 /\ Message(t1, i).id = i
    BY DEF Message
  <2>2. QED
    BY <2>1
<1>2. \A m \in Answers(r) : m.type \in {"method-result", "method-error"}
  BY DEF Answers, Message
<1>3. QED
  BY <1>1, <1>2 DEF Answers, StreamEvents

LEMMA TotalNat ==
    ASSUME TypeOK, NEW r \in Requests
    PROVE  /\ Carried(toWorker, {Message("method-call", r)}) \in Nat
           /\ Carried(toProxy, Answers(r)) \in Nat
BY CarriedFinite DEF TypeOK

\* A step of the streams moves no message of a request.
LEMMA StreamStepTotal ==
    ASSUME TypeOK, NEW s \in Streams,
           \/ Consumes(s) \/ HostStart(s) \/ HostCancel(s) \/ HostYield(s) \/ HostEnd(s)
           \/ ProxyChunks(s) \/ ProxyEnd(s)
    PROVE  \A r \in Requests : Total(r)' = Total(r)
<1>1. SUFFICES ASSUME NEW r \in Requests PROVE Total(r)' = Total(r)
  OBVIOUS
<1>2. toWorker \in Seq(ToWorker) /\ toProxy \in Seq(ToProxy)
  BY DEF TypeOK
<1>3. serving' = serving
  BY DEF Consumes, StartStream, Abort, NextChunk, Return, Throw, HostStart, HostCancel,
         HostYield, HostEnd, ProxyChunks, ProxyEnd, hostVars
<1>4. Carried(toWorker', {Message("method-call", r)}) = Carried(toWorker, {Message("method-call", r)})
  <2>1. \/ UNCHANGED toWorker
        \/ \E m \in {Message("stream-start", s), Message("stream-cancel", s)} :
               \/ Post(m)
               \/ toWorker # <<>> /\ Head(toWorker) = m /\ toWorker' = Tail(toWorker)
    BY DEF Consumes, StartStream, Abort, NextChunk, Return, Throw, HostStart, HostCancel,
           HostYield, HostEnd, ProxyChunks, ProxyEnd, ToHost
  <2>2. ASSUME NEW m \in {Message("stream-start", s), Message("stream-cancel", s)}
        PROVE  m \in ToWorker /\ m \notin {Message("method-call", r)}
    BY MessageTypes, NotCounted
  <2>3. ASSUME NEW m \in ToWorker, m \notin {Message("method-call", r)}, Post(m)
        PROVE  Carried(toWorker', {Message("method-call", r)}) = Carried(toWorker, {Message("method-call", r)})
    <3>1. Carried(Append(toWorker, m), {Message("method-call", r)})
              = Carried(toWorker, {Message("method-call", r)}) + 0
      BY <1>2, <2>3, CarriedAppend
    <3>2. Carried(toWorker, {Message("method-call", r)}) \in Nat
      BY TotalNat
    <3>3. toWorker' = toWorker \/ toWorker' = Append(toWorker, m)
      BY <2>3 DEF Post
    <3>4. CASE toWorker' = Append(toWorker, m)
      BY <3>1, <3>2, <3>4
    <3>5. QED
      BY <3>3, <3>4
  <2>4. ASSUME toWorker # <<>>, Head(toWorker) \notin {Message("method-call", r)}
        PROVE  Carried(Tail(toWorker), {Message("method-call", r)}) = Carried(toWorker, {Message("method-call", r)})
    <3>1. Tail(toWorker) \in Seq(ToWorker)
      BY <1>2, <2>4, TailQueue
    <3>2. Carried(Tail(toWorker), {Message("method-call", r)}) \in Nat
      BY <3>1, CarriedFinite
    <3>3. Carried(toWorker, {Message("method-call", r)})
              = Carried(Tail(toWorker), {Message("method-call", r)}) + 0
      BY <1>2, <2>4, CarriedTail
    <3>4. QED
      BY <3>2, <3>3
  <2>5. ASSUME NEW m \in {Message("stream-start", s), Message("stream-cancel", s)},
               \/ Post(m)
               \/ toWorker # <<>> /\ Head(toWorker) = m /\ toWorker' = Tail(toWorker)
        PROVE  Carried(toWorker', {Message("method-call", r)}) = Carried(toWorker, {Message("method-call", r)})
    <3>1. m \in ToWorker /\ m \notin {Message("method-call", r)}
      BY <2>2
    <3>2. CASE Post(m)
      BY <2>3, <3>1, <3>2
    <3>3. CASE toWorker # <<>> /\ Head(toWorker) = m /\ toWorker' = Tail(toWorker)
      <4>1. Carried(Tail(toWorker), {Message("method-call", r)}) = Carried(toWorker, {Message("method-call", r)})
        BY <2>4, <3>1, <3>3
      <4>2. QED
        BY <3>3, <4>1
    <3>4. QED
      BY <2>5, <3>2, <3>3
  <2>6. QED
    BY <2>1, <2>5
<1>5. Carried(toProxy', Answers(r)) = Carried(toProxy, Answers(r))
  <2>1. ASSUME NEW q \in Seq(ToProxy), NEW m \in ToProxy, m.type \in StreamEvents
        PROVE  Append(q, m) \in Seq(ToProxy) /\ Carried(Append(q, m), Answers(r)) = Carried(q, Answers(r))
    <3>1. m \notin Answers(r)
      BY <2>1, NotCounted
    <3>2. Carried(Append(q, m), Answers(r)) = Carried(q, Answers(r)) + 0
      BY <3>1, CarriedAppend
    <3>3. Carried(q, Answers(r)) \in Nat
      BY CarriedFinite
    <3>4. QED
      BY <3>2, <3>3, AppendQueue
  <2>2. ASSUME NEW buffer \in Seq(Chunks)
        PROVE  /\ Flushed(s, buffer) \in Seq(ToProxy)
               /\ Carried(Flushed(s, buffer), Answers(r)) = Carried(toProxy, Answers(r))
    <3>1. CASE buffer = <<>>
      BY <1>2, <3>1 DEF Flushed
    <3>2. CASE buffer # <<>>
      <4>1. Batch(s, buffer) \in ToProxy /\ Batch(s, buffer).type \in StreamEvents
        BY <3>2, MessageTypes DEF Batch, StreamEvents
      <4>2. QED
        BY <1>2, <2>1, <3>2, <4>1 DEF Flushed
    <3>3. QED
      BY <3>1, <3>2
  <2>3. CASE HostYield(s)
    <3>1. Append(host[s].buffer, host[s].made + 1) \in Seq(Chunks)
      BY <2>3, AppendQueue DEF HostYield, TypeOK, HostLoop
    <3>2. \/ toProxy' = toProxy
          \/ toProxy' = Flushed(s, Append(host[s].buffer, host[s].made + 1))
      BY <2>3 DEF HostYield
    <3>3. CASE toProxy' = toProxy
      BY <3>3
    <3>4. CASE toProxy' = Flushed(s, Append(host[s].buffer, host[s].made + 1))
      <4>1. Carried(Flushed(s, Append(host[s].buffer, host[s].made + 1)), Answers(r))
                = Carried(toProxy, Answers(r))
        BY <2>2, <3>1
      <4>2. QED
        BY <3>4, <4>1
    <3>5. QED
      BY <3>2, <3>3, <3>4
  <2>4. CASE HostEnd(s)
    <3>1. host[s].buffer \in Seq(Chunks)
      BY DEF TypeOK, HostLoop
    <3>2. PICK m \in {Message("stream-done", s), Message("stream-error", s)} :
              toProxy' = Append(Flushed(s, host[s].buffer), m)
      BY <2>4 DEF HostEnd
    <3>3. m \in ToProxy
      BY MessageTypes
    <3>4. m.type \in StreamEvents
      BY DEF Message, StreamEvents
    <3>5. /\ Flushed(s, host[s].buffer) \in Seq(ToProxy)
          /\ Carried(Flushed(s, host[s].buffer), Answers(r)) = Carried(toProxy, Answers(r))
      BY <2>2, <3>1
    <3>6. Carried(Append(Flushed(s, host[s].buffer), m), Answers(r))
              = Carried(Flushed(s, host[s].buffer), Answers(r))
      BY <2>1, <3>3, <3>4, <3>5
    <3>7. QED
      BY <3>2, <3>5, <3>6
  <2>5. CASE ProxyChunks(s) \/ ProxyEnd(s)
    <3>1. toProxy # <<>> /\ Head(toProxy).type \in StreamEvents /\ toProxy' = Tail(toProxy)
      BY <2>5 DEF ProxyChunks, ProxyEnd, FromHost, StreamEvents
    <3>2. Head(toProxy) \notin Answers(r)
      BY <3>1, NotCounted
    <3>3. Tail(toProxy) \in Seq(ToProxy)
      BY <1>2, <3>1, TailQueue
    <3>4. Carried(Tail(toProxy), Answers(r)) \in Nat
      BY <3>3, CarriedFinite
    <3>5. Carried(toProxy, Answers(r)) = Carried(Tail(toProxy), Answers(r)) + 0
      BY <1>2, <3>1, <3>2, CarriedTail
    <3>6. QED
      BY <3>1, <3>4, <3>5
  <2>6. CASE Consumes(s) \/ HostStart(s) \/ HostCancel(s)
    BY <2>6 DEF Consumes, StartStream, Abort, NextChunk, Return, Throw, HostStart, HostCancel
  <2>7. QED
    BY <2>3, <2>4, <2>5, <2>6
<1>6. QED
  BY <1>3, <1>4, <1>5 DEF Total

\* A call puts one message in the queue, the host takes it over, its reply goes
\* into the other queue, and the proxy takes that off: what a request has in the
\* exchange changes with its call and with the delivery of its reply only.
LEMMA CallTotal ==
    ASSUME TypeOK, NEW r \in Requests, ~disposed, Post(Message("method-call", r)),
           UNCHANGED <<toProxy, serving>>
    PROVE  /\ Total(r)' = Total(r) + 1
           /\ \A p \in Requests \ {r} : Total(p)' = Total(p)
<1>1. toWorker \in Seq(ToWorker) /\ Message("method-call", r) \in ToWorker
  BY MessageTypes DEF TypeOK
<1>2. toWorker' = Append(toWorker, Message("method-call", r))
  BY DEF Post
<1>3. Carried(toWorker', {Message("method-call", r)}) = Carried(toWorker, {Message("method-call", r)}) + 1
  BY <1>1, <1>2, CarriedAppend
<1>4. ASSUME NEW p \in Requests \ {r}
      PROVE  Carried(toWorker', {Message("method-call", p)}) = Carried(toWorker, {Message("method-call", p)})
  <2>1. Message("method-call", r) \notin {Message("method-call", p)}
    BY NotCounted
  <2>2. Carried(toWorker', {Message("method-call", p)}) = Carried(toWorker, {Message("method-call", p)}) + 0
    BY <1>1, <1>2, <2>1, CarriedAppend
  <2>3. QED
    BY <2>2, TotalNat
<1>5. Total(r)' = Total(r) + 1
  BY <1>3, TotalNat DEF Total
<1>6. \A p \in Requests \ {r} : Total(p)' = Total(p)
  BY <1>4 DEF Total
<1>7. QED
  BY <1>5, <1>6

LEMMA HostCallTotal ==
    ASSUME TypeOK, NEW r \in Requests, HostCall(r), r \notin serving
    PROVE  \A p \in Requests : Total(p)' = Total(p)
<1>1. /\ toWorker \in Seq(ToWorker) /\ toWorker # <<>>
      /\ Head(toWorker) = Message("method-call", r) /\ toWorker' = Tail(toWorker)
  BY DEF TypeOK, HostCall, ToHost
<1>2. ASSUME NEW p \in Requests
      PROVE  /\ Carried(toWorker, {Message("method-call", p)})
                    = Carried(toWorker', {Message("method-call", p)}) + (IF p = r THEN 1 ELSE 0)
             /\ Carried(toWorker', {Message("method-call", p)}) \in Nat
  <2>1. Head(toWorker) \in {Message("method-call", p)} <=> p = r
    BY <1>1, NotCounted
  <2>2. Tail(toWorker) \in Seq(ToWorker)
    BY <1>1, TailQueue
  <2>3. Carried(Tail(toWorker), {Message("method-call", p)}) \in Nat
    BY <2>2, CarriedFinite
  <2>4. Carried(toWorker, {Message("method-call", p)})
            = Carried(Tail(toWorker), {Message("method-call", p)}) + (IF p = r THEN 1 ELSE 0)
    BY <1>1, <2>1, CarriedTail
  <2>5. QED
    BY <1>1, <2>3, <2>4
<1>3. toProxy' = toProxy /\ serving' = serving \cup {r}
  BY DEF HostCall
<1>4. QED
  BY <1>2, <1>3, TotalNat DEF Total

LEMMA HostReplyTotal ==
    ASSUME TypeOK, NEW r \in Requests, HostReply(r)
    PROVE  \A p \in Requests : Total(p)' = Total(p)
<1>1. toProxy \in Seq(ToProxy)
  BY DEF TypeOK
<1>2. PICK m \in Answers(r) : toProxy' = Append(toProxy, m)
  BY DEF HostReply, Answers
<1>3. m \in ToProxy
  BY <1>2, MessageTypes
<1>4. ASSUME NEW p \in Requests
      PROVE  Carried(toProxy', Answers(p)) = Carried(toProxy, Answers(p)) + (IF p = r THEN 1 ELSE 0)
  <2>1. m \in Answers(p) <=> p = r
    BY <1>2, NotCounted
  <2>2. QED
    BY <1>1, <1>2, <1>3, <2>1, CarriedAppend
<1>5. r \in serving /\ serving' = serving \ {r} /\ toWorker' = toWorker
  BY DEF HostReply
<1>6. QED
  BY <1>4, <1>5, TotalNat DEF Total

LEMMA ReplyTotal ==
    ASSUME TypeOK, NEW r \in Requests, Reply(r)
    PROVE  /\ Total(r) = Total(r)' + 1 /\ Total(r)' \in Nat
           /\ \A p \in Requests \ {r} : Total(p)' = Total(p)
<1>1. /\ toProxy \in Seq(ToProxy) /\ toProxy # <<>> /\ toProxy' = Tail(toProxy)
      /\ Head(toProxy).type \in {"method-result", "method-error"} /\ Head(toProxy).id = r
  BY DEF TypeOK, Reply, FromHost
<1>2. Head(toProxy) \in Answers(r)
  <2>1. Head(toProxy) \in ToProxy
    BY <1>1, TailQueue
  <2>2. Head(toProxy) \in [type : {"method-result", "method-error"}, id : Requests]
    BY <1>1, <2>1 DEF ToProxy
  <2>3. QED
    BY <1>1, <2>2 DEF Answers, Message
<1>3. ASSUME NEW p \in Requests
      PROVE  /\ Carried(toProxy, Answers(p)) = Carried(toProxy', Answers(p)) + (IF p = r THEN 1 ELSE 0)
             /\ Carried(toProxy', Answers(p)) \in Nat
  <2>1. Head(toProxy) \in Answers(p) <=> p = r
    BY <1>2, NotCounted
  <2>2. Tail(toProxy) \in Seq(ToProxy)
    BY <1>1, TailQueue
  <2>3. Carried(Tail(toProxy), Answers(p)) \in Nat
    BY <2>2, CarriedFinite
  <2>4. Carried(toProxy, Answers(p)) = Carried(Tail(toProxy), Answers(p)) + (IF p = r THEN 1 ELSE 0)
    BY <1>1, <2>1, CarriedTail
  <2>5. QED
    BY <1>1, <2>3, <2>4
<1>4. serving' = serving /\ toWorker' = toWorker
  BY DEF Reply, hostVars
<1>5. Total(r) = Total(r)' + 1 /\ Total(r)' \in Nat
  BY <1>3, <1>4, TotalNat DEF Total
<1>6. \A p \in Requests \ {r} : Total(p)' = Total(p)
  BY <1>3, <1>4 DEF Total
<1>7. QED
  BY <1>5, <1>6

LEMMA AnswerStep ==
    ASSUME TypeOK, AnswerInv, Next
    PROVE  AnswerInv'
<1>1. ASSUME NEW r \in Requests, Call(r)
      PROVE  AnswerInv'
  <2>1. promise[r] = "new" /\ r \notin pending /\ Total(r) = 0
    BY <1>1 DEF Call, AnswerInv
  <2>2. CASE promise' = [promise EXCEPT ![r] = "rejected"] /\ UNCHANGED <<pending, toWorker>>
    <3>1. \A p \in Requests : Total(p)' = Total(p)
      BY <1>1, <2>2 DEF Call, hostVars, Total
    <3>2. promise'[r] = "rejected" /\ \A p \in Requests \ {r} : promise'[p] = promise[p]
      BY <2>2 DEF TypeOK
    <3>3. QED
      BY <2>1, <2>2, <3>1, <3>2 DEF AnswerInv
  <2>3. CASE /\ ~disposed /\ pending' = pending \cup {r}
             /\ promise' = [promise EXCEPT ![r] = "open"] /\ Post(Message("method-call", r))
    <3>1. /\ Total(r)' = 1
          /\ \A p \in Requests \ {r} : Total(p)' = Total(p)
      BY <1>1, <2>1, <2>3, CallTotal DEF Call, hostVars
    <3>2. promise'[r] = "open" /\ \A p \in Requests \ {r} : promise'[p] = promise[p]
      BY <2>3 DEF TypeOK
    <3>3. QED
      BY <2>3, <3>1, <3>2 DEF AnswerInv
  <2>4. QED
    BY <1>1, <2>2, <2>3 DEF Call
<1>2. ASSUME NEW r \in Requests, HostCall(r)
      PROVE  AnswerInv'
  <2>1. r \notin serving
    <3>1. /\ toWorker \in Seq(ToWorker) /\ toWorker # <<>>
          /\ Head(toWorker) = Message("method-call", r)
      BY <1>2 DEF TypeOK, HostCall, ToHost
    <3>2. Tail(toWorker) \in Seq(ToWorker)
      BY <3>1, TailQueue
    <3>3. Carried(Tail(toWorker), {Message("method-call", r)}) \in Nat
      BY <3>2, CarriedFinite
    <3>4. Carried(toWorker, {Message("method-call", r)})
              = Carried(Tail(toWorker), {Message("method-call", r)}) + 1
      BY <3>1, CarriedTail
    <3>5. Total(r) <= 1
      BY DEF AnswerInv
    <3>6. QED
      BY <3>3, <3>4, <3>5, TotalNat DEF Total
  <2>2. \A p \in Requests : Total(p)' = Total(p)
    BY <1>2, <2>1, HostCallTotal
  <2>3. QED
    BY <1>2, <2>2 DEF HostCall, proxyVars, AnswerInv
<1>3. ASSUME NEW r \in Requests, HostReply(r)
      PROVE  AnswerInv'
  BY <1>3, HostReplyTotal DEF HostReply, proxyVars, AnswerInv
<1>4. ASSUME NEW r \in Requests, Reply(r)
      PROVE  AnswerInv'
  <2>1. promise[r] # "new" /\ Total(r)' <= 1
    BY <1>4, ReplyTotal DEF AnswerInv
  <2>2. /\ pending' = pending \ {r}
        /\ r \in pending => promise'[r] \in {"resolved", "rejected"}
        /\ r \notin pending => promise' = promise
        /\ \A p \in Requests \ {r} : promise'[p] = promise[p]
    BY <1>4 DEF Reply, Settled, TypeOK
  <2>3. \A p \in Requests \ {r} : Total(p)' = Total(p)
    BY <1>4, ReplyTotal
  <2>4. QED
    BY <2>1, <2>2, <2>3 DEF AnswerInv
<1>5. CASE Crash
  <2>1. /\ pending' = {} /\ promise' = Rejected /\ serving' = serving
        /\ toWorker' = <<>> /\ toProxy' = <<>>
    BY <1>5 DEF Crash, hostVars
  <2>2. ASSUME NEW r \in Requests
        PROVE  /\ promise'[r] # "open"
               /\ promise'[r] = "new" => promise[r] = "new"
    BY <2>1 DEF Rejected, AnswerInv
  <2>3. ASSUME NEW r \in Requests, promise'[r] = "new"
        PROVE  Total(r)' = 0
    <3>1. Total(r) = 0
      BY <2>2, <2>3 DEF AnswerInv
    <3>2. r \notin serving
      BY <3>1, TotalNat DEF Total
    <3>3. QED
      BY <2>1, <3>2, CarriedNothing DEF Total
  <2>4. ASSUME NEW r \in Requests
        PROVE  Total(r)' <= 1
    BY <2>1, CarriedNothing DEF Total
  <2>5. QED
    BY <2>1, <2>2, <2>3, <2>4 DEF AnswerInv
<1>6. ASSUME NEW s \in Streams,
             \/ Consumes(s) \/ HostStart(s) \/ HostCancel(s) \/ HostYield(s) \/ HostEnd(s)
             \/ ProxyChunks(s) \/ ProxyEnd(s)
      PROVE  AnswerInv'
  <2>1. \A r \in Requests : Total(r)' = Total(r)
    BY <1>6, StreamStepTotal
  <2>2. UNCHANGED proxyVars
    BY <1>6 DEF Consumes, StartStream, Abort, NextChunk, Return, Throw, HostStart, HostCancel,
                HostYield, HostEnd, ProxyChunks, ProxyEnd
  <2>3. QED
    BY <2>1, <2>2 DEF proxyVars, AnswerInv
<1>7. QED
  BY <1>1, <1>2, <1>3, <1>4, <1>5, <1>6 DEF Next, HostReceives, ProxyReceives

LEMMA InitAnswers == Init => AnswerInv
<1>1. SUFFICES ASSUME Init, NEW r \in Requests
               PROVE  promise[r] = "new" /\ r \notin pending /\ Total(r) = 0
  BY DEF AnswerInv
<1>2. toWorker = <<>> /\ toProxy = <<>> /\ serving = {}
  BY <1>1 DEF Init
<1>3. Total(r) = 0
  BY <1>2, CarriedNothing DEF Total
<1>4. QED
  BY <1>1, <1>3 DEF Init

LEMMA NextAnswers == TypeOK /\ AnswerInv /\ [Next]_vars => AnswerInv'
<1>1. SUFFICES ASSUME TypeOK, AnswerInv, UNCHANGED vars PROVE AnswerInv'
  BY AnswerStep
<1>2. UNCHANGED <<promise, pending, toWorker, toProxy, serving>>
  BY <1>1 DEF vars
<1>3. \A r \in Requests : Total(r)' = Total(r)
  BY <1>2 DEF Total
<1>4. QED
  BY <1>1, <1>2, <1>3 DEF AnswerInv

\* Exactly one answer is under way for every promise a caller waits on, through
\* any number of requests, streams and crashes of the worker.
THEOREM OneAnswerUnderWayHolds == Spec => []OneAnswerUnderWay
<1>1. AnswerInv => OneAnswerUnderWay
  BY DEF AnswerInv, OneAnswerUnderWay, Total
<1>2. QED
  BY <1>1, TypeCorrect, InitAnswers, NextAnswers, PTL DEF Spec

(***************************************************************************)
(* Cancels.                                                                *)
(***************************************************************************)

\* The cancel of a stream is behind its start.
OrderInv ==
    \A s \in Streams : \A j, k \in DOMAIN toWorker :
        toWorker[j] = Message("stream-start", s) /\ toWorker[k] = Message("stream-cancel", s) => j < k

LEMMA MessageIs ==
    \A t1, t2, i, j : Message(t1, i) = Message(t2, j) <=> t1 = t2 /\ i = j
<1>1. \A t1, i : Message(t1, i).type = t1 /\ Message(t1, i).id = i
  BY DEF Message
<1>2. QED
  BY <1>1 DEF Message

\* What is posted is in the queue until it is delivered.
LEMMA PostedPost ==
    ASSUME TypeOK, ~disposed, NEW m \in ToWorker, Post(m), NEW type, NEW id
    PROVE  Posted(type, id)' <=> (Posted(type, id) \/ m = Message(type, id))
<1>1. toWorker \in Seq(ToWorker) /\ toWorker' = Append(toWorker, m)
  BY DEF TypeOK, Post
<1>2. QED
  BY <1>1, AppendQueue DEF Posted

LEMMA PostedTail ==
    ASSUME TypeOK, toWorker # <<>>, toWorker' = Tail(toWorker), NEW type, NEW id
    PROVE  /\ Posted(type, id)' => Posted(type, id)
           /\ Posted(type, id) /\ Head(toWorker) # Message(type, id) => Posted(type, id)'
           /\ Head(toWorker) = Message(type, id) => Posted(type, id)
<1>1. toWorker \in Seq(ToWorker)
  BY DEF TypeOK
<1>2. Posted(type, id)' => Posted(type, id)
  BY <1>1, TailQueue DEF Posted
<1>3. ASSUME Posted(type, id), Head(toWorker) # Message(type, id)
      PROVE  Posted(type, id)'
  <2>1. PICK k \in DOMAIN toWorker : toWorker[k] = Message(type, id)
    BY <1>3 DEF Posted
  <2>2. k \in 2 .. Len(toWorker)
    BY <1>1, <1>3, <2>1, TailQueue
  <2>3. k - 1 \in DOMAIN Tail(toWorker) /\ Tail(toWorker)[k - 1] = Message(type, id)
    BY <1>1, <2>1, <2>2, TailQueue
  <2>4. QED
    BY <2>3 DEF Posted
<1>4. Head(toWorker) = Message(type, id) => Posted(type, id)
  BY <1>1, TailQueue DEF Posted
<1>5. QED
  BY <1>2, <1>3, <1>4

\* No cancel is posted for a stream that has not been started.
LEMMA IdleHasNoCancel ==
    ASSUME TypeOK, StartedInv, NEW s \in Streams, consumer[s].state = "idle"
    PROVE  ~cancelled[s] /\ ~Posted("stream-cancel", s)
<1>1. Message("stream-cancel", s).type = "stream-cancel" /\ Message("stream-cancel", s).id = s
  BY DEF Message
<1>2. QED
  BY <1>1 DEF StartedInv, Started, Posted

\* How a step changes the queue of the host.
LEMMA QueueStep ==
    ASSUME Next
    PROVE  \/ UNCHANGED toWorker
           \/ toWorker' = <<>>
           \/ toWorker # <<>> /\ toWorker' = Tail(toWorker)
           \/ \E r \in Requests : Post(Message("method-call", r))
           \/ \E s \in Streams : Post(Message("stream-start", s)) /\ consumer[s].state = "idle"
           \/ \E s \in Streams : Post(Message("stream-cancel", s))
<1>1. ASSUME NEW r \in Requests, Call(r) \/ HostCall(r) \/ HostReply(r) \/ Reply(r)
      PROVE  \/ UNCHANGED toWorker
             \/ toWorker # <<>> /\ toWorker' = Tail(toWorker)
             \/ Post(Message("method-call", r))
  BY <1>1 DEF Call, HostCall, HostReply, Reply, ToHost
<1>2. ASSUME NEW s \in Streams,
             \/ Consumes(s) \/ HostStart(s) \/ HostCancel(s) \/ HostYield(s) \/ HostEnd(s)
             \/ ProxyChunks(s) \/ ProxyEnd(s)
      PROVE  \/ UNCHANGED toWorker
             \/ toWorker # <<>> /\ toWorker' = Tail(toWorker)
             \/ Post(Message("stream-start", s)) /\ consumer[s].state = "idle"
             \/ Post(Message("stream-cancel", s))
  BY <1>2 DEF Consumes, StartStream, Abort, NextChunk, Return, Throw, HostStart, HostCancel,
              HostYield, HostEnd, ProxyChunks, ProxyEnd, ToHost
<1>3. CASE Crash
  BY <1>3 DEF Crash
<1>4. QED
  BY <1>1, <1>2, <1>3 DEF Next, HostReceives, ProxyReceives

LEMMA OrderStep ==
    ASSUME TypeOK, StartedInv, OrderInv, Next
    PROVE  OrderInv'
<1>1. toWorker \in Seq(ToWorker)
  BY DEF TypeOK
<1>2. CASE UNCHANGED toWorker
  BY <1>2 DEF OrderInv
<1>3. CASE toWorker' = <<>>
  BY <1>3 DEF OrderInv
<1>4. CASE toWorker # <<>> /\ toWorker' = Tail(toWorker)
  <2>1. SUFFICES ASSUME NEW s \in Streams, NEW j \in DOMAIN Tail(toWorker), NEW k \in DOMAIN Tail(toWorker),
                        Tail(toWorker)[j] = Message("stream-start", s),
                        Tail(toWorker)[k] = Message("stream-cancel", s)
                 PROVE  j < k
    BY <1>4 DEF OrderInv
  <2>2. j + 1 \in DOMAIN toWorker /\ k + 1 \in DOMAIN toWorker
    BY <1>1, <1>4, TailQueue
  <2>3. toWorker[j + 1] = Message("stream-start", s) /\ toWorker[k + 1] = Message("stream-cancel", s)
    BY <1>1, <1>4, <2>1, TailQueue
  <2>4. j + 1 < k + 1 /\ j \in Nat /\ k \in Nat
    BY <1>1, <1>4, <2>2, <2>3, TailQueue DEF OrderInv
  <2>5. QED
    BY <2>4
<1>5. ASSUME NEW m \in ToWorker, Post(m),
             \A s \in Streams : m = Message("stream-start", s) => ~Posted("stream-cancel", s)
      PROVE  OrderInv'
  <2>1. CASE disposed
    BY <1>2, <1>5, <2>1 DEF Post
  <2>2. CASE ~disposed
    <3>1. toWorker' = Append(toWorker, m)
      BY <1>5, <2>2 DEF Post
    <3>2. SUFFICES ASSUME NEW s \in Streams,
                          NEW j \in DOMAIN Append(toWorker, m), NEW k \in DOMAIN Append(toWorker, m),
                          Append(toWorker, m)[j] = Message("stream-start", s),
                          Append(toWorker, m)[k] = Message("stream-cancel", s)
                   PROVE  j < k
      BY <3>1 DEF OrderInv
    <3>3. j # k
      BY <3>2, MessageIs
    <3>4. CASE j \in DOMAIN toWorker
      BY <1>1, <3>2, <3>4, AppendQueue DEF OrderInv
    <3>5. CASE j = Len(toWorker) + 1
      <4>1. m = Message("stream-start", s)
        BY <1>1, <3>2, <3>5, AppendQueue
      <4>2. k \in DOMAIN toWorker /\ toWorker[k] = Message("stream-cancel", s)
        BY <1>1, <3>2, <3>3, <3>5, AppendQueue
      <4>3. QED
        BY <1>5, <4>1, <4>2 DEF Posted
    <3>6. QED
      BY <1>1, <3>4, <3>5, AppendQueue
  <2>3. QED
    BY <2>1, <2>2
<1>6. ASSUME NEW r \in Requests, Post(Message("method-call", r))
      PROVE  OrderInv'
  BY <1>5, <1>6, MessageIs, MessageTypes
<1>7. ASSUME NEW s \in Streams, Post(Message("stream-start", s)), consumer[s].state = "idle"
      PROVE  OrderInv'
  BY <1>5, <1>7, IdleHasNoCancel, MessageIs, MessageTypes
<1>8. ASSUME NEW s \in Streams, Post(Message("stream-cancel", s))
      PROVE  OrderInv'
  BY <1>5, <1>8, MessageIs, MessageTypes
<1>9. QED
  BY <1>2, <1>3, <1>4, <1>6, <1>7, <1>8, QueueStep

\* A step that neither delivers a cancel, nor makes one due, nor starts a stream
\* leaves the effect of the cancels as it is.
LEMMA CancelFrom ==
    ASSUME CancelTakesEffect, disposed' = disposed,
           \A s \in Streams : cancelled'[s] /\ ~Posted("stream-cancel", s)' =>
               /\ cancelled[s] /\ ~Posted("stream-cancel", s)
               /\ Posted("stream-start", s)' => Posted("stream-start", s)
               /\ host'[s].state = "running" => host[s].state = "running"
               /\ host[s].aborted => host'[s].aborted
    PROVE  CancelTakesEffect'
BY DEF CancelTakesEffect

\* Posting or delivering a message leaves the others where they are.
LEMMA PostedKept ==
    ASSUME TypeOK, ~disposed, NEW m \in ToWorker,
           \/ Post(m)
           \/ toWorker # <<>> /\ Head(toWorker) = m /\ toWorker' = Tail(toWorker)
    PROVE  \A type, id : m # Message(type, id) => (Posted(type, id)' <=> Posted(type, id))
BY PostedPost, PostedTail

LEMMA CancelStep ==
    ASSUME TypeOK, StartedInv, OrderInv, CancelTakesEffect, Next
    PROVE  CancelTakesEffect'
<1>1. CASE disposed'
  BY <1>1 DEF CancelTakesEffect
<1>2. CASE ~disposed'
  <2>1. ~disposed /\ disposed' = disposed /\ ~Crash
    <3>1. ~Crash
      BY <1>2 DEF Crash
    <3>2. ASSUME NEW s \in Streams,
                 \/ Consumes(s) \/ HostStart(s) \/ HostCancel(s) \/ HostYield(s) \/ HostEnd(s)
                 \/ ProxyChunks(s) \/ ProxyEnd(s)
          PROVE  disposed' = disposed
      BY <3>2 DEF Consumes, StartStream, Abort, NextChunk, Return, Throw, HostStart, HostCancel,
                  HostYield, HostEnd, ProxyChunks, ProxyEnd
    <3>3. ASSUME NEW r \in Requests, Call(r) \/ HostCall(r) \/ HostReply(r) \/ Reply(r)
          PROVE  disposed' = disposed
      BY <3>3 DEF Call, HostCall, HostReply, Reply
    <3>4. QED
      BY <1>2, <3>1, <3>2, <3>3 DEF Next, HostReceives, ProxyReceives
  <2>2. ASSUME NEW r \in Requests, Call(r) \/ HostCall(r) \/ HostReply(r) \/ Reply(r)
        PROVE  CancelTakesEffect'
    <3>1. UNCHANGED cancelled /\ UNCHANGED host
      BY <2>2 DEF Call, HostCall, HostReply, Reply, streamVars, hostVars
    <3>2. \/ UNCHANGED toWorker
          \/ Post(Message("method-call", r))
          \/ toWorker # <<>> /\ Head(toWorker) = Message("method-call", r) /\ toWorker' = Tail(toWorker)
      BY <2>2 DEF Call, HostCall, HostReply, Reply, ToHost
    <3>3. \A s \in Streams : \A type \in {"stream-start", "stream-cancel"} :
              Posted(type, s)' <=> Posted(type, s)
      <4>1. CASE UNCHANGED toWorker
        BY <4>1 DEF Posted
      <4>2. CASE ~UNCHANGED toWorker
        BY <2>1, <3>2, <4>2, PostedKept, MessageIs, MessageTypes
      <4>3. QED
        BY <4>1, <4>2
    <3>4. QED
      BY <2>1, <3>1, <3>3, CancelFrom
  <2>3. ASSUME NEW t \in Streams, NextChunk(t) \/ Throw(t) \/ ProxyChunks(t) \/ ProxyEnd(t)
        PROVE  CancelTakesEffect'
    <3>1. UNCHANGED cancelled /\ UNCHANGED host /\ UNCHANGED toWorker
      BY <2>3 DEF NextChunk, Throw, ProxyChunks, ProxyEnd, hostVars
    <3>2. QED
      BY <2>1, <3>1, CancelFrom DEF Posted
  <2>4. ASSUME NEW t \in Streams, HostYield(t) \/ HostEnd(t)
        PROVE  CancelTakesEffect'
    <3>1. UNCHANGED cancelled /\ UNCHANGED toWorker
      BY <2>4 DEF HostYield, HostEnd, streamVars
    <3>2. \A s \in Streams : /\ host'[s].state = "running" => host[s].state = "running"
                             /\ host'[s].aborted = host[s].aborted
      <4>1. host \in [Streams -> HostLoop]
        BY DEF TypeOK
      <4>2. \A s \in Streams \ {t} : host'[s] = host[s]
        BY <2>4, <4>1 DEF HostYield, HostEnd
      <4>3. host[t].state = "running"
        BY <2>4 DEF HostYield, HostEnd
      <4>4. host'[t].aborted = host[t].aborted
        <5>1. CASE HostYield(t)
          BY <4>1, <5>1 DEF HostYield, HostLoop
        <5>2. CASE HostEnd(t)
          BY <4>1, <5>2 DEF HostEnd, HostLoop
        <5>3. QED
          BY <2>4, <5>1, <5>2
      <4>5. QED
        BY <4>2, <4>3, <4>4
    <3>3. QED
      BY <2>1, <3>1, <3>2, CancelFrom DEF Posted
  <2>5. ASSUME NEW t \in Streams, StartStream(t)
        PROVE  CancelTakesEffect'
    <3>1. UNCHANGED cancelled /\ UNCHANGED host /\ ~cancelled[t]
      BY <2>5, IdleHasNoCancel DEF StartStream, hostVars
    <3>2. UNCHANGED toWorker \/ Post(Message("stream-start", t))
      BY <2>5 DEF StartStream
    <3>3. \A s \in Streams \ {t} : \A type \in {"stream-start", "stream-cancel"} :
              Posted(type, s)' <=> Posted(type, s)
      <4>1. CASE UNCHANGED toWorker
        BY <4>1 DEF Posted
      <4>2. CASE Post(Message("stream-start", t))
        BY <2>1, <4>2, PostedKept, MessageIs, MessageTypes
      <4>3. QED
        BY <3>2, <4>1, <4>2
    <3>4. QED
      BY <2>1, <3>1, <3>3, CancelFrom
  <2>6. ASSUME NEW t \in Streams, Abort(t) \/ Return(t)
        PROVE  CancelTakesEffect'
    <3>1. /\ UNCHANGED host
          /\ \A s \in Streams \ {t} : cancelled'[s] = cancelled[s]
          /\ (UNCHANGED toWorker /\ cancelled[t]) \/ Post(Message("stream-cancel", t))
      BY <2>6 DEF Abort, Return, hostVars, TypeOK
    <3>2. \A s \in Streams \ {t} : \A type \in {"stream-start", "stream-cancel"} :
              Posted(type, s)' <=> Posted(type, s)
      <4>1. CASE UNCHANGED toWorker
        BY <4>1 DEF Posted
      <4>2. CASE Post(Message("stream-cancel", t))
        BY <2>1, <4>2, PostedKept, MessageIs, MessageTypes
      <4>3. QED
        BY <3>1, <4>1, <4>2
    <3>3. CASE UNCHANGED toWorker /\ cancelled[t]
      BY <2>1, <3>1, <3>3, CancelFrom DEF Posted
    <3>4. CASE Post(Message("stream-cancel", t))
      <4>1. Posted("stream-cancel", t)'
        BY <2>1, <3>4, PostedPost, MessageTypes
      <4>2. QED
        BY <2>1, <3>1, <3>2, <4>1, CancelFrom
    <3>5. QED
      BY <3>1, <3>3, <3>4
  <2>7. ASSUME NEW t \in Streams, HostStart(t)
        PROVE  CancelTakesEffect'
    <3>1. /\ UNCHANGED cancelled /\ \A s \in Streams \ {t} : host'[s] = host[s]
          /\ toWorker # <<>> /\ Head(toWorker) = Message("stream-start", t)
          /\ toWorker' = Tail(toWorker)
      BY <2>7 DEF HostStart, ToHost, streamVars, TypeOK
    <3>2. \A s \in Streams : Posted("stream-cancel", s)' <=> Posted("stream-cancel", s)
      BY <2>1, <3>1, PostedKept, MessageIs, MessageTypes
    <3>3. \A s \in Streams : Posted("stream-start", s)' => Posted("stream-start", s)
      BY <3>1, PostedTail
    <3>4. Posted("stream-start", t)
      BY <3>1, PostedTail
    <3>5. ~(cancelled[t] /\ ~Posted("stream-cancel", t))
      BY <2>1, <3>4 DEF CancelTakesEffect
    <3>6. QED
      BY <2>1, <3>1, <3>2, <3>3, <3>5, CancelFrom
  <2>8. ASSUME NEW t \in Streams, HostCancel(t)
        PROVE  CancelTakesEffect'
    <3>1. /\ UNCHANGED cancelled /\ \A s \in Streams \ {t} : host'[s] = host[s]
          /\ host'[t].state = "running" => host'[t].aborted
          /\ toWorker # <<>> /\ Head(toWorker) = Message("stream-cancel", t)
          /\ toWorker' = Tail(toWorker)
      BY <2>8 DEF HostCancel, HostAbort, ToHost, streamVars, TypeOK, HostLoop
    <3>2. \A s \in Streams \ {t} : \A type \in {"stream-start", "stream-cancel"} :
              Posted(type, s)' <=> Posted(type, s)
      BY <2>1, <3>1, PostedKept, MessageIs, MessageTypes
    <3>3. ~Posted("stream-start", t)'
      <4>1. toWorker \in Seq(ToWorker)
        BY DEF TypeOK
      <4>2. \A j \in DOMAIN toWorker : toWorker[j] # Message("stream-start", t)
        BY <3>1, <4>1, TailQueue DEF OrderInv
      <4>3. QED
        BY <3>1, <4>2, PostedTail DEF Posted
    <3>4. QED
      BY <2>1, <3>1, <3>2, <3>3 DEF CancelTakesEffect
  <2>9. QED
    BY <2>1, <2>2, <2>3, <2>4, <2>5, <2>6, <2>7, <2>8
       DEF Next, HostReceives, ProxyReceives, Consumes
<1>3. QED
  BY <1>1, <1>2

CancelInv == TypeOK /\ StartedInv /\ OrderInv /\ CancelTakesEffect

LEMMA InitCancel == Init => CancelInv
<1>1. SUFFICES ASSUME Init PROVE StartedInv /\ OrderInv /\ CancelTakesEffect
  BY InitTypes DEF CancelInv
<1>2. QED
  BY <1>1 DEF Init, StartedInv, OrderInv, CancelTakesEffect

LEMMA NextCancel == CancelInv /\ [Next]_vars => CancelInv'
<1>1. SUFFICES ASSUME CancelInv, [Next]_vars PROVE CancelInv'
  OBVIOUS
<1>2. CASE UNCHANGED vars
  <2>1. StartedInv' /\ OrderInv'
    BY <1>1, <1>2 DEF CancelInv, StartedInv, Started, OrderInv, vars
  <2>2. CancelTakesEffect'
    BY <1>1, <1>2 DEF CancelInv, CancelTakesEffect, Posted, vars
  <2>3. QED
    BY <1>1, <2>1, <2>2, NextTypes DEF CancelInv
<1>3. CASE Next
  BY <1>1, <1>3, NextTypes, StartedStep, OrderStep, CancelStep DEF CancelInv
<1>4. QED
  BY <1>1, <1>2, <1>3

\* A cancel that has arrived has aborted its stream in the worker, which is never
\* started after it, for any number of streams and any traffic between.
THEOREM CancelTakesEffectHolds == Spec => []CancelTakesEffect
<1>1. CancelInv => CancelTakesEffect
  BY DEF CancelInv
<1>2. QED
  BY <1>1, InitCancel, NextCancel, PTL DEF Spec


(***************************************************************************)
(* Sequences joined into one.  Joined is a recursive function: what it     *)
(* gives is shown by the least counterexample, for which the order of the  *)
(* natural numbers has to be well founded (WellFoundedInduction).          *)
(***************************************************************************)

Before == {p \in Nat \X Nat : p[1] < p[2]}

LEMMA LeastNumber ==
    ASSUME NEW T, T \subseteq Nat, T # {}
    PROVE  \E n \in T : \A m \in T : n <= m
<1>1. IsWellFoundedOn(Before, Nat)
  BY NatLessThanWellFounded DEF OpToRel, Before
<1>2. PICK n \in T : \A m \in T : <<m, n>> \notin Before
  BY <1>1, WFMin
<1>3. ASSUME NEW m \in T PROVE n <= m
  <2>1. ~(m < n)
    <3>1. CASE m < n
      <4>1. <<m, n>> \in Nat \X Nat 
        OBVIOUS
      <4>2. <<m, n>>[1] = m /\ <<m, n>>[2] = n
        OBVIOUS
      <4>3. <<m, n>> \in Before
        BY <3>1, <4>1, <4>2 DEF Before
      <4>4. QED
        BY <4>3, <1>2
    <3>2. QED
      BY <3>1
  <2>2. QED
    BY <2>1
<1>4. QED
  BY <1>3


\* f[k] joins the first k of the sequences p.
IsJoin(f, p, n) == f = [k \in 0 .. n |-> IF k = 0 THEN <<>> ELSE f[k - 1] \o p[k]]

\* A set with 0 in which every number is followed by the next.
LEMMA NumberInduction ==
    ASSUME NEW n \in Nat, NEW T, T \subseteq 0 .. n, 0 \in T,
           \A k \in 1 .. n : k - 1 \in T => k \in T
    PROVE  T = 0 .. n
<1>1. SUFFICES ASSUME (0 .. n) \ T # {} PROVE FALSE
  OBVIOUS
<1>2. PICK m \in (0 .. n) \ T : \A k \in (0 .. n) \ T : m <= k
  <2>1. (0 .. n) \ T \subseteq Nat
    OBVIOUS
  <2>2. QED
    BY <1>1, <2>1, LeastNumber
<1>3. m \in 1 .. n /\ m - 1 \in T
  BY <1>2
<1>4. QED
  BY <1>2, <1>3

LEMMA JoinExists ==
    ASSUME NEW S, NEW p \in Seq(Seq(S)), NEW n \in 0 .. Len(p)
    PROVE  \E f \in [0 .. n -> Seq(S)] : IsJoin(f, p, n)
<1> DEFINE T == {m \in 0 .. Len(p) : \E f \in [0 .. m -> Seq(S)] : IsJoin(f, p, m)}
<1>1. Len(p) \in Nat
  OBVIOUS
<1>2. 0 \in T
  <2> DEFINE f == [k \in 0 .. 0 |-> <<>>]
  <2>1. IsJoin(f, p, 0)
    BY DEF IsJoin
  <2>2. f \in [0 .. 0 -> Seq(S)]
    OBVIOUS
  <2> HIDE DEF f
  <2>3. QED
    BY <1>1, <2>1, <2>2
<1>3. ASSUME NEW m \in 1 .. Len(p), m - 1 \in T PROVE m \in T
  <2>1. PICK f \in [0 .. m - 1 -> Seq(S)] : IsJoin(f, p, m - 1)
    BY <1>3
  <2>2. p[m] \in Seq(S) /\ m \in 0 .. Len(p) /\ m \in Nat
    BY <1>1
  <2> HIDE DEF T
  <2> DEFINE g == [k \in 0 .. m |-> IF k = m THEN f[m - 1] \o p[m] ELSE f[k]]
  <2>3. ASSUME NEW k \in 0 .. m - 1 PROVE f[k] = IF k = 0 THEN <<>> ELSE f[k - 1] \o p[k]
    BY <2>1 DEF IsJoin
  <2>4. g \in [0 .. m -> Seq(S)]
    <3>1. f[m - 1] \o p[m] \in Seq(S)
      <4>1. f[m - 1] \in Seq(S)
        BY <2>1, <2>2
      <4>2. QED
        BY <2>2, <4>1
    <3>2. QED
      BY <3>1, <2>1, <2>2
  <2>5. ASSUME NEW k \in 0 .. m PROVE g[k] = IF k = 0 THEN <<>> ELSE g[k - 1] \o p[k]
    <3>1. CASE k = m
      <4>1. m \in 0 .. m /\ m - 1 \in 0 .. m /\ m - 1 # m /\ m # 0
        BY <2>2
      <4>2. g[m] = f[m - 1] \o p[m] /\ g[m - 1] = f[m - 1]
        BY <4>1
      <4> HIDE DEF g
      <4>3. QED
        BY <3>1, <4>1, <4>2
    <3>2. CASE k # m
      <4>1. k \in 0 .. m - 1 /\ (k # 0 => k - 1 \in 0 .. m /\ k - 1 # m)
        BY <3>2, <2>2
      <4>2. g[k] = f[k] /\ (k # 0 => g[k - 1] = f[k - 1])
        BY <3>2, <4>1
      <4> HIDE DEF g
      <4>3. QED
        BY <4>1, <4>2, <2>3
    <3>3. QED
      BY <3>1, <3>2
  <2>6. IsJoin(g, p, m)
    BY <2>5 DEF IsJoin
  <2> HIDE DEF g
  <2>7. QED
    BY <2>2, <2>4, <2>6 DEF T
<1>4. T = 0 .. Len(p)
  <2>1. T \subseteq 0 .. Len(p)
    OBVIOUS
  <2> HIDE DEF T
  <2>2. QED
    BY <1>1, <1>2, <1>3, <2>1, NumberInduction
<1>5. QED
  BY <1>4

LEMMA JoinUnique ==
    ASSUME NEW p, NEW n \in Nat, NEW f, NEW g, IsJoin(f, p, n), IsJoin(g, p, n)
    PROVE  \A k \in 0 .. n : f[k] = g[k]
<1> DEFINE T == {j \in 0 .. n : f[j] = g[j]}
<1>1. ASSUME NEW j \in 0 .. n
      PROVE  /\ f[j] = IF j = 0 THEN <<>> ELSE f[j - 1] \o p[j]
             /\ g[j] = IF j = 0 THEN <<>> ELSE g[j - 1] \o p[j]
  BY DEF IsJoin
<1>2. 0 \in T
  BY <1>1
<1>3. ASSUME NEW k \in 1 .. n, k - 1 \in T PROVE k \in T
  <2>1. k \in 0 .. n /\ k # 0 /\ f[k - 1] = g[k - 1]
    BY <1>3
  <2>2. QED
    BY <1>1, <2>1
<1>4. T = 0 .. n
  <2>1. T \subseteq 0 .. n
    OBVIOUS
  <2> HIDE DEF T
  <2>2. QED
    BY <1>2, <1>3, <2>1, NumberInduction
<1>5. QED
  BY <1>4

\* Whatever satisfies the recursion of Joined is Joined.
LEMMA JoinedIs ==
    ASSUME NEW S, NEW p \in Seq(Seq(S)), NEW f, IsJoin(f, p, Len(p))
    PROVE  /\ Joined(p) = f[Len(p)]
           /\ Joined(p) \in Seq(S)
<1> DEFINE n == Len(p)
           upto == CHOOSE h : h = [k \in 0 .. n |-> IF k = 0 THEN <<>> ELSE h[k - 1] \o p[k]]
<1>1. Joined(p) = upto[n]
  BY Zenon DEF Joined
<1>2. n \in Nat /\ n \in 0 .. n
  OBVIOUS
<1>3. PICK h \in [0 .. n -> Seq(S)] : IsJoin(h, p, n)
  BY <1>2, JoinExists
<1>4. IsJoin(upto, p, n)
  BY <1>3, Zenon DEF IsJoin
<1>5. upto[n] = h[n] /\ f[n] = h[n]
  <2>1. IsJoin(f, p, n)
    OBVIOUS
  <2> HIDE DEF n, upto
  <2>2. QED
    BY <1>2, <1>3, <1>4, <2>1, JoinUnique
<1>6. h[n] \in Seq(S)
  BY <1>2, <1>3
<1>7. QED
  BY <1>1, <1>5, <1>6

LEMMA InAnyOrder ==
    ASSUME NEW S
    PROVE  \A x, y, z \in Seq(S) : (x \o y) \o z = x \o (y \o z)
<1>1. ASSUME NEW x \in Seq(S), NEW y \in Seq(S), NEW z \in Seq(S)
      PROVE  (x \o y) \o z = x \o (y \o z)
  BY <1>1, ConcatAssociative
<1>2. QED
  BY <1>1

LEMMA JoinedNothing ==
    ASSUME NEW S, NEW p \in Seq(Seq(S)), \A k \in 1 .. Len(p) : p[k] = <<>>
    PROVE  Joined(p) = <<>>
<1> DEFINE f == [k \in 0 .. Len(p) |-> <<>>]
<1>1. Len(p) \in Nat /\ f[Len(p)] = <<>>
  OBVIOUS
<1>2. ASSUME NEW k \in 0 .. Len(p) PROVE f[k] = IF k = 0 THEN <<>> ELSE f[k - 1] \o p[k]
  <2>1. CASE k = 0
    BY <2>1
  <2>2. CASE k # 0
    <3>1. k \in 1 .. Len(p) /\ k - 1 \in 0 .. Len(p)
      BY <1>1, <2>2
    <3>2. f[k] = <<>> /\ f[k - 1] = <<>> /\ p[k] = <<>>
      BY <3>1
    <3>3. <<>> \o <<>> = <<>>
      OBVIOUS
    <3> HIDE DEF f
    <3>4. QED
      BY <2>2, <3>2, <3>3
  <2>3. QED
    BY <2>1, <2>2
<1>3. IsJoin(f, p, Len(p))
  BY <1>2 DEF IsJoin
<1> HIDE DEF f
<1>4. QED
  BY <1>1, <1>3, JoinedIs

\* A sequence more at the end.
LEMMA JoinedAppend ==
    ASSUME NEW S, NEW p \in Seq(Seq(S)), NEW c \in Seq(S)
    PROVE  /\ Joined(Append(p, c)) = Joined(p) \o c
           /\ Joined(p) \in Seq(S)
<1> DEFINE q == Append(p, c)
           n == Len(p)
<1>1. /\ q \in Seq(Seq(S)) /\ n \in Nat /\ Len(q) = n + 1
      /\ q[n + 1] = c /\ \A k \in 1 .. n : q[k] = p[k]
  OBVIOUS
<1>2. PICK f \in [0 .. n + 1 -> Seq(S)] : IsJoin(f, q, n + 1)
  <2>1. n + 1 \in 0 .. Len(q)
    BY <1>1
  <2> HIDE DEF q, n
  <2>2. QED
    BY <1>1, <2>1, JoinExists
<1>3. ASSUME NEW k \in 0 .. n + 1 PROVE f[k] = IF k = 0 THEN <<>> ELSE f[k - 1] \o q[k]
  BY <1>2 DEF IsJoin
<1> DEFINE g == [k \in 0 .. n |-> f[k]]
<1>4. ASSUME NEW k \in 0 .. n PROVE g[k] = IF k = 0 THEN <<>> ELSE g[k - 1] \o p[k]
  <2> HIDE DEF q, n
  <2>1. k \in 0 .. n + 1 /\ (k # 0 => k - 1 \in 0 .. n /\ k \in 1 .. n)
    BY <1>1
  <2>2. f[k] = IF k = 0 THEN <<>> ELSE f[k - 1] \o q[k]
    BY <1>3, <2>1
  <2>3. g[k] = f[k] /\ (k # 0 => q[k] = p[k] /\ g[k - 1] = f[k - 1])
    BY <1>1, <2>1
  <2> HIDE DEF g
  <2>4. QED
    BY <2>2, <2>3
<1>5. IsJoin(g, p, n)
  BY <1>4 DEF IsJoin
<1>6. Joined(p) = f[n] /\ Joined(p) \in Seq(S)
  <2>1. g[n] = f[n]
    BY <1>1
  <2> HIDE DEF g
  <2>2. QED
    BY <2>1, <1>5, JoinedIs
<1>7. Joined(q) = f[n + 1]
  <2> HIDE DEF q, n
  <2>1. QED
    BY <1>1, <1>2, JoinedIs
<1>8. f[n + 1] = f[n] \o c
  <2> HIDE DEF q, n
  <2>1. n + 1 \in 0 .. n + 1 /\ n + 1 # 0 /\ n + 1 - 1 = n
    BY <1>1
  <2>2. PICK j \in 0 .. n + 1 : j = n + 1
    BY <2>1
  <2>3. f[j] = IF j = 0 THEN <<>> ELSE f[j - 1] \o q[j]
    BY <1>3
  <2>4. j # 0 /\ j - 1 = n /\ q[j] = c
    BY <1>1, <2>1, <2>2
  <2>5. QED
    BY <2>2, <2>3, <2>4
<1>9. QED
  BY <1>6, <1>7, <1>8

\* A sequence less at the front.
LEMMA JoinedTail ==
    ASSUME NEW S, NEW p \in Seq(Seq(S)), p # <<>>
    PROVE  /\ Joined(p) = Head(p) \o Joined(Tail(p))
           /\ Joined(Tail(p)) \in Seq(S)
<1> DEFINE q == Tail(p)
           n == Len(q)
<1>1. /\ q \in Seq(Seq(S)) /\ n \in Nat /\ Len(p) = n + 1
      /\ Head(p) = p[1] /\ Head(p) \in Seq(S) /\ \A k \in 1 .. n : q[k] = p[k + 1]
      /\ \A k \in 1 .. n : q[k] \in Seq(S)
  OBVIOUS
<1>2. PICK f : f \in [0 .. n + 1 -> Seq(S)] /\ IsJoin(f, p, n + 1)
  <2>1. n + 1 \in 0 .. Len(p)
    BY <1>1
  <2> HIDE DEF q, n
  <2>2. QED
    BY <1>1, <2>1, JoinExists
<1>3. PICK g : g \in [0 .. n -> Seq(S)] /\ IsJoin(g, q, n)
  <2>1. n \in 0 .. Len(q)
    BY <1>1
  <2> HIDE DEF q, n
  <2>2. QED
    BY <1>1, <2>1, JoinExists
<1>4. ASSUME NEW k \in 0 .. n + 1 PROVE f[k] = IF k = 0 THEN <<>> ELSE f[k - 1] \o p[k]
  BY <1>2 DEF IsJoin
<1>5. ASSUME NEW k \in 0 .. n PROVE g[k] = IF k = 0 THEN <<>> ELSE g[k - 1] \o q[k]
  BY <1>3 DEF IsJoin
<1> DEFINE T == {k \in 0 .. n : f[k + 1] = Head(p) \o g[k]}
<1> HIDE DEF q, n
<1>6. 0 \in T
  <2>1. f[1] = f[0] \o p[1] /\ f[0] = <<>> /\ g[0] = <<>>
    <3>1. 1 \in 0 .. n + 1 /\ 0 \in 0 .. n + 1 /\ 0 \in 0 .. n /\ 1 - 1 = 0 /\ 1 # 0
      BY <1>1
    <3>2. f[1] = IF 1 = 0 THEN <<>> ELSE f[1 - 1] \o p[1]
      BY <3>1, <1>4
    <3>3. f[0] = <<>> /\ g[0] = <<>>
      BY <3>1, <1>4, <1>5
    <3>4. QED
      BY <3>1, <3>2, <3>3
  <2>2. <<>> \o Head(p) = Head(p) /\ Head(p) \o <<>> = Head(p)
    BY <1>1, ConcatEmptySeq
  <2>3. 0 \in 0 .. n /\ 0 + 1 = 1
    BY <1>1
  <2>4. f[1] = Head(p) \o g[0]
    BY <1>1, <2>1, <2>2
  <2>5. QED
    BY <2>3, <2>4
<1>7. ASSUME NEW k \in 1 .. n, k - 1 \in T PROVE k \in T
  <2>1. /\ k - 1 \in 0 .. n /\ k \in 0 .. n /\ k # 0
        /\ k + 1 \in 0 .. n + 1 /\ k + 1 # 0 /\ k + 1 - 1 = k /\ k - 1 + 1 = k
    BY <1>1
  <2>2. f[k] = Head(p) \o g[k - 1]
    BY <1>7, <2>1
  <2>3. f[k + 1] = f[k] \o p[k + 1] /\ g[k] = g[k - 1] \o q[k]
    <3>1. f[k + 1] = IF k + 1 = 0 THEN <<>> ELSE f[k + 1 - 1] \o p[k + 1]
      <4>1. \A j \in 0 .. n + 1 : f[j] = IF j = 0 THEN <<>> ELSE f[j - 1] \o p[j]
        BY <1>4
      <4>2. PICK j \in 0 .. n + 1 : j = k + 1
        BY <2>1
      <4>3. f[j] = IF j = 0 THEN <<>> ELSE f[j - 1] \o p[j]
        BY <4>1
      <4>4. QED
        BY <4>2, <4>3
    <3>2. g[k] = IF k = 0 THEN <<>> ELSE g[k - 1] \o q[k]
      BY <1>5, <2>1
    <3>3. QED
      BY <2>1, <3>1, <3>2
  <2>4. Head(p) \in Seq(S) /\ g[k - 1] \in Seq(S) /\ q[k] \in Seq(S) /\ p[k + 1] = q[k]
    BY <1>1, <1>3, <2>1
  <2>5. (Head(p) \o g[k - 1]) \o q[k] = Head(p) \o (g[k - 1] \o q[k])
    <3>1. \A x, y, z \in Seq(S) : (x \o y) \o z = x \o (y \o z)
      BY InAnyOrder
    <3>2. QED
      BY <2>4, <3>1, Zenon
  <2>6. QED
    BY <2>1, <2>2, <2>3, <2>4, <2>5
<1>8. f[n + 1] = Head(p) \o g[n]
  <2>1. T \subseteq 0 .. n
    OBVIOUS
  <2>2. n \in T
    <3> HIDE DEF T
    <3>1. T = 0 .. n
      BY <1>1, <1>6, <1>7, <2>1, NumberInduction
    <3>2. QED
      BY <1>1, <3>1
  <2>3. QED
    BY <2>2
<1>9. Joined(p) = f[n + 1]
  BY <1>1, <1>2, JoinedIs
<1>10. Joined(q) = g[n] /\ Joined(q) \in Seq(S)
  <2>1. IsJoin(g, q, Len(q))
    BY <1>3 DEF n
  <2>2. QED
    BY <1>1, <2>1, JoinedIs DEF n
<1>11. QED
  BY <1>8, <1>9, <1>10 DEF q

(***************************************************************************)
(* What the proxy's queue carries of a stream.                             *)
(***************************************************************************)

Pieces(q, s) == [k \in DOMAIN q |-> ChunksOf(s, q[k])]
Way(q, s)    == Joined(Pieces(q, s))

\* m is about the stream s, and is its last message.
About(m, s) == m.type \in StreamEvents /\ m.id = s
EndOf(m, s) == m.type \in {"stream-done", "stream-error"} /\ m.id = s

\* Nothing of s in the queue; its end is; nothing of s follows it.
Silent(q, s)   == \A k \in DOMAIN q : ~About(q[k], s)
HasEnd(q, s)   == \E k \in DOMAIN q : EndOf(q[k], s)
EndsLast(q, s) == \A j, k \in DOMAIN q : EndOf(q[j], s) /\ About(q[k], s) => k <= j

LEMMA ChunksOfType ==
    ASSUME NEW m \in ToProxy, NEW s
    PROVE  ChunksOf(s, m) \in Seq(Chunks) /\ (~About(m, s) \/ EndOf(m, s) => ChunksOf(s, m) = <<>>)
BY DEF ToProxy, ChunksOf, About, EndOf, StreamEvents

LEMMA PiecesType ==
    ASSUME NEW q \in Seq(ToProxy), NEW s
    PROVE  /\ Pieces(q, s) \in Seq(Seq(Chunks)) /\ Len(Pieces(q, s)) = Len(q) /\ Len(q) \in Nat
           /\ DOMAIN q = 1 .. Len(q)
           /\ \A k \in 1 .. Len(q) : Pieces(q, s)[k] = ChunksOf(s, q[k])
<1>1. Len(q) \in Nat /\ DOMAIN q = 1 .. Len(q) /\ \A k \in 1 .. Len(q) : q[k] \in ToProxy
  OBVIOUS
<1>2. \A k \in 1 .. Len(q) : ChunksOf(s, q[k]) \in Seq(Chunks)
  BY <1>1, ChunksOfType
<1>3. QED
  BY <1>1, <1>2 DEF Pieces

LEMMA WayType ==
    ASSUME NEW q \in Seq(ToProxy), NEW s
    PROVE  Way(q, s) \in Seq(Chunks)
<1>1. Pieces(q, s) \in Seq(Seq(Chunks)) /\ <<>> \in Seq(Chunks)
  BY PiecesType
<1>2. QED
  BY <1>1, JoinedAppend DEF Way

\* A message more, at the end of the queue.
LEMMA ChannelAppend ==
    ASSUME NEW q \in Seq(ToProxy), NEW m \in ToProxy, NEW s
    PROVE  /\ Way(Append(q, m), s) = Way(q, s) \o ChunksOf(s, m)
           /\ Silent(Append(q, m), s) <=> (Silent(q, s) /\ ~About(m, s))
           /\ HasEnd(Append(q, m), s) <=> (HasEnd(q, s) \/ EndOf(m, s))
           /\ EndsLast(q, s) /\ (~HasEnd(q, s) \/ ~About(m, s)) => EndsLast(Append(q, m), s)
<1> DEFINE r == Append(q, m)
<1>1. /\ r \in Seq(ToProxy) /\ Len(r) = Len(q) + 1 /\ Len(q) \in Nat
      /\ DOMAIN q = 1 .. Len(q) /\ DOMAIN r = DOMAIN q \cup {Len(q) + 1}
      /\ DOMAIN r = 1 .. Len(q) + 1
      /\ \A k \in 1 .. Len(q) : r[k] = q[k]
      /\ r[Len(q) + 1] = m
  BY AppendQueue
<1> HIDE DEF r
<1>2. Pieces(r, s) = Append(Pieces(q, s), ChunksOf(s, m))
  <2>1. /\ Pieces(r, s) \in Seq(Seq(Chunks)) /\ Len(Pieces(r, s)) = Len(q) + 1
        /\ \A k \in 1 .. Len(q) + 1 : Pieces(r, s)[k] = ChunksOf(s, r[k])
    BY <1>1, PiecesType
  <2>2. /\ Pieces(q, s) \in Seq(Seq(Chunks)) /\ Len(Pieces(q, s)) = Len(q)
        /\ \A k \in 1 .. Len(q) : Pieces(q, s)[k] = ChunksOf(s, q[k])
    BY PiecesType
  <2>3. ChunksOf(s, m) \in Seq(Chunks)
    BY ChunksOfType
  <2> DEFINE a == Append(Pieces(q, s), ChunksOf(s, m))
  <2>4. /\ a \in Seq(Seq(Chunks)) /\ Len(a) = Len(q) + 1 /\ a[Len(q) + 1] = ChunksOf(s, m)
        /\ \A k \in 1 .. Len(q) : a[k] = Pieces(q, s)[k]
    BY <2>2, <2>3, AppendQueue
  <2> HIDE DEF a
  <2>5. \A k \in 1 .. Len(q) + 1 : a[k] = Pieces(r, s)[k]
    BY <1>1, <2>1, <2>2, <2>4
  <2>6. Pieces(r, s) = a
    BY <1>1, <2>1, <2>4, <2>5, SeqEqual
  <2>7. QED
    BY <2>6 DEF a
<1>3. Way(r, s) = Way(q, s) \o ChunksOf(s, m)
  <2>1. Pieces(q, s) \in Seq(Seq(Chunks)) /\ ChunksOf(s, m) \in Seq(Chunks)
    BY PiecesType, ChunksOfType
  <2>2. QED
    BY <1>2, <2>1, JoinedAppend DEF Way
<1>4. Silent(r, s) <=> (Silent(q, s) /\ ~About(m, s))
  BY <1>1 DEF Silent
<1>5. HasEnd(r, s) <=> (HasEnd(q, s) \/ EndOf(m, s))
  BY <1>1 DEF HasEnd
<1>6. ASSUME EndsLast(q, s), ~HasEnd(q, s) \/ ~About(m, s)
      PROVE  EndsLast(r, s)
  <2>1. SUFFICES ASSUME NEW j \in DOMAIN r, NEW k \in DOMAIN r, EndOf(r[j], s), About(r[k], s)
                 PROVE  k <= j
    BY DEF EndsLast
  <2>2. CASE j \in DOMAIN q /\ k \in DOMAIN q
    BY <1>1, <1>6, <2>1, <2>2 DEF EndsLast
  <2>3. CASE j = Len(q) + 1
    BY <1>1, <2>3
  <2>4. CASE j \in DOMAIN q /\ k = Len(q) + 1
    BY <1>1, <1>6, <2>1, <2>4 DEF HasEnd
  <2>5. QED
    BY <1>1, <2>2, <2>3, <2>4
<1>7. QED
  BY <1>3, <1>4, <1>5, <1>6 DEF r

\* A message less, at its head.
LEMMA ChannelTail ==
    ASSUME NEW q \in Seq(ToProxy), q # <<>>, NEW s
    PROVE  /\ Way(q, s) = ChunksOf(s, Head(q)) \o Way(Tail(q), s)
           /\ Silent(q, s) <=> (Silent(Tail(q), s) /\ ~About(Head(q), s))
           /\ HasEnd(Tail(q), s) => HasEnd(q, s)
           /\ EndOf(Head(q), s) => HasEnd(q, s)
           /\ EndsLast(q, s) => EndsLast(Tail(q), s)
           /\ EndsLast(q, s) /\ EndOf(Head(q), s) => Silent(Tail(q), s)
<1> DEFINE r == Tail(q)
<1>1. /\ r \in Seq(ToProxy) /\ Len(q) = Len(r) + 1 /\ Len(r) \in Nat
      /\ DOMAIN q = 1 .. Len(q) /\ DOMAIN r = 1 .. Len(r)
      /\ \A k \in 1 .. Len(r) : r[k] = q[k + 1]
      /\ Head(q) = q[1] /\ Head(q) \in ToProxy
  BY TailQueue
<1> HIDE DEF r
<1>2. /\ Tail(Pieces(q, s)) = Pieces(r, s) /\ Head(Pieces(q, s)) = ChunksOf(s, Head(q))
      /\ Pieces(q, s) \in Seq(Seq(Chunks)) /\ Pieces(q, s) # <<>>
  <2>1. /\ Pieces(r, s) \in Seq(Seq(Chunks)) /\ Len(Pieces(r, s)) = Len(r)
        /\ \A k \in 1 .. Len(r) : Pieces(r, s)[k] = ChunksOf(s, r[k])
    BY <1>1, PiecesType
  <2>2. /\ Pieces(q, s) \in Seq(Seq(Chunks)) /\ Len(Pieces(q, s)) = Len(r) + 1
        /\ \A k \in 1 .. Len(r) + 1 : Pieces(q, s)[k] = ChunksOf(s, q[k])
    BY <1>1, PiecesType
  <2>3. Pieces(q, s) # <<>>
    BY <1>1, <2>2
  <2> DEFINE p == Pieces(q, s)
             a == Tail(p)
  <2>4. /\ a \in Seq(Seq(Chunks)) /\ Len(a) = Len(r) /\ \A k \in 1 .. Len(r) : a[k] = p[k + 1]
        /\ Head(p) = p[1]
    <3>1. p \in Seq(Seq(Chunks)) /\ p # <<>> /\ Len(p) = Len(r) + 1
      BY <2>2, <2>3
    <3> HIDE DEF p
    <3>2. QED
      BY <1>1, <3>1, TailQueue
  <2> HIDE DEF a
  <2>5. \A k \in 1 .. Len(r) : a[k] = Pieces(r, s)[k]
    BY <1>1, <2>1, <2>2, <2>4
  <2>6. Pieces(r, s) = a
    BY <1>1, <2>1, <2>4, <2>5, SeqEqual
  <2>7. Head(p) = ChunksOf(s, Head(q))
    BY <1>1, <2>2, <2>4
  <2>8. QED
    BY <2>2, <2>3, <2>6, <2>7 DEF a
<1>3. Way(q, s) = ChunksOf(s, Head(q)) \o Way(r, s)
  BY <1>2, JoinedTail DEF Way
<1>4. Silent(q, s) <=> (Silent(r, s) /\ ~About(Head(q), s))
  <2>1. ASSUME Silent(q, s) PROVE Silent(r, s) /\ ~About(Head(q), s)
    BY <1>1, <2>1 DEF Silent
  <2>2. ASSUME Silent(r, s), ~About(Head(q), s), NEW k \in DOMAIN q PROVE ~About(q[k], s)
    <3>1. CASE k = 1
      BY <1>1, <2>2, <3>1
    <3>2. CASE k # 1
      <4>1. PICK j \in 1 .. Len(r) : k = j + 1
        <5>1. k - 1 \in 1 .. Len(r) /\ k = (k - 1) + 1
          BY <1>1, <3>2
        <5>2. QED
          BY <5>1
      <4>2. QED
        BY <1>1, <2>2, <4>1 DEF Silent
    <3>3. QED
      BY <3>1, <3>2
  <2>3. QED
    BY <2>1, <2>2 DEF Silent
<1>5. /\ HasEnd(r, s) => HasEnd(q, s)
      /\ EndOf(Head(q), s) => HasEnd(q, s)
  <2>1. ASSUME NEW k \in DOMAIN r, EndOf(r[k], s) PROVE HasEnd(q, s)
    <3>1. k + 1 \in DOMAIN q /\ EndOf(q[k + 1], s)
      BY <1>1, <2>1
    <3>2. QED
      BY <3>1 DEF HasEnd
  <2>2. 1 \in DOMAIN q
    BY <1>1
  <2>3. QED
    BY <1>1, <2>1, <2>2 DEF HasEnd
<1>6. ASSUME EndsLast(q, s) PROVE EndsLast(r, s)
  <2>1. SUFFICES ASSUME NEW j \in DOMAIN r, NEW k \in DOMAIN r, EndOf(r[j], s), About(r[k], s)
                 PROVE  k <= j
    BY DEF EndsLast
  <2>2. /\ j + 1 \in DOMAIN q /\ k + 1 \in DOMAIN q
        /\ EndOf(q[j + 1], s) /\ About(q[k + 1], s)
    BY <1>1, <2>1
  <2>3. k + 1 <= j + 1
    BY <1>6, <2>2 DEF EndsLast
  <2>4. QED
    BY <1>1, <2>3
<1>7. ASSUME EndsLast(q, s), EndOf(Head(q), s), NEW k \in DOMAIN r PROVE ~About(r[k], s)
  <2>1. 1 \in DOMAIN q /\ k + 1 \in DOMAIN q /\ ~(k + 1 <= 1) /\ q[k + 1] = r[k]
    BY <1>1
  <2>2. ~About(q[k + 1], s)
    BY <1>1, <1>7, <2>1 DEF EndsLast
  <2>3. QED
    BY <2>1, <2>2
<1>8. QED
  BY <1>3, <1>4, <1>5, <1>6, <1>7 DEF r, Silent

LEMMA WaySilent ==
    ASSUME NEW q \in Seq(ToProxy), NEW s, Silent(q, s)
    PROVE  Way(q, s) = <<>>
<1>1. /\ Pieces(q, s) \in Seq(Seq(Chunks)) /\ Len(Pieces(q, s)) = Len(q) /\ Len(q) \in Nat
      /\ DOMAIN q = 1 .. Len(q) /\ \A k \in 1 .. Len(q) : Pieces(q, s)[k] = ChunksOf(s, q[k])
  BY PiecesType
<1>2. ASSUME NEW k \in 1 .. Len(q) PROVE Pieces(q, s)[k] = <<>>
  <2>1. k \in DOMAIN q /\ q[k] \in ToProxy /\ ~About(q[k], s)
    BY <1>1 DEF Silent
  <2>2. ChunksOf(s, q[k]) = <<>>
    BY <2>1, ChunksOfType
  <2>3. QED
    BY <1>1, <2>2
<1>3. QED
  BY <1>1, <1>2, JoinedNothing DEF Way

(***************************************************************************)
(* Delivery.                                                               *)
(***************************************************************************)

Over(s) == host[s].state \in {"done", "error"}

Starts(s) == Carried(toWorker, {Message("stream-start", s)})

\* A stream is started once; a loop that has not begun has made nothing, one that
\* is over has flushed everything, and nothing follows its last message.
HostSide(s) ==
    /\ Starts(s) + (IF host[s].state = "idle" THEN 0 ELSE 1) <= 1
    /\ host[s].state = "idle" => host[s].made = 0 /\ host[s].buffer = <<>> /\ Silent(toProxy, s)
    /\ Over(s) => host[s].buffer = <<>>
    /\ HasEnd(toProxy, s) => Over(s)
    /\ EndsLast(toProxy, s)

\* What the consumer got, what is queued, on its way and buffered.
Flow(s) == consumer[s].got \o entry[s].queue \o Way(toProxy, s) \o host[s].buffer

\* The consumer has, or is about to have, everything.
Complete(s) == Over(s) /\ consumer[s].got = Upto(host[s].made)

\* NothingLost and EndIsComplete need to know that only a stream without chunks
\* waits, and that an entry is closed, and removed, after the stream's last message.
PageSide(s) ==
    /\ ~Started(s) => consumer[s].got = <<>>
    /\ s \in DOMAIN entry /\ Started(s) => Flow(s) = Upto(host[s].made)
    /\ s \in DOMAIN entry /\ (entry[s].errored \/ entry[s].done) /\ ~cancelled[s] =>
           Over(s) /\ Silent(toProxy, s)
    /\ consumer[s].state = "waiting" => s \in DOMAIN entry /\ entry[s].queue = <<>>
    /\ ~disposed /\ ~cancelled[s] /\ consumer[s].state \in {"ended", "failed"} => Complete(s)
    /\ ~disposed /\ ~cancelled[s] /\ consumer[s].state = "ready" /\ s \notin DOMAIN entry =>
           Complete(s)

DeliveryInv == \A s \in Streams : HostSide(s) /\ PageSide(s)

LEMMA StreamTypes ==
    ASSUME TypeOK, NEW s \in Streams
    PROVE  /\ consumer[s] \in Consumer /\ consumer[s].got \in Seq(Chunks)
           /\ host[s] \in HostLoop /\ host[s].buffer \in Seq(Chunks) /\ host[s].made \in 0 .. MaxChunks
           /\ s \in DOMAIN entry => entry[s] \in Entry /\ entry[s].queue \in Seq(Chunks)
           /\ toProxy \in Seq(ToProxy) /\ toWorker \in Seq(ToWorker)
BY DEF TypeOK, Consumer, HostLoop, Entry

LEMMA DeliveryIsStreamsDeliver ==
    ASSUME DeliveryInv, TypeOK
    PROVE  StreamsDeliver
<1>1. ASSUME NEW s \in DOMAIN entry, Started(s)
      PROVE  consumer[s].got \o entry[s].queue \o UnderWay(s) \o host[s].buffer = Upto(host[s].made)
  BY <1>1 DEF DeliveryInv, PageSide, Flow, Way, Pieces, UnderWay, TypeOK
<1>2. EndIsComplete
  BY DEF DeliveryInv, PageSide, Complete, Over, EndIsComplete
<1>3. QED
  BY <1>1, <1>2 DEF StreamsDeliver, NothingLost

(***************************************************************************)
(* The host's side.                                                        *)
(***************************************************************************)

LEMMA StartsNat ==
    ASSUME TypeOK, NEW s
    PROVE  Starts(s) \in Nat
<1>1. toWorker \in Seq(ToWorker)
  BY DEF TypeOK
<1>2. QED
  BY <1>1, CarriedFinite DEF Starts

LEMMA NoStarts ==
    ASSUME TypeOK, StartedInv, NEW s \in Streams, ~Started(s)
    PROVE  Starts(s) = 0
<1>1. Message("stream-start", s).type = "stream-start" /\ Message("stream-start", s).id = s
  BY DEF Message
<1>2. {k \in DOMAIN toWorker : toWorker[k] \in {Message("stream-start", s)}} = {}
  BY <1>1 DEF StartedInv
<1>3. QED
  BY <1>2, FS_EmptySet DEF Starts, Carried

\* A start is posted for an idle consumer only, and delivering one takes it from
\* the queue.
LEMMA StartsStep ==
    ASSUME TypeOK, StartedInv, NEW s \in Streams, Next
    PROVE  /\ Starts(s)' \in Nat
           /\ \/ Starts(s)' <= Starts(s)
              \/ Starts(s)' = 1 /\ consumer[s].state = "idle"
           /\ toWorker # <<>> /\ toWorker' = Tail(toWorker)
              /\ Head(toWorker) = Message("stream-start", s) => Starts(s)' = Starts(s) - 1
<1> DEFINE M == {Message("stream-start", s)}
<1>1. toWorker \in Seq(ToWorker) /\ Starts(s) \in Nat /\ Starts(s) = Carried(toWorker, M)
  BY StartsNat DEF TypeOK, Starts
<1>2. Starts(s)' = Carried(toWorker', M)
  BY DEF Starts
<1> HIDE DEF M
<1>3. CASE UNCHANGED toWorker
  <2>1. ~(toWorker # <<>> /\ toWorker' = Tail(toWorker))
    <3>1. toWorker # <<>> => Len(Tail(toWorker)) # Len(toWorker)
      BY <1>1, TailQueue
    <3>2. QED
      BY <1>3, <3>1
  <2>2. QED
    BY <1>1, <1>2, <1>3, <2>1
<1>4. CASE toWorker # <<>> /\ toWorker' = Tail(toWorker)
  <2>1. Carried(toWorker, M) = Carried(Tail(toWorker), M) + (IF Head(toWorker) \in M THEN 1 ELSE 0)
    BY <1>1, <1>4, CarriedTail
  <2>2. Carried(Tail(toWorker), M) \in Nat
    BY <1>1, <1>4, TailQueue, CarriedFinite
  <2>3. Head(toWorker) \in M <=> Head(toWorker) = Message("stream-start", s)
    BY DEF M
  <2>4. QED
    BY <1>1, <1>2, <1>4, <2>1, <2>2, <2>3
<1>5. CASE toWorker' = <<>>
  <2>1. Starts(s)' = 0
    BY <1>2, <1>5, CarriedNothing
  <2>2. ASSUME toWorker # <<>>, toWorker' = Tail(toWorker), Head(toWorker) = Message("stream-start", s)
        PROVE  Starts(s)' = Starts(s) - 1
    BY <1>4, <2>2
  <2>3. QED
    BY <1>1, <2>1, <2>2
<1>6. ASSUME NEW m \in ToWorker, Post(m),
             m = Message("stream-start", s) => consumer[s].state = "idle"
      PROVE  /\ Starts(s)' \in Nat
             /\ \/ Starts(s)' <= Starts(s)
                \/ Starts(s)' = 1 /\ consumer[s].state = "idle"
             /\ ~(toWorker # <<>> /\ toWorker' = Tail(toWorker)) \/ UNCHANGED toWorker
  <2>1. CASE disposed
    BY <1>1, <1>2, <1>6, <2>1 DEF Post
  <2>2. CASE ~disposed
    <3>1. toWorker' = Append(toWorker, m)
      BY <1>6, <2>2 DEF Post
    <3>2. Starts(s)' = Starts(s) + (IF m \in M THEN 1 ELSE 0)
      BY <1>1, <1>2, <3>1, CarriedAppend
    <3>3. m \in M => Starts(s) = 0 /\ consumer[s].state = "idle"
      <4>1. ASSUME m \in M PROVE Starts(s) = 0 /\ consumer[s].state = "idle"
        <5>1. consumer[s].state = "idle"
          BY <1>6, <4>1 DEF M
        <5>2. ~Started(s)
          BY <5>1 DEF Started
        <5>3. QED
          BY <5>1, <5>2, NoStarts
      <4>2. QED
        BY <4>1
    <3>4. toWorker # <<>> => toWorker' # Tail(toWorker)
      BY <1>1, <1>6, <3>1, TailQueue, AppendQueue
    <3>5. QED
      BY <1>1, <3>2, <3>3, <3>4
  <2>3. QED
    BY <2>1, <2>2
<1>7. ASSUME NEW m \in ToWorker, Post(m),
             m = Message("stream-start", s) => consumer[s].state = "idle"
      PROVE  /\ Starts(s)' \in Nat
             /\ \/ Starts(s)' <= Starts(s)
                \/ Starts(s)' = 1 /\ consumer[s].state = "idle"
             /\ toWorker # <<>> /\ toWorker' = Tail(toWorker)
                /\ Head(toWorker) = Message("stream-start", s) => Starts(s)' = Starts(s) - 1
  BY <1>3, <1>6, <1>7
<1>8. CASE \E r \in Requests : Post(Message("method-call", r))
  <2>1. PICK r \in Requests : Post(Message("method-call", r))
    BY <1>8
  <2>2. Message("method-call", r) # Message("stream-start", s)
    BY MessageIs
  <2>3. QED
    BY <1>7, <2>1, <2>2, MessageTypes
<1>9. CASE \E t \in Streams : Post(Message("stream-start", t)) /\ consumer[t].state = "idle"
  <2>1. PICK t \in Streams : Post(Message("stream-start", t)) /\ consumer[t].state = "idle"
    BY <1>9
  <2>2. Message("stream-start", t) = Message("stream-start", s) => t = s
    BY MessageIs
  <2>3. QED
    BY <1>7, <2>1, <2>2, MessageTypes
<1>10. CASE \E t \in Streams : Post(Message("stream-cancel", t))
  <2>1. PICK t \in Streams : Post(Message("stream-cancel", t))
    BY <1>10
  <2>2. Message("stream-cancel", t) # Message("stream-start", s)
    BY MessageIs
  <2>3. QED
    BY <1>7, <2>1, <2>2, MessageTypes
<1>11. QED
  BY <1>3, <1>4, <1>5, <1>8, <1>9, <1>10, QueueStep

\* A flush sends the buffer, and nothing of other streams.
LEMMA FlushedIs ==
    ASSUME TypeOK, NEW s \in Streams, NEW buffer \in Seq(Chunks)
    PROVE  /\ Flushed(s, buffer) \in Seq(ToProxy)
           /\ Way(Flushed(s, buffer), s) = Way(toProxy, s) \o buffer
           /\ HasEnd(Flushed(s, buffer), s) <=> HasEnd(toProxy, s)
           /\ EndsLast(toProxy, s) /\ ~HasEnd(toProxy, s) => EndsLast(Flushed(s, buffer), s)
           /\ \A t \in Streams \ {s} :
                  /\ Way(Flushed(s, buffer), t) = Way(toProxy, t)
                  /\ Silent(Flushed(s, buffer), t) <=> Silent(toProxy, t)
                  /\ HasEnd(Flushed(s, buffer), t) <=> HasEnd(toProxy, t)
                  /\ EndsLast(toProxy, t) => EndsLast(Flushed(s, buffer), t)
<1>1. toProxy \in Seq(ToProxy)
  BY DEF TypeOK
<1>2. \A t : Way(toProxy, t) \in Seq(Chunks)
  BY <1>1, WayType
<1>3. \A t : Way(toProxy, t) \o <<>> = Way(toProxy, t)
  BY <1>2, ConcatEmptySeq
<1>4. CASE buffer = <<>>
  <2>1. Flushed(s, buffer) = toProxy
    BY <1>4 DEF Flushed
  <2>2. QED
    BY <1>1, <1>3, <1>4, <2>1
<1>5. CASE buffer # <<>>
  <2>1. Flushed(s, buffer) = Append(toProxy, Batch(s, buffer)) /\ Batch(s, buffer) \in ToProxy
    BY <1>5, MessageTypes DEF Flushed
  <2>2. /\ ChunksOf(s, Batch(s, buffer)) = buffer
        /\ ~EndOf(Batch(s, buffer), s)
        /\ \A t \in Streams \ {s} : /\ ChunksOf(t, Batch(s, buffer)) = <<>>
                                    /\ ~About(Batch(s, buffer), t)
                                    /\ ~EndOf(Batch(s, buffer), t)
    BY DEF Batch, ChunksOf, EndOf, About
  <2> DEFINE m == Batch(s, buffer)
  <2> HIDE DEF m
  <2>3. ASSUME NEW t \in Streams
        PROVE  /\ Way(Append(toProxy, m), t) = Way(toProxy, t) \o ChunksOf(t, m)
               /\ Silent(Append(toProxy, m), t) <=> (Silent(toProxy, t) /\ ~About(m, t))
               /\ HasEnd(Append(toProxy, m), t) <=> (HasEnd(toProxy, t) \/ EndOf(m, t))
               /\ EndsLast(toProxy, t) /\ (~HasEnd(toProxy, t) \/ ~About(m, t)) =>
                      EndsLast(Append(toProxy, m), t)
    <3>1. m \in ToProxy
      BY <2>1 DEF m
    <3>2. QED
      BY <1>1, <3>1, ChannelAppend
  <2>4. Append(toProxy, m) \in Seq(ToProxy)
    BY <1>1, <2>1, AppendQueue DEF m
  <2>5. Flushed(s, buffer) = Append(toProxy, m)
    BY <2>1 DEF m
  <2>6. /\ ChunksOf(s, m) = buffer /\ ~EndOf(m, s)
        /\ \A t \in Streams \ {s} : ChunksOf(t, m) = <<>> /\ ~About(m, t) /\ ~EndOf(m, t)
    BY <2>2 DEF m
  <2>7. /\ Way(Flushed(s, buffer), s) = Way(toProxy, s) \o buffer
        /\ HasEnd(Flushed(s, buffer), s) <=> HasEnd(toProxy, s)
        /\ EndsLast(toProxy, s) /\ ~HasEnd(toProxy, s) => EndsLast(Flushed(s, buffer), s)
    BY <2>3, <2>5, <2>6
  <2>8. ASSUME NEW t \in Streams \ {s}
        PROVE  /\ Way(Flushed(s, buffer), t) = Way(toProxy, t)
               /\ Silent(Flushed(s, buffer), t) <=> Silent(toProxy, t)
               /\ HasEnd(Flushed(s, buffer), t) <=> HasEnd(toProxy, t)
               /\ EndsLast(toProxy, t) => EndsLast(Flushed(s, buffer), t)
    <3>1. t \in Streams /\ ChunksOf(t, m) = <<>> /\ ~About(m, t) /\ ~EndOf(m, t)
      BY <2>6
    <3>2. QED
      BY <1>3, <2>3, <2>5, <3>1
  <2>9. QED
    BY <2>4, <2>5, <2>7, <2>8
<1>6. QED
  BY <1>4, <1>5

\* How a step changes the host's loops and the proxy's queue.
LEMMA ChannelStep ==
    ASSUME TypeOK, Next
    PROVE  \/ UNCHANGED <<host, toProxy>>
           \/ UNCHANGED host /\ toProxy' = <<>>
           \/ UNCHANGED host /\ toProxy # <<>> /\ toProxy' = Tail(toProxy)
           \/ \E m \in ToProxy : /\ UNCHANGED host /\ toProxy' = Append(toProxy, m)
                                 /\ \A s \in Streams : ~About(m, s) /\ ~EndOf(m, s)
           \/ \E s \in Streams : HostStart(s) \/ HostCancel(s) \/ HostYield(s) \/ HostEnd(s)
<1>1. ASSUME NEW r \in Requests, Call(r) \/ HostCall(r)
      PROVE  UNCHANGED <<host, toProxy>>
  BY <1>1 DEF Call, HostCall, hostVars
<1>2. ASSUME NEW r \in Requests, HostReply(r)
      PROVE  \E m \in ToProxy : /\ UNCHANGED host /\ toProxy' = Append(toProxy, m)
                                /\ \A s \in Streams : ~About(m, s) /\ ~EndOf(m, s)
  <2>1. PICK m \in Answers(r) : toProxy' = Append(toProxy, m)
    BY <1>2 DEF HostReply, Answers
  <2>2. m \in ToProxy
    BY MessageTypes
  <2>3. m.type \notin StreamEvents
    BY DEF Answers, Message, StreamEvents
  <2>4. \A s \in Streams : ~About(m, s) /\ ~EndOf(m, s)
    BY <2>3 DEF About, EndOf, StreamEvents
  <2>5. UNCHANGED host
    BY <1>2 DEF HostReply
  <2>6. QED
    BY <2>1, <2>2, <2>4, <2>5
<1>3. ASSUME NEW r \in Requests, Reply(r)
      PROVE  UNCHANGED host /\ toProxy # <<>> /\ toProxy' = Tail(toProxy)
  BY <1>3 DEF Reply, FromHost, hostVars
<1>4. ASSUME NEW s \in Streams, ProxyChunks(s) \/ ProxyEnd(s)
      PROVE  UNCHANGED host /\ toProxy # <<>> /\ toProxy' = Tail(toProxy)
  BY <1>4 DEF ProxyChunks, ProxyEnd, FromHost, hostVars
<1>5. ASSUME NEW s \in Streams, Consumes(s)
      PROVE  UNCHANGED <<host, toProxy>>
  BY <1>5 DEF Consumes, StartStream, Abort, NextChunk, Return, Throw, hostVars
<1>6. CASE Crash
  BY <1>6 DEF Crash, hostVars
<1>7. QED
  BY <1>1, <1>2, <1>3, <1>4, <1>5, <1>6 DEF Next, HostReceives, ProxyReceives

LEMMA HostSideStep ==
    ASSUME TypeOK, StartedInv, NEW s \in Streams, HostSide(s), Next
    PROVE  HostSide(s)'
<1>0. /\ Starts(s) \in Nat /\ Starts(s)' \in Nat
      /\ Starts(s)' <= Starts(s) \/ (Starts(s)' = 1 /\ host[s].state = "idle")
  BY StartsNat, StartsStep DEF StartedInv, Started
<1>a. ASSUME host'[s].state = "idle" <=> host[s].state = "idle"
      PROVE  Starts(s)' + (IF host'[s].state = "idle" THEN 0 ELSE 1) <= 1
  BY <1>0, <1>a DEF HostSide
<1>1. toProxy \in Seq(ToProxy) /\ host[s] \in HostLoop /\ host \in [Streams -> HostLoop]
  BY DEF TypeOK
<1>2. CASE UNCHANGED host /\ (UNCHANGED toProxy \/ toProxy' = <<>>)
  <2>1. toProxy' = <<>> => Silent(toProxy', s) /\ ~HasEnd(toProxy', s) /\ EndsLast(toProxy', s)
    BY DEF Silent, HasEnd, EndsLast
  <2>2. QED
    BY <1>a, <1>2, <2>1 DEF HostSide, Over
<1>3. CASE UNCHANGED host /\ toProxy # <<>> /\ toProxy' = Tail(toProxy)
  <2>1. /\ Silent(toProxy, s) => Silent(toProxy', s)
        /\ HasEnd(toProxy', s) => HasEnd(toProxy, s)
        /\ EndsLast(toProxy, s) => EndsLast(toProxy', s)
    BY <1>1, <1>3, ChannelTail
  <2>2. QED
    BY <1>a, <1>3, <2>1 DEF HostSide, Over
<1>4. ASSUME NEW m \in ToProxy, UNCHANGED host, toProxy' = Append(toProxy, m),
             ~About(m, s), ~EndOf(m, s)
      PROVE  HostSide(s)'
  <2>1. /\ Silent(toProxy, s) => Silent(toProxy', s)
        /\ HasEnd(toProxy', s) => HasEnd(toProxy, s)
        /\ EndsLast(toProxy, s) => EndsLast(toProxy', s)
    BY <1>1, <1>4, ChannelAppend
  <2>2. QED
    BY <1>a, <1>4, <2>1 DEF HostSide, Over
<1>5. ASSUME NEW t \in Streams, HostStart(t)
      PROVE  HostSide(s)'
  <2>1. /\ UNCHANGED toProxy /\ toWorker # <<>> /\ toWorker' = Tail(toWorker)
        /\ Head(toWorker) = Message("stream-start", t)
        /\ host' = [host EXCEPT ![t].state = "running"]
    BY <1>5 DEF HostStart, ToHost
  <2>2. CASE t = s
    <3>1. Starts(s)' = Starts(s) - 1
      BY <2>1, <2>2, StartsStep
    <3>2. host[s].state = "idle" /\ Starts(s)' = 0
      BY <1>0, <3>1 DEF HostSide
    <3>3. /\ host'[s].state = "running" /\ host'[s].made = host[s].made
          /\ host'[s].buffer = host[s].buffer
      BY <1>1, <2>1, <2>2 DEF HostLoop
    <3>4. HasEnd(toProxy, s) => FALSE
      BY <3>2 DEF HostSide, Over
    <3>5. QED
      BY <2>1, <3>2, <3>3, <3>4 DEF HostSide, Over
  <2>3. CASE t # s
    <3>1. host'[s] = host[s]
      BY <1>1, <2>1, <2>3
    <3>2. QED
      BY <1>a, <2>1, <3>1 DEF HostSide, Over
  <2>4. QED
    BY <2>2, <2>3
<1>6. ASSUME NEW t \in Streams, HostCancel(t)
      PROVE  HostSide(s)'
  <2>1. /\ UNCHANGED toProxy /\ host'[s].state = host[s].state
        /\ host'[s].made = host[s].made /\ host'[s].buffer = host[s].buffer
    BY <1>1, <1>6 DEF HostCancel, HostAbort, HostLoop
  <2>2. QED
    BY <1>a, <2>1 DEF HostSide, Over
<1>7. ASSUME NEW t \in Streams, HostYield(t)
      PROVE  HostSide(s)'
  <2> DEFINE b == Append(host[t].buffer, host[t].made + 1)
  <2>1. b \in Seq(Chunks)
    BY <1>7, AppendQueue DEF HostYield, TypeOK, HostLoop
  <2>2. /\ host'[t].state = "running" /\ host[t].state = "running"
        /\ toProxy' = toProxy \/ toProxy' = Flushed(t, b)
        /\ t # s => host'[s] = host[s]
    BY <1>1, <1>7 DEF HostYield, HostLoop
  <2> HIDE DEF b
  <2>3. CASE t = s
    <3>1. ~HasEnd(toProxy, s) /\ EndsLast(toProxy, s)
      BY <2>2, <2>3 DEF HostSide, Over
    <3>2. ~HasEnd(toProxy', s) /\ EndsLast(toProxy', s)
      BY <2>1, <2>2, <2>3, <3>1, FlushedIs
    <3>3. QED
      BY <1>a, <2>2, <2>3, <3>2 DEF HostSide, Over
  <2>4. CASE t # s
    <3>1. /\ Silent(toProxy, s) => Silent(toProxy', s)
          /\ HasEnd(toProxy', s) => HasEnd(toProxy, s)
          /\ EndsLast(toProxy, s) => EndsLast(toProxy', s)
      BY <2>1, <2>2, <2>4, FlushedIs
    <3>2. QED
      BY <1>a, <2>2, <2>4, <3>1 DEF HostSide, Over
  <2>5. QED
    BY <2>3, <2>4
<1>8. ASSUME NEW t \in Streams, HostEnd(t)
      PROVE  HostSide(s)'
  <2> DEFINE q == Flushed(t, host[t].buffer)
  <2>1. PICK m \in {Message("stream-done", t), Message("stream-error", t)} :
            toProxy' = Append(q, m)
    BY <1>8 DEF HostEnd
  <2>2. m \in ToProxy /\ (t # s => ~About(m, s) /\ ~EndOf(m, s))
    <3>1. m = Message("stream-done", t) \/ m = Message("stream-error", t)
      OBVIOUS
    <3>2. m \in ToProxy
      BY <3>1, MessageTypes
    <3>3. m.id = t
      BY <3>1 DEF Message
    <3>4. QED
      BY <3>2, <3>3 DEF About, EndOf
  <2>3. /\ host[t].state = "running" /\ host'[t].state \in {"done", "error"}
        /\ host'[t].buffer = <<>>
        /\ t # s => host'[s] = host[s]
    BY <1>1, <1>8 DEF HostEnd, HostLoop, Rest
  <2>4. host[t].buffer \in Seq(Chunks)
    BY DEF TypeOK, HostLoop
  <2>5. q \in Seq(ToProxy)
    BY <2>4, FlushedIs
  <2>6. CASE t = s
    <3>1. ~HasEnd(toProxy, s) /\ EndsLast(toProxy, s)
      BY <2>3, <2>6 DEF HostSide, Over
    <3>2. ~HasEnd(q, s) /\ EndsLast(q, s)
      BY <2>4, <2>6, <3>1, FlushedIs
    <3>3. EndsLast(toProxy', s)
      <4> HIDE DEF q
      <4>1. QED
        BY <2>1, <2>2, <2>5, <3>2, ChannelAppend
    <3>4. QED
      BY <1>a, <2>3, <2>6, <3>3 DEF HostSide, Over
  <2>7. CASE t # s
    <3>1. /\ Silent(toProxy, s) => Silent(q, s)
          /\ HasEnd(q, s) => HasEnd(toProxy, s)
          /\ EndsLast(toProxy, s) => EndsLast(q, s)
      BY <2>4, <2>7, FlushedIs
    <3> HIDE DEF q
    <3>2. /\ Silent(q, s) => Silent(toProxy', s)
          /\ HasEnd(toProxy', s) => HasEnd(q, s)
          /\ EndsLast(q, s) => EndsLast(toProxy', s)
      BY <2>1, <2>2, <2>5, <2>7, ChannelAppend
    <3>3. QED
      BY <1>a, <2>3, <2>7, <3>1, <3>2 DEF HostSide, Over
  <2>8. QED
    BY <2>6, <2>7
<1>9. QED
  BY <1>2, <1>3, <1>4, <1>5, <1>6, <1>7, <1>8, ChannelStep

(***************************************************************************)
(* The page's side.                                                        *)
(***************************************************************************)

LEMMA FlowTypes ==
    ASSUME TypeOK, NEW s \in Streams
    PROVE  Way(toProxy, s) \in Seq(Chunks)
BY WayType DEF TypeOK

\* A step that leaves the consumer, its entry and what flows to it as they are.
LEMMA PageUntouched ==
    ASSUME TypeOK, NEW s \in Streams, PageSide(s),
           UNCHANGED disposed,
           consumer'[s] = consumer[s], cancelled'[s] = cancelled[s],
           s \in DOMAIN entry' <=> s \in DOMAIN entry,
           s \in DOMAIN entry => entry'[s] = entry[s],
           Way(toProxy', s) = Way(toProxy, s), Silent(toProxy, s) => Silent(toProxy', s),
           host'[s].made = host[s].made, host'[s].buffer = host[s].buffer,
           Over(s) => Over(s)'
    PROVE  PageSide(s)'
<1>1. Started(s)' <=> Started(s)
  BY DEF Started
<1>2. s \in DOMAIN entry => Flow(s)' = Flow(s)
  BY DEF Flow
<1>3. Complete(s) => Complete(s)'
  BY DEF Complete, Upto
<1>4. Upto(host[s].made)' = Upto(host[s].made)
  BY DEF Upto
<1>5. QED
  BY <1>1, <1>2, <1>3, <1>4 DEF PageSide

\* Other streams are not touched by a consumer.
LEMMA PageOthers ==
    ASSUME TypeOK, NEW s \in Streams, NEW t \in Streams \ {s}, Consumes(t)
    PROVE  /\ UNCHANGED <<disposed, host, toProxy>>
           /\ consumer'[s] = consumer[s] /\ cancelled'[s] = cancelled[s]
           /\ s \in DOMAIN entry' <=> s \in DOMAIN entry
           /\ s \in DOMAIN entry => entry'[s] = entry[s]
<1>1. UNCHANGED <<disposed, host, toProxy>>
  BY DEF Consumes, StartStream, Abort, NextChunk, Return, Throw, hostVars
<1>2. consumer'[s] = consumer[s]
  BY DEF Consumes, StartStream, Abort, NextChunk, Return, Throw, Becomes, Wake, Got, TypeOK
<1>3. cancelled'[s] = cancelled[s]
  BY DEF Consumes, StartStream, Abort, NextChunk, Return, Throw, TypeOK
<1>4. /\ s \in DOMAIN entry' <=> s \in DOMAIN entry
      /\ s \in DOMAIN entry => entry'[s] = entry[s]
  BY DEF Consumes, StartStream, Abort, NextChunk, Return, Throw, Without, TypeOK
<1>5. QED
  BY <1>1, <1>2, <1>3, <1>4

LEMMA PageConsumes ==
    ASSUME TypeOK, StartedInv, NEW s \in Streams, HostSide(s), PageSide(s), Consumes(s)
    PROVE  PageSide(s)'
<1>1. /\ UNCHANGED <<disposed, host, toProxy>>
      /\ host[s].buffer \in Seq(Chunks) /\ consumer[s].got \in Seq(Chunks)
      /\ Way(toProxy, s) \in Seq(Chunks) /\ consumer \in [Streams -> Consumer]
      /\ consumer[s] \in Consumer
  BY StreamTypes, FlowTypes DEF Consumes, StartStream, Abort, NextChunk, Return, Throw, hostVars, TypeOK
<1>a. /\ Over(s)' <=> Over(s)
      /\ Silent(toProxy, s)' <=> Silent(toProxy, s)
      /\ consumer'[s].got = consumer[s].got => (Complete(s)' <=> Complete(s))
      /\ Upto(host[s].made)' = Upto(host[s].made)
  BY <1>1 DEF Over, Complete, Silent, Upto
<1>b. ASSUME NEW state, Becomes(s, state)
      PROVE  consumer'[s].state = state /\ consumer'[s].got = consumer[s].got
  BY <1>1, <1>b DEF Becomes, Consumer
<1>2. CASE StartStream(s)
  <2>1. /\ consumer[s].state = "idle" /\ ~Started(s)
        /\ host[s].state = "idle" /\ ~cancelled[s] /\ UNCHANGED cancelled
    BY <1>2 DEF StartStream, Started, StartedInv
  <2>2. /\ consumer[s].got = <<>> /\ host[s].made = 0 /\ host[s].buffer = <<>>
        /\ Way(toProxy, s) = <<>>
    BY <2>1, WaySilent DEF HostSide, PageSide, TypeOK
  <2>3. consumer'[s].state \in {"ready", "refused"} /\ consumer'[s].got = <<>>
    BY <1>2, <1>b, <2>2 DEF StartStream
  <2>4. CASE consumer'[s].state = "ready"
    <3>1. s \in DOMAIN entry' /\ entry'[s] = NewEntry
      BY <1>2, <1>b, <2>4 DEF StartStream
    <3>2. Flow(s)' = <<>> \o <<>> \o <<>> \o <<>>
      BY <1>1, <2>2, <2>3, <3>1 DEF Flow, NewEntry
    <3>3. Flow(s)' = Upto(host[s].made)'
      BY <1>a, <2>2, <3>2 DEF Upto
    <3>4. QED
      BY <2>3, <2>4, <3>1, <3>3 DEF PageSide, NewEntry
  <2>5. CASE consumer'[s].state = "refused"
    <3>1. ~Started(s)'
      BY <2>5 DEF Started
    <3>2. ASSUME s \in DOMAIN entry', entry'[s].errored \/ entry'[s].done, ~cancelled'[s]
          PROVE  Over(s)' /\ Silent(toProxy, s)'
      <4>1. CASE ~disposed
        <5>1. entry'[s] = NewEntry
          BY <1>2, <4>1 DEF StartStream
        <5>2. QED
          BY <3>2, <5>1 DEF NewEntry
      <4>2. CASE disposed
        BY <1>2, <1>a, <2>1, <3>2, <4>2 DEF StartStream, PageSide
      <4>3. QED
        BY <4>1, <4>2
    <3>3. QED
      BY <2>3, <2>5, <3>1, <3>2 DEF PageSide
  <2>6. QED
    BY <2>3, <2>4, <2>5
<1>3. CASE Abort(s)
  <2>1. Started(s) /\ cancelled'[s]
    BY <1>3 DEF Abort, Started, TypeOK
  <2>2. /\ consumer'[s].got = consumer[s].got
        /\ \/ s \in DOMAIN entry /\ consumer[s].state = "waiting" /\ consumer'[s].state = "failed"
           \/ consumer'[s].state = consumer[s].state
    BY <1>3, <1>b DEF Abort, Wake
  <2>3. /\ s \in DOMAIN entry' <=> s \in DOMAIN entry
        /\ s \in DOMAIN entry => entry'[s].queue = entry[s].queue
    <3>1. CASE s \in DOMAIN entry
      <4>1. entry' = [entry EXCEPT ![s] = AbortEntry(@)] /\ entry[s] \in Entry
        BY <1>3, <3>1, StreamTypes DEF Abort
      <4>2. DOMAIN entry' = DOMAIN entry /\ entry'[s] = AbortEntry(entry[s])
        BY <3>1, <4>1
      <4>3. AbortEntry(entry[s]).queue = entry[s].queue
        BY <4>1 DEF AbortEntry, Entry
      <4>4. QED
        BY <4>2, <4>3
    <3>2. CASE s \notin DOMAIN entry
      BY <1>3, <3>2 DEF Abort
    <3>3. QED
      BY <3>1, <3>2
  <2>4. s \in DOMAIN entry => Flow(s)' = Flow(s)
    BY <1>1, <2>2, <2>3 DEF Flow
  <2>5. Started(s)'
    BY <2>1, <2>2 DEF Started
  <2>6. consumer'[s].state = "waiting" => s \in DOMAIN entry' /\ entry'[s].queue = <<>>
    <3>1. SUFFICES ASSUME consumer'[s].state = "waiting"
                   PROVE  s \in DOMAIN entry /\ entry[s].queue = <<>>
      BY <2>3
    <3>2. consumer[s].state = "waiting"
      BY <2>2, <3>1
    <3>3. QED
      BY <3>2 DEF PageSide
  <2>7. QED
    BY <1>a, <2>1, <2>3, <2>4, <2>5, <2>6 DEF PageSide
<1>4. CASE NextChunk(s)
  <2>0. consumer[s].state = "ready" /\ Started(s) /\ UNCHANGED cancelled
    BY <1>4 DEF NextChunk, Started
  <2>1. CASE s \notin DOMAIN entry
    <3>1. UNCHANGED entry /\ consumer'[s].state = "ended" /\ consumer'[s].got = consumer[s].got
      BY <1>4, <1>b, <2>1 DEF NextChunk
    <3>2. ~disposed /\ ~cancelled[s] => Complete(s)
      BY <2>0, <2>1 DEF PageSide
    <3>3. QED
      BY <1>1, <1>a, <2>0, <2>1, <3>1, <3>2 DEF PageSide, Started
  <2>2. ASSUME s \in DOMAIN entry, entry[s].queue = <<>>, entry[s].errored \/ entry[s].done,
               entry' = Without(s),
               consumer'[s].state \in {"ended", "failed"}, consumer'[s].got = consumer[s].got
        PROVE  PageSide(s)'
    <3>1. s \notin DOMAIN entry'
      BY <2>2 DEF Without
    <3>2. ~cancelled[s] => Over(s) /\ Silent(toProxy, s)
      BY <2>2 DEF PageSide
    <3>3. ASSUME ~cancelled[s] PROVE Complete(s)
      <4>1. host[s].buffer = <<>> /\ Way(toProxy, s) = <<>>
        BY <3>2, <3>3, WaySilent DEF HostSide, TypeOK
      <4>2. Flow(s) = consumer[s].got \o <<>> \o <<>> \o <<>>
        BY <2>2, <4>1 DEF Flow
      <4>3. Flow(s) = consumer[s].got
        BY <1>1, <4>2
      <4>4. QED
        BY <2>0, <2>2, <3>2, <3>3, <4>3 DEF PageSide, Complete
    <3>4. QED
      BY <1>1, <1>a, <2>0, <2>2, <3>1, <3>3 DEF PageSide, Started
  <2>3. CASE s \in DOMAIN entry /\ ErrorDue(entry[s])
    <3>1. entry' = Without(s) /\ consumer'[s].state = "failed" /\ consumer'[s].got = consumer[s].got
      BY <1>4, <1>b, <2>3 DEF NextChunk, ErrorDue
    <3>2. QED
      BY <2>2, <2>3, <3>1 DEF ErrorDue
  <2>4. CASE s \in DOMAIN entry /\ entry[s].queue # <<>>
    <3>1. /\ entry' = [entry EXCEPT ![s].queue = Tail(@)]
          /\ Got(s, Head(entry[s].queue))
      BY <1>4, <2>4 DEF NextChunk, ErrorDue
    <3>2. entry[s] \in Entry /\ entry[s].queue \in Seq(Chunks)
      BY <2>4, StreamTypes
    <3>3. /\ DOMAIN entry' = DOMAIN entry /\ entry'[s].queue = Tail(entry[s].queue)
          /\ entry'[s].errored = entry[s].errored /\ entry'[s].done = entry[s].done
      BY <2>4, <3>1, <3>2 DEF Entry
    <3>4. /\ consumer'[s].state = "ready"
          /\ consumer'[s].got = Append(consumer[s].got, Head(entry[s].queue))
      BY <1>1, <3>1 DEF Got, Consumer
    <3>5. consumer'[s].got \o entry'[s].queue = consumer[s].got \o entry[s].queue
      <4> DEFINE q == entry[s].queue
                 g == consumer[s].got
      <4>1. q \in Seq(Chunks) /\ g \in Seq(Chunks) /\ q # <<>>
        BY <1>1, <2>4, <3>2
      <4> HIDE DEF q, g
      <4>2. Append(g, Head(q)) \o Tail(q) = g \o q
        <5>1. <<Head(q)>> \in Seq(Chunks) /\ Tail(q) \in Seq(Chunks) /\ q = <<Head(q)>> \o Tail(q)
          BY <4>1
        <5>2. Append(g, Head(q)) = g \o <<Head(q)>>
          BY <4>1
        <5>3. (g \o <<Head(q)>>) \o Tail(q) = g \o (<<Head(q)>> \o Tail(q))
          BY <4>1, <5>1, ConcatAssociative
        <5>4. QED
          BY <5>1, <5>2, <5>3
      <4>3. QED
        BY <3>3, <3>4, <4>2 DEF q, g
    <3>6. Flow(s)' = Flow(s)
      BY <1>1, <3>5 DEF Flow
    <3>7. QED
      BY <1>1, <1>a, <2>0, <2>4, <3>3, <3>4, <3>6 DEF PageSide, Started
  <2>5. CASE s \in DOMAIN entry /\ entry[s].queue = <<>> /\ ~entry[s].errored /\ entry[s].done
    <3>1. entry' = Without(s) /\ consumer'[s].state = "ended" /\ consumer'[s].got = consumer[s].got
      BY <1>4, <1>b, <2>5 DEF NextChunk, ErrorDue
    <3>2. QED
      BY <2>2, <2>5, <3>1
  <2>6. CASE s \in DOMAIN entry /\ entry[s].queue = <<>> /\ ~entry[s].errored /\ ~entry[s].done
    <3>1. UNCHANGED entry /\ consumer'[s].state = "waiting" /\ consumer'[s].got = consumer[s].got
      BY <1>4, <1>b, <2>6 DEF NextChunk, ErrorDue
    <3>2. Flow(s)' = Flow(s)
      BY <1>1, <3>1 DEF Flow
    <3>3. QED
      BY <1>1, <1>a, <2>0, <2>6, <3>1, <3>2 DEF PageSide, Started
  <2>7. QED
    BY <2>1, <2>3, <2>4, <2>5, <2>6 DEF ErrorDue
<1>5. CASE Return(s) \/ Throw(s)
  <2>1. /\ s \notin DOMAIN entry' /\ Started(s)
    BY <1>5 DEF Return, Throw, Without, Started
  <2>2. consumer'[s].state = "left"
    BY <1>5, <1>b DEF Return, Throw
  <2>3. QED
    BY <2>1, <2>2 DEF PageSide, Started
<1>6. QED
  BY <1>2, <1>3, <1>4, <1>5 DEF Consumes

\* A step of a loop of the host; the flow of its own stream gains the chunk.
LEMMA PageHosts ==
    ASSUME TypeOK, NEW s \in Streams, HostSide(s), PageSide(s), Next, NEW t \in Streams,
           HostStart(t) \/ HostCancel(t) \/ HostYield(t) \/ HostEnd(t)
    PROVE  PageSide(s)'
<1>1. /\ UNCHANGED <<disposed, entry, consumer, cancelled>>
      /\ host[s] \in HostLoop /\ host[t] \in HostLoop /\ host \in [Streams -> HostLoop]
      /\ host[t].buffer \in Seq(Chunks) /\ consumer[s].got \in Seq(Chunks)
      /\ s \in DOMAIN entry => entry[s].queue \in Seq(Chunks)
      /\ \A u : Way(toProxy, u) \in Seq(Chunks)
  BY StreamTypes, WayType DEF HostStart, HostCancel, HostYield, HostEnd, streamVars, TypeOK
<1>2. CASE HostStart(t)
  <2>1. /\ UNCHANGED toProxy /\ toWorker # <<>> /\ Head(toWorker) = Message("stream-start", t)
        /\ host'[s].made = host[s].made /\ host'[s].buffer = host[s].buffer
        /\ s # t => host'[s] = host[s]
    BY <1>1, <1>2 DEF HostStart, ToHost, HostLoop
  <2>2. s = t => ~Over(s)
    <3>1. ASSUME s = t, Over(s) PROVE FALSE
      <4>1. toWorker \in Seq(ToWorker)
        BY DEF TypeOK
      <4>2. Starts(s) = Carried(Tail(toWorker), {Message("stream-start", s)}) + 1
        BY <2>1, <3>1, <4>1, CarriedTail DEF Starts
      <4>3. Carried(Tail(toWorker), {Message("stream-start", s)}) \in Nat
        BY <2>1, <4>1, TailQueue, CarriedFinite
      <4>4. QED
        BY <3>1, <4>2, <4>3 DEF HostSide, Over
    <3>2. QED
      BY <3>1
  <2>3. Over(s) => Over(s)'
    BY <2>1, <2>2 DEF Over
  <2>4. QED
    BY <1>1, <2>1, <2>3, PageUntouched
<1>3. CASE HostCancel(t)
  <2>1. /\ UNCHANGED toProxy /\ host'[s].state = host[s].state
        /\ host'[s].made = host[s].made /\ host'[s].buffer = host[s].buffer
    BY <1>1, <1>3 DEF HostCancel, HostAbort, HostLoop
  <2>2. QED
    BY <1>1, <2>1, PageUntouched DEF Over
<1>4. CASE t # s /\ (HostYield(t) \/ HostEnd(t))
  <2>1. host'[s] = host[s]
    BY <1>1, <1>4 DEF HostYield, HostEnd
  <2>2. PICK q \in Seq(ToProxy) :
            /\ Way(q, s) = Way(toProxy, s)
            /\ Silent(q, s) <=> Silent(toProxy, s)
            /\ \/ toProxy' = q
               \/ \E m \in {Message("stream-done", t), Message("stream-error", t)} :
                      toProxy' = Append(q, m)
    <3>1. CASE HostYield(t)
      <4> DEFINE b == Append(host[t].buffer, host[t].made + 1)
      <4>1. b \in Seq(Chunks)
        BY <3>1, AppendQueue DEF HostYield, TypeOK, HostLoop
      <4>2. toProxy' = toProxy \/ toProxy' = Flushed(t, b)
        BY <3>1 DEF HostYield
      <4> HIDE DEF b
      <4>3. toProxy \in Seq(ToProxy)
        BY DEF TypeOK
      <4>4. QED
        BY <1>4, <4>1, <4>2, <4>3, FlushedIs
    <3>2. CASE HostEnd(t)
      <4>1. \E m \in {Message("stream-done", t), Message("stream-error", t)} :
                toProxy' = Append(Flushed(t, host[t].buffer), m)
        BY <3>2 DEF HostEnd
      <4>2. QED
        BY <1>1, <1>4, <4>1, FlushedIs
    <3>3. QED
      BY <1>4, <3>1, <3>2
  <2>3. Way(toProxy', s) = Way(toProxy, s) /\ (Silent(toProxy, s) => Silent(toProxy', s))
    <3>1. CASE toProxy' = q
      <4>1. Way(q, s) = Way(toProxy, s) /\ (Silent(toProxy, s) => Silent(q, s))
        BY <2>2
      <4>2. QED
        BY <3>1, <4>1
    <3>2. ASSUME NEW m \in {Message("stream-done", t), Message("stream-error", t)},
                 toProxy' = Append(q, m)
          PROVE  Way(toProxy', s) = Way(toProxy, s) /\ (Silent(toProxy, s) => Silent(toProxy', s))
      <4>1. m = Message("stream-done", t) \/ m = Message("stream-error", t)
        BY <3>2
      <4>2. m \in ToProxy
        BY <4>1, MessageTypes
      <4>3. ~About(m, s)
        BY <1>4, <4>1 DEF Message, About
      <4>4. ChunksOf(s, m) = <<>>
        BY <4>2, <4>3, ChunksOfType
      <4>5. Way(toProxy', s) = Way(q, s) \o <<>> /\ (Silent(q, s) => Silent(toProxy', s))
        BY <2>2, <3>2, <4>2, <4>3, <4>4, ChannelAppend
      <4>6. Way(q, s) \o <<>> = Way(q, s)
        BY <1>1, <2>2, ConcatEmptySeq
      <4>7. QED
        BY <2>2, <4>5, <4>6
    <3>3. QED
      BY <2>2, <3>1, <3>2
  <2>4. QED
    BY <1>1, <2>1, <2>3, PageUntouched DEF Over
<1>5. ASSUME t = s, host[s].state = "running",
             s \in DOMAIN entry /\ Started(s) => Flow(s)' = Upto(host'[s].made)
      PROVE  PageSide(s)'
  <2>1. ~Over(s) /\ ~Complete(s)
    BY <1>5 DEF Over, Complete
  <2>2. Upto(host[s].made)' = Upto(host'[s].made)
    BY DEF Upto
  <2>3. Started(s)' <=> Started(s)
    BY <1>1 DEF Started
  <2>4. /\ s \in DOMAIN entry /\ (entry[s].errored \/ entry[s].done) => cancelled[s]
        /\ consumer[s].state \in {"ended", "failed"} => disposed \/ cancelled[s]
        /\ consumer[s].state = "ready" /\ s \notin DOMAIN entry => disposed \/ cancelled[s]
    BY <2>1 DEF PageSide
  <2>5. QED
    BY <1>1, <1>5, <2>2, <2>3, <2>4 DEF PageSide
<1>6. CASE t = s /\ HostYield(s)
  <2> DEFINE c == host[s].made + 1
             b == Append(host[s].buffer, c)
  <2>1. /\ host[s].state = "running" /\ c \in Chunks /\ b \in Seq(Chunks)
        /\ b = host[s].buffer \o <<c>> /\ <<c>> \in Seq(Chunks)
        /\ host[s].buffer \in Seq(Chunks) /\ host[s].made \in 0 .. MaxChunks
    <3>1. host[s].state = "running" /\ c \in Chunks
      BY <1>6 DEF HostYield
    <3>2. host[s].buffer \in Seq(Chunks) /\ host[s].made \in 0 .. MaxChunks
      BY <1>1, <1>6 DEF HostLoop
    <3> HIDE DEF c
    <3>3. QED
      BY <3>1, <3>2
  <2>2. /\ host'[s].made = c
        /\ \/ host'[s].buffer = b /\ UNCHANGED toProxy
           \/ host'[s].buffer = <<>> /\ toProxy' = Flushed(s, b)
    BY <1>1, <1>6 DEF HostYield, Rest, HostLoop
  <2>3. ASSUME s \in DOMAIN entry, Started(s)
        PROVE  Flow(s)' = Upto(host'[s].made)
    <3> DEFINE g == consumer[s].got
               q == entry[s].queue
               w == Way(toProxy, s)
               old == host[s].buffer
    <3>1. /\ g \in Seq(Chunks) /\ q \in Seq(Chunks) /\ w \in Seq(Chunks) /\ old \in Seq(Chunks)
          /\ b = old \o <<c>> /\ <<c>> \in Seq(Chunks) /\ b \in Seq(Chunks)
      BY <1>1, <2>1, <2>3
    <3>2. Flow(s)' = g \o q \o w \o b
      <4>1. CASE host'[s].buffer = b /\ UNCHANGED toProxy
        BY <1>1, <4>1 DEF Flow
      <4>2. CASE host'[s].buffer = <<>> /\ toProxy' = Flushed(s, b)
        <5>1. Way(toProxy', s) = w \o b
          BY <2>1, <4>2, FlushedIs
        <5>2. Flow(s)' = g \o q \o (w \o b) \o <<>>
          BY <1>1, <4>2, <5>1 DEF Flow
        <5>a. g \in Seq(Chunks) /\ q \in Seq(Chunks) /\ w \in Seq(Chunks) /\ b \in Seq(Chunks)
          BY <3>1
        <5> HIDE DEF g, q, w, b
        <5>3. g \o q \o (w \o b) = g \o q \o w \o b
          BY <5>a
        <5>4. g \o q \o w \o b \in Seq(Chunks)
          BY <3>1
        <5>5. QED
          BY <5>2, <5>3, <5>4, ConcatEmptySeq
      <4>3. QED
        BY <2>2, <4>1, <4>2
    <3>3. g \o q \o w \o old = Upto(host[s].made)
      BY <2>3 DEF PageSide, Flow
    <3>4. g \o q \o w \o b = (g \o q \o w \o old) \o <<c>>
      <4> DEFINE d == g \o q \o w
      <4>1. d \in Seq(Chunks)
        <5> HIDE DEF g, q, w
        <5>1. QED
          BY <3>1, ConcatProperties
      <4> HIDE DEF d, old, b, c
      <4>2. d \o (old \o <<c>>) = (d \o old) \o <<c>>
        BY <3>1, <4>1
      <4>3. QED
        BY <3>1, <4>2 DEF d
    <3>5. Upto(host[s].made) \o <<c>> = Upto(c)
      <4>1. host[s].made \in Nat
        BY <2>1
      <4>2. \A n \in Nat : Upto(n) \o <<n + 1>> = Upto(n + 1)
        BY DEF Upto
      <4>3. QED
        BY <4>1, <4>2
    <3>6. QED
      BY <2>2, <3>2, <3>3, <3>4, <3>5
  <2>4. QED
    BY <1>5, <1>6, <2>1, <2>3
<1>7. CASE t = s /\ HostEnd(s)
  <2>1. /\ host[s].state = "running" /\ host[s].buffer \in Seq(Chunks)
        /\ host'[s].made = host[s].made /\ host'[s].buffer = <<>>
    BY <1>1, <1>7 DEF HostEnd, Rest, HostLoop
  <2>2. PICK m \in {Message("stream-done", s), Message("stream-error", s)} :
            toProxy' = Append(Flushed(s, host[s].buffer), m)
    BY <1>7 DEF HostEnd
  <2>3. m \in ToProxy /\ ChunksOf(s, m) = <<>>
    <3>1. m = Message("stream-done", s) \/ m = Message("stream-error", s)
      BY <2>2
    <3>2. m \in ToProxy
      BY <3>1, MessageTypes
    <3>3. m.type # "stream-chunks"
      BY <3>1 DEF Message
    <3>4. QED
      BY <3>2, <3>3 DEF ChunksOf
  <2>4. Way(toProxy', s) = (Way(toProxy, s) \o host[s].buffer) \o <<>>
    <3>1. /\ Flushed(s, host[s].buffer) \in Seq(ToProxy)
          /\ Way(Flushed(s, host[s].buffer), s) = Way(toProxy, s) \o host[s].buffer
      BY <2>1, FlushedIs
    <3>2. QED
      BY <2>2, <2>3, <3>1, ChannelAppend
  <2>5. ASSUME s \in DOMAIN entry, Started(s)
        PROVE  Flow(s)' = Upto(host'[s].made)
    <3> DEFINE g == consumer[s].got
               q == entry[s].queue
               w == Way(toProxy, s)
               b == host[s].buffer
    <3>1. /\ g \in Seq(Chunks) /\ q \in Seq(Chunks) /\ w \in Seq(Chunks) /\ b \in Seq(Chunks)
      BY <1>1, <2>1, <2>5
    <3>2. Flow(s)' = g \o q \o ((w \o b) \o <<>>) \o <<>>
      BY <1>1, <2>1, <2>4 DEF Flow
    <3>3. g \o q \o w \o b = Upto(host[s].made)
      BY <2>5 DEF PageSide, Flow
    <3>4. g \o q \o ((w \o b) \o <<>>) \o <<>> = g \o q \o w \o b
      <4> HIDE DEF g, q, w, b
      <4>1. w \o b \in Seq(Chunks) /\ (w \o b) \o <<>> = w \o b
        BY <3>1, ConcatProperties, ConcatEmptySeq
      <4>2. g \o q \o (w \o b) = g \o q \o w \o b /\ g \o q \o w \o b \in Seq(Chunks)
        BY <3>1
      <4>3. (g \o q \o w \o b) \o <<>> = g \o q \o w \o b
        BY <4>2, ConcatEmptySeq
      <4>4. QED
        BY <4>1, <4>2, <4>3
    <3>5. QED
      BY <2>1, <3>2, <3>3, <3>4
  <2>6. QED
    BY <1>5, <1>7, <2>1, <2>5
<1>8. QED
  BY <1>2, <1>3, <1>4, <1>6, <1>7

\* Chunks of s arrive.
LEMMA PageChunks ==
    ASSUME TypeOK, NEW s \in Streams, HostSide(s), PageSide(s), Next, ProxyChunks(s)
    PROVE  PageSide(s)'
<1> DEFINE c == Head(toProxy).chunks
<1>1. /\ UNCHANGED <<disposed, cancelled, host>> /\ toProxy \in Seq(ToProxy) /\ toProxy # <<>>
      /\ toProxy' = Tail(toProxy) /\ Head(toProxy) \in ToProxy
      /\ Head(toProxy).type = "stream-chunks" /\ Head(toProxy).id = s
  BY TailQueue DEF ProxyChunks, FromHost, hostVars, TypeOK
<1>2. c \in Seq(Chunks) /\ c # <<>> /\ ChunksOf(s, Head(toProxy)) = c /\ About(Head(toProxy), s)
  BY <1>1 DEF ToProxy, ChunksOf, About, StreamEvents
<1> HIDE DEF c
<1>3. /\ Way(toProxy, s) = c \o Way(toProxy', s)
      /\ ~Silent(toProxy, s)
      /\ Way(toProxy', s) \in Seq(Chunks)
  BY <1>1, <1>2, ChannelTail, WayType, TailQueue
<1>4. /\ Over(s)' <=> Over(s)
      /\ consumer'[s].got = consumer[s].got => (Complete(s)' <=> Complete(s))
      /\ Upto(host[s].made)' = Upto(host[s].made)
  BY <1>1 DEF Over, Complete, Upto
<1>5. CASE s \notin DOMAIN entry
  <2>1. UNCHANGED <<entry, consumer>>
    BY <1>5 DEF ProxyChunks
  <2>2. QED
    BY <1>1, <1>4, <1>5, <2>1 DEF PageSide, Started
<1>6. CASE s \in DOMAIN entry
  <2>1. /\ (entry[s].errored \/ entry[s].done) => cancelled[s]
        /\ entry[s] \in Entry /\ entry[s].queue \in Seq(Chunks) /\ consumer[s] \in Consumer
        /\ consumer[s].got \in Seq(Chunks) /\ host[s].buffer \in Seq(Chunks)
    BY <1>3, <1>6, StreamTypes DEF PageSide
  <2>2. CASE consumer[s].state = "waiting"
    <3>1. /\ Got(s, Head(c)) /\ entry' = [entry EXCEPT ![s].queue = @ \o Tail(c)]
          /\ entry[s].queue = <<>>
      BY <1>6, <2>2 DEF ProxyChunks, PageSide, c
    <3>2. /\ DOMAIN entry' = DOMAIN entry /\ entry'[s].queue = entry[s].queue \o Tail(c)
          /\ entry'[s].errored = entry[s].errored /\ entry'[s].done = entry[s].done
      BY <1>6, <2>1, <3>1 DEF Entry
    <3>3. consumer'[s].state = "ready" /\ consumer'[s].got = Append(consumer[s].got, Head(c))
      BY <3>1 DEF Got, Consumer, TypeOK
    <3>4. Flow(s)' = Flow(s)
      <4> DEFINE g == consumer[s].got
                 w == Way(toProxy', s)
                 b == host[s].buffer
      <4>1. g \in Seq(Chunks) /\ w \in Seq(Chunks) /\ b \in Seq(Chunks)
        BY <1>3, <2>1
      <4>2. /\ <<Head(c)>> \in Seq(Chunks) /\ Tail(c) \in Seq(Chunks)
            /\ c = <<Head(c)>> \o Tail(c)
        BY <1>2
      <4>3. entry'[s].queue = Tail(c)
        BY <3>1, <3>2, <4>2, ConcatEmptySeq
      <4>4. Flow(s)' = Append(g, Head(c)) \o Tail(c) \o w \o b
        BY <1>1, <3>3, <4>3 DEF Flow
      <4>5. Flow(s) = g \o <<>> \o (c \o w) \o b
        BY <1>3, <3>1 DEF Flow
      <4> HIDE DEF g, w, b
      <4>6. Append(g, Head(c)) = g \o <<Head(c)>>
        BY <4>1, <1>2
      <4>7. (g \o <<Head(c)>>) \o Tail(c) = g \o c
        BY <4>1, <4>2, ConcatAssociative
      <4>8. g \o <<>> = g /\ g \o (c \o w) = (g \o c) \o w
        BY <1>2, <4>1, ConcatAssociative, ConcatEmptySeq
      <4>9. QED
        BY <4>4, <4>5, <4>6, <4>7, <4>8
    <3>5. QED
      BY <1>1, <1>4, <1>6, <2>1, <2>2, <3>2, <3>3, <3>4 DEF PageSide, Started
  <2>3. CASE consumer[s].state # "waiting"
    <3>1. /\ UNCHANGED consumer /\ entry' = [entry EXCEPT ![s].queue = @ \o c]
      BY <1>6, <2>3 DEF ProxyChunks, c
    <3>2. /\ DOMAIN entry' = DOMAIN entry /\ entry'[s].queue = entry[s].queue \o c
          /\ entry'[s].errored = entry[s].errored /\ entry'[s].done = entry[s].done
      BY <1>6, <2>1, <3>1 DEF Entry
    <3>3. Flow(s)' = Flow(s)
      <4> DEFINE g == consumer[s].got
                 q == entry[s].queue
                 w == Way(toProxy', s)
                 b == host[s].buffer
      <4>1. /\ g \in Seq(Chunks) /\ q \in Seq(Chunks) /\ w \in Seq(Chunks) /\ b \in Seq(Chunks)
            /\ c \in Seq(Chunks)
        BY <1>2, <1>3, <2>1
      <4>2. Flow(s)' = g \o (q \o c) \o w \o b
        BY <1>1, <3>1, <3>2 DEF Flow
      <4>3. Flow(s) = g \o q \o (c \o w) \o b
        BY <1>3 DEF Flow
      <4> HIDE DEF g, q, w, b
      <4>4. g \o (q \o c) = (g \o q) \o c
        BY <4>1
      <4>5. (g \o q) \o (c \o w) = g \o q \o c \o w
        BY <4>1
      <4>6. QED
        BY <4>2, <4>3, <4>4, <4>5
    <3>4. QED
      BY <1>1, <1>4, <1>6, <2>1, <2>3, <3>1, <3>2, <3>3 DEF PageSide, Started
  <2>4. QED
    BY <2>2, <2>3
<1>7. QED
  BY <1>5, <1>6

\* The end of s arrives.
LEMMA PageEnd ==
    ASSUME TypeOK, NEW s \in Streams, HostSide(s), PageSide(s), ProxyEnd(s)
    PROVE  PageSide(s)'
<1>1. /\ UNCHANGED <<disposed, cancelled, host>> /\ toProxy \in Seq(ToProxy) /\ toProxy # <<>>
      /\ toProxy' = Tail(toProxy) /\ Head(toProxy) \in ToProxy
      /\ EndOf(Head(toProxy), s)
  BY TailQueue DEF ProxyEnd, FromHost, hostVars, EndOf, TypeOK
<1>2. Over(s) /\ Silent(toProxy', s) /\ host[s].buffer = <<>>
  BY <1>1, ChannelTail DEF HostSide
<1>3. ChunksOf(s, Head(toProxy)) = <<>>
  BY <1>1, ChunksOfType
<1>4. Way(toProxy', s) = <<>> /\ Way(toProxy, s) = <<>>
  <2>1. toProxy' \in Seq(ToProxy)
    BY <1>1, TailQueue
  <2>2. Way(toProxy', s) = <<>>
    BY <1>2, <2>1, WaySilent
  <2>3. Way(toProxy, s) = <<>> \o <<>>
    BY <1>1, <1>3, <2>2, ChannelTail
  <2>4. QED
    BY <2>2, <2>3
<1>5. /\ Over(s)' /\ Silent(toProxy, s)'
      /\ consumer'[s].got = consumer[s].got => (Complete(s)' <=> Complete(s))
      /\ Upto(host[s].made)' = Upto(host[s].made)
  BY <1>1, <1>2 DEF Over, Complete, Upto, Silent
<1>6. CASE s \notin DOMAIN entry
  <2>1. UNCHANGED <<entry, consumer>>
    BY <1>6 DEF ProxyEnd
  <2>2. QED
    BY <1>1, <1>5, <1>6, <2>1 DEF PageSide, Started
<1>7. CASE s \in DOMAIN entry
  <2>1. /\ entry[s] \in Entry /\ entry[s].queue \in Seq(Chunks) /\ consumer[s] \in Consumer
        /\ consumer[s].got \in Seq(Chunks) /\ consumer \in [Streams -> Consumer]
    BY <1>7, StreamTypes DEF TypeOK
  <2>2. PICK e \in Entry, state \in {"ended", "failed"} :
            entry' = Closed(s, e) /\ e.queue = entry[s].queue /\ Wake(s, state)
    <3>1. /\ [entry[s] EXCEPT !.done = TRUE, !.released = TRUE] \in Entry
          /\ [entry[s] EXCEPT !.errored = TRUE, !.released = TRUE] \in Entry
          /\ [entry[s] EXCEPT !.done = TRUE, !.released = TRUE].queue = entry[s].queue
          /\ [entry[s] EXCEPT !.errored = TRUE, !.released = TRUE].queue = entry[s].queue
      BY <2>1 DEF Entry
    <3>2. QED
      BY <1>7, <3>1 DEF ProxyEnd
  <2>3. /\ consumer'[s].got = consumer[s].got
        /\ \/ consumer[s].state = "waiting" /\ consumer'[s].state = state
           \/ consumer[s].state # "waiting" /\ consumer'[s].state = consumer[s].state
    BY <2>1, <2>2 DEF Wake, Becomes, Consumer
  <2>4. Started(s)' <=> Started(s)
    BY <2>2, <2>3 DEF Started
  <2>5. CASE entry[s].queue = <<>>
    <3>1. s \notin DOMAIN entry'
      BY <2>2, <2>5 DEF Closed, Without
    <3>2. Started(s) => Complete(s)
      <4>1. Flow(s) = consumer[s].got \o <<>> \o <<>> \o <<>>
        BY <1>2, <1>4, <2>5 DEF Flow
      <4>2. Flow(s) = consumer[s].got
        BY <2>1, <4>1
      <4>3. QED
        BY <1>2, <1>7, <4>2 DEF PageSide, Complete
    <3>3. QED
      BY <1>5, <2>2, <2>3, <2>4, <3>1, <3>2 DEF PageSide, Started
  <2>6. CASE entry[s].queue # <<>>
    <3>1. DOMAIN entry' = DOMAIN entry /\ entry'[s].queue = entry[s].queue
      BY <1>7, <2>2, <2>6 DEF Closed
    <3>2. consumer[s].state # "waiting"
      BY <2>6 DEF PageSide
    <3>3. Flow(s)' = Flow(s)
      BY <1>1, <1>4, <2>3, <3>1 DEF Flow
    <3>4. QED
      BY <1>1, <1>5, <1>7, <2>3, <2>4, <3>1, <3>2, <3>3 DEF PageSide
  <2>7. QED
    BY <2>5, <2>6
<1>8. QED
  BY <1>6, <1>7

\* Arrivals of another stream.
LEMMA PageOtherArrivals ==
    ASSUME TypeOK, NEW s \in Streams, PageSide(s), Next,
           NEW t \in Streams \ {s}, ProxyChunks(t) \/ ProxyEnd(t)
    PROVE  PageSide(s)'
<1>1. /\ UNCHANGED <<disposed, cancelled, host>> /\ toProxy \in Seq(ToProxy) /\ toProxy # <<>>
      /\ toProxy' = Tail(toProxy) /\ Head(toProxy) \in ToProxy
      /\ ~About(Head(toProxy), s)
  BY TailQueue DEF ProxyChunks, ProxyEnd, FromHost, hostVars, About, TypeOK
<1>2. ChunksOf(s, Head(toProxy)) = <<>> /\ Tail(toProxy) \in Seq(ToProxy)
  BY <1>1, ChunksOfType, TailQueue
<1>3. Way(toProxy', s) = Way(toProxy, s) /\ (Silent(toProxy, s) => Silent(toProxy', s))
  <2>1. Way(toProxy, s) = <<>> \o Way(toProxy', s) /\ (Silent(toProxy, s) => Silent(toProxy', s))
    BY <1>1, <1>2, ChannelTail
  <2>2. Way(toProxy', s) \in Seq(Chunks)
    BY <1>1, <1>2, WayType
  <2>3. <<>> \o Way(toProxy', s) = Way(toProxy', s)
    BY <2>2, ConcatEmptySeq
  <2>4. QED
    BY <2>1, <2>3
<1>4. consumer'[s] = consumer[s]
  BY DEF ProxyChunks, ProxyEnd, Wake, Becomes, Got, TypeOK
<1>5. /\ s \in DOMAIN entry' <=> s \in DOMAIN entry
      /\ s \in DOMAIN entry => entry'[s] = entry[s]
  <2>1. CASE ProxyChunks(t)
    BY <2>1 DEF ProxyChunks, TypeOK
  <2>2. CASE ProxyEnd(t)
    <3>1. UNCHANGED entry \/ \E e : entry' = Closed(t, e)
      BY <2>2 DEF ProxyEnd
    <3>2. QED
      BY <3>1 DEF Closed, Without, TypeOK
  <2>3. QED
    BY <2>1, <2>2
<1>6. QED
  BY <1>1, <1>3, <1>4, <1>5, PageUntouched DEF Over

LEMMA PageSideStep ==
    ASSUME TypeOK, StartedInv, NEW s \in Streams, HostSide(s), PageSide(s), Next
    PROVE  PageSide(s)'
<1>0. toProxy \in Seq(ToProxy) /\ Way(toProxy, s) \in Seq(Chunks)
  BY FlowTypes DEF TypeOK
<1>1. ASSUME NEW r \in Requests, Call(r) \/ HostCall(r) \/ HostReply(r) \/ Reply(r)
      PROVE  PageSide(s)'
  <2>1. UNCHANGED <<disposed, entry, consumer, cancelled, host>>
    BY <1>1 DEF Call, HostCall, HostReply, Reply, streamVars, hostVars
  <2>2. Way(toProxy', s) = Way(toProxy, s) /\ (Silent(toProxy, s) => Silent(toProxy', s))
    <3>1. CASE Call(r) \/ HostCall(r)
      BY <3>1 DEF Call, HostCall
    <3>2. CASE HostReply(r)
      <4>1. PICK m \in Answers(r) : toProxy' = Append(toProxy, m)
        BY <3>2 DEF HostReply, Answers
      <4>2. m \in ToProxy /\ m.type \notin StreamEvents
        <5>1. m \in ToProxy
          BY MessageTypes
        <5>2. m.type \notin StreamEvents
          BY DEF Answers, Message, StreamEvents
        <5>3. QED
          BY <5>1, <5>2
      <4>3. ~About(m, s)
        BY <4>2 DEF About
      <4>4. ChunksOf(s, m) = <<>>
        BY <4>2, <4>3, ChunksOfType
      <4>5. Way(toProxy', s) = Way(toProxy, s) \o <<>> /\ (Silent(toProxy, s) => Silent(toProxy', s))
        BY <1>0, <4>1, <4>2, <4>3, <4>4, ChannelAppend
      <4>6. QED
        BY <1>0, <4>5, ConcatEmptySeq
    <3>3. CASE Reply(r)
      <4>1. /\ toProxy # <<>> /\ toProxy' = Tail(toProxy)
            /\ Head(toProxy).type \in {"method-result", "method-error"}
        BY <3>3 DEF Reply, FromHost
      <4>2. Head(toProxy) \in ToProxy /\ Tail(toProxy) \in Seq(ToProxy)
        BY <1>0, <4>1, TailQueue
      <4>3. ~About(Head(toProxy), s)
        BY <4>1 DEF About, StreamEvents
      <4>4. ChunksOf(s, Head(toProxy)) = <<>>
        BY <4>2, <4>3, ChunksOfType
      <4>5. Way(toProxy, s) = <<>> \o Way(toProxy', s) /\ (Silent(toProxy, s) => Silent(toProxy', s))
        BY <1>0, <4>1, <4>4, ChannelTail
      <4>6. Way(toProxy', s) \in Seq(Chunks)
        BY <4>1, <4>2, WayType
      <4>7. QED
        BY <4>5, <4>6, ConcatEmptySeq
    <3>4. QED
      BY <1>1, <3>1, <3>2, <3>3
  <2>3. QED
    BY <2>1, <2>2, PageUntouched DEF Over
<1>2. ASSUME NEW t \in Streams, Consumes(t)
      PROVE  PageSide(s)'
  <2>1. CASE t = s
    BY <1>2, <2>1, PageConsumes
  <2>2. CASE t # s
    <3>1. t \in Streams \ {s}
      BY <2>2
    <3>2. /\ UNCHANGED <<disposed, host, toProxy>>
          /\ consumer'[s] = consumer[s] /\ cancelled'[s] = cancelled[s]
          /\ s \in DOMAIN entry' <=> s \in DOMAIN entry
          /\ s \in DOMAIN entry => entry'[s] = entry[s]
      BY <1>2, <3>1, PageOthers
    <3>3. QED
      BY <3>2, PageUntouched DEF Over
  <2>3. QED
    BY <2>1, <2>2
<1>3. ASSUME NEW t \in Streams, HostStart(t) \/ HostCancel(t) \/ HostYield(t) \/ HostEnd(t)
      PROVE  PageSide(s)'
  BY <1>3, PageHosts
<1>4. ASSUME NEW t \in Streams, ProxyChunks(t) \/ ProxyEnd(t)
      PROVE  PageSide(s)'
  BY <1>4, PageChunks, PageEnd, PageOtherArrivals
<1>5. CASE Crash
  <2>1. disposed' /\ entry' = [t \in {} |-> 0] /\ s \notin DOMAIN entry'
    BY <1>5 DEF Crash
  <2>2. /\ consumer'[s].state # "waiting" /\ consumer'[s].got = consumer[s].got
        /\ Started(s)' <=> Started(s)
    BY <1>5 DEF Crash, TypeOK, Consumer, Started
  <2>3. QED
    BY <2>1, <2>2 DEF PageSide
<1>6. QED
  BY <1>1, <1>2, <1>3, <1>4, <1>5 DEF Next, HostReceives, ProxyReceives

(***************************************************************************)
(* The two sides together.                                                 *)
(***************************************************************************)

StreamInv == TypeOK /\ StartedInv /\ DeliveryInv

LEMMA InitDelivery == Init => StreamInv
<1>1. SUFFICES ASSUME Init PROVE StreamInv
  OBVIOUS
<1>2. TypeOK /\ StartedInv
  BY <1>1, InitCallback DEF CallbackInv
<1>3. ASSUME NEW s \in Streams PROVE HostSide(s) /\ PageSide(s)
  <2>1. Starts(s) = 0
    BY <1>1, CarriedNothing DEF Starts, Init
  <2>2. /\ host[s].state = "idle" /\ host[s].made = 0 /\ host[s].buffer = <<>> /\ toProxy = <<>>
        /\ consumer[s].state = "idle" /\ consumer[s].got = <<>> /\ DOMAIN entry = {}
    BY <1>1 DEF Init
  <2>3. HostSide(s)
    BY <2>1, <2>2 DEF HostSide, Over, Silent, HasEnd, EndsLast
  <2>4. PageSide(s)
    BY <2>2 DEF PageSide, Started
  <2>5. QED
    BY <2>3, <2>4
<1>4. QED
  BY <1>2, <1>3 DEF StreamInv, DeliveryInv

LEMMA NextDelivery == StreamInv /\ [Next]_vars => StreamInv'
<1>1. SUFFICES ASSUME StreamInv, [Next]_vars PROVE StreamInv'
  OBVIOUS
<1>2. TypeOK /\ StartedInv /\ DeliveryInv
  BY <1>1 DEF StreamInv
<1>3. TypeOK'
  BY <1>1, <1>2, NextTypes
<1>4. CASE UNCHANGED vars
  <2>1. StartedInv'
    BY <1>2, <1>4 DEF StartedInv, Started, vars
  <2>2. ASSUME NEW s \in Streams PROVE HostSide(s)' /\ PageSide(s)'
    <3>1. HostSide(s) /\ PageSide(s)
      BY <1>2 DEF DeliveryInv
    <3>2. HostSide(s)'
      BY <1>4, <3>1 DEF HostSide, Starts, Over, vars
    <3>3. PageSide(s)'
      BY <1>2, <1>4, <3>1, PageUntouched DEF Over, vars
    <3>4. QED
      BY <3>2, <3>3
  <2>3. QED
    BY <1>3, <2>1, <2>2 DEF StreamInv, DeliveryInv
<1>5. CASE Next
  <2>1. StartedInv'
    BY <1>2, <1>5, StartedStep
  <2>2. ASSUME NEW s \in Streams PROVE HostSide(s)' /\ PageSide(s)'
    <3>1. HostSide(s) /\ PageSide(s)
      BY <1>2 DEF DeliveryInv
    <3>2. QED
      BY <1>2, <1>5, <3>1, HostSideStep, PageSideStep
  <2>3. QED
    BY <1>3, <2>1, <2>2 DEF StreamInv, DeliveryInv
<1>6. QED
  BY <1>1, <1>4, <1>5

\* A stream delivers the chunks the engine yielded, each once and in order, however its
\* batches, its consumer, its abort and the crash of the worker interleave; and the end
\* of a stream reaches its consumer after the last of them (webllm-worker-host.ts,
\* webllm-proxy.ts).
THEOREM StreamsDeliverHolds == Spec => []StreamsDeliver
<1>1. StreamInv => StreamsDeliver
  BY DeliveryIsStreamsDeliver DEF StreamInv
<1>2. QED
  BY <1>1, InitDelivery, NextDelivery, PTL DEF Spec
===============================================================================
