----------------------------- MODULE StreamRouter -----------------------------
(***************************************************************************)
(* StreamRouter: a producer emits values to consumers by id; each consumer *)
(* is an async generator over a queue of its own, read by a loop that asks *)
(* for one value at a time.  A consumer is named by the call that created  *)
(* it; its values are numbered in the order in which they were emitted.    *)
(***************************************************************************)
EXTENDS Naturals, Sequences, SequencesExt

CONSTANTS
    Ids,             \* identifiers of consumers
    Consumers,       \* calls of createConsumer
    maxQueueDepth,
    None, Done,
    MaxEmits         \* bound: values emitted to a consumer

\* What the constants are.
RouterConstants ==
    /\ maxQueueDepth \in Nat /\ MaxEmits \in Nat
    /\ None \notin Consumers /\ None # Done /\ {None, Done} \cap Nat = {}

VARIABLES
    streams,     \* the map: the consumer registered under an id, or None
    queue, closed, interrupted,
    resolve,     \* the consumer waits, and nothing has been resolved yet
    result,      \* what its promise was resolved with: a value, Done or None
    reader,      \* "none", "busy" (with a value), "waiting", "ended", "left"
    emitted,     \* history: values emitted to it while it was registered and open
    received     \* history: values its loop was given

flags == <<closed, interrupted, resolve, result>>
vars  == <<streams, queue, flags, reader, emitted, received>>

Init ==
    /\ streams = [i \in Ids |-> None]
    /\ queue = [c \in Consumers |-> <<>>]
    /\ closed = [c \in Consumers |-> FALSE] /\ interrupted = [c \in Consumers |-> FALSE]
    /\ resolve = [c \in Consumers |-> FALSE] /\ result = [c \in Consumers |-> None]
    /\ reader = [c \in Consumers |-> "none"]
    /\ emitted = [c \in Consumers |-> 0] /\ received = [c \in Consumers |-> <<>>]

-----------------------------------------------------------------------------
(* The router.                                                             *)

\* An id that is taken goes to the new consumer; the one before is no longer known.
createConsumer(c, i) ==
    /\ reader[c] = "none"
    /\ streams' = [streams EXCEPT ![i] = c]
    /\ reader' = [reader EXCEPT ![c] = "busy"]
    /\ UNCHANGED <<queue, flags, emitted, received>>

\* Mutant: a consumer that waits is not woken.
CloseSilently(c) ==
    /\ closed' = [closed EXCEPT ![c] = TRUE]
    /\ UNCHANGED <<resolve, result>>

Close(c) ==
    /\ closed' = [closed EXCEPT ![c] = TRUE]
    /\ IF resolve[c]
       THEN /\ resolve' = [resolve EXCEPT ![c] = FALSE]
            /\ result' = [result EXCEPT ![c] = Done]
       ELSE UNCHANGED <<resolve, result>>

\* Mutant: the promise stays open for the next value.
ResolvedAgain(c) == resolve

Resolved(c) == [resolve EXCEPT ![c] = FALSE]

\* A value for a consumer that waits, one for its queue, and one too many.
Push(c, value) ==
    \/ /\ resolve[c]
       /\ resolve' = Resolved(c) /\ result' = [result EXCEPT ![c] = value]
       /\ UNCHANGED <<queue, closed, interrupted>>
    \/ /\ ~resolve[c] /\ Len(queue[c]) < maxQueueDepth
       /\ queue' = [queue EXCEPT ![c] = Append(@, value)]
       /\ UNCHANGED flags
    \/ /\ ~resolve[c] /\ Len(queue[c]) >= maxQueueDepth
       /\ interrupted' = [interrupted EXCEPT ![c] = TRUE] /\ Close(c)
       /\ UNCHANGED queue

\* A consumer that has too much is interrupted and stays registered.
emit(i) ==
    LET c == streams[i]
    IN  /\ c # None /\ ~closed[c]
        /\ emitted[c] < MaxEmits /\ emitted' = [emitted EXCEPT ![c] = @ + 1]
        /\ Push(c, emitted[c] + 1)
        /\ UNCHANGED <<streams, reader, received>>

\* removeConsumer is the same.
close(i) ==
    /\ streams[i] # None
    /\ Close(streams[i]) /\ streams' = [streams EXCEPT ![i] = None]
    /\ UNCHANGED <<queue, interrupted, reader, emitted, received>>

interrupt(i) ==
    /\ streams[i] # None
    /\ interrupted' = [interrupted EXCEPT ![streams[i]] = TRUE]
    /\ Close(streams[i]) /\ streams' = [streams EXCEPT ![i] = None]
    /\ UNCHANGED <<queue, reader, emitted, received>>

-----------------------------------------------------------------------------
(* The generator, driven by its loop.                                      *)

\* next(): a value from the queue, the end, or a promise.
Ask(c) ==
    /\ reader[c] = "busy"
    /\ \/ /\ queue[c] # <<>>
          /\ received' = [received EXCEPT ![c] = Append(@, Head(queue[c]))]
          /\ queue' = [queue EXCEPT ![c] = Tail(@)]
          /\ UNCHANGED <<reader, resolve>>
       \/ /\ queue[c] = <<>> /\ closed[c]
          /\ reader' = [reader EXCEPT ![c] = "ended"]
          /\ UNCHANGED <<received, queue, resolve>>
       \/ /\ queue[c] = <<>> /\ ~closed[c]
          /\ reader' = [reader EXCEPT ![c] = "waiting"]
          /\ resolve' = [resolve EXCEPT ![c] = TRUE]
          /\ UNCHANGED <<received, queue>>
    /\ UNCHANGED <<streams, closed, interrupted, result, emitted>>

\* The await continues, some time after its promise was resolved.
Wake(c) ==
    /\ reader[c] = "waiting" /\ result[c] # None
    /\ result' = [result EXCEPT ![c] = None]
    /\ IF result[c] = Done
       THEN reader' = [reader EXCEPT ![c] = "ended"] /\ UNCHANGED received
       ELSE /\ reader' = [reader EXCEPT ![c] = "busy"]
            /\ received' = [received EXCEPT ![c] = Append(@, result[c])]
    /\ UNCHANGED <<streams, queue, closed, interrupted, resolve, emitted>>

\* The loop breaks; the consumer stays registered.
Leave(c) ==
    /\ reader[c] = "busy"
    /\ reader' = [reader EXCEPT ![c] = "left"]
    /\ UNCHANGED <<streams, queue, flags, emitted, received>>

Next ==
    \/ \E i \in Ids : emit(i) \/ close(i) \/ interrupt(i)
    \/ \E c \in Consumers : Ask(c) \/ Wake(c) \/ Leave(c)
    \/ \E c \in Consumers, i \in Ids : createConsumer(c, i)

Spec == Init /\ [][Next]_vars

-----------------------------------------------------------------------------
Values == 1..MaxEmits

\* The types of the variables; a consumer is resolved only while it waits.
TypeOK ==
    /\ streams \in [Ids -> Consumers \cup {None}]
    /\ queue \in [Consumers -> Seq(Values)] /\ received \in [Consumers -> Seq(Values)]
    /\ closed \in [Consumers -> BOOLEAN] /\ interrupted \in [Consumers -> BOOLEAN]
    /\ resolve \in [Consumers -> BOOLEAN]
    /\ result \in [Consumers -> Values \cup {None, Done}]
    /\ reader \in [Consumers -> {"none", "busy", "waiting", "ended", "left"}]
    /\ emitted \in [Consumers -> 0..MaxEmits]
    /\ \A c \in Consumers : resolve[c] \/ result[c] # None => reader[c] = "waiting"

UnderWay(c) == IF result[c] \in {None, Done} THEN <<>> ELSE <<result[c]>>

\* What a consumer was given, is about to be given and still has queued is what
\* was emitted to it, in order; all of it, unless it was cut off for its depth.
\* And nobody waits on a stream that is closed, or with values in the queue.
ConsumersAreServed ==
    \A c \in Consumers :
        LET kept == received[c] \o UnderWay(c) \o queue[c]
            all  == [n \in 1..emitted[c] |-> n]
        IN  /\ IsPrefix(kept, all) /\ (~interrupted[c] => kept = all)
            /\ resolve[c] => ~closed[c] /\ queue[c] = <<>>
            /\ reader[c] = "waiting" => resolve[c] \/ result[c] # None
=============================================================================
