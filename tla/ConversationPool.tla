--------------------------- MODULE ConversationPool ---------------------------
(***************************************************************************)
(* The conversation pool of an engine (core/conversation-pool.ts) driven   *)
(* by the engine methods that use it: createConversation,                  *)
(* disposeConversation, forkConversation, exportConversation,              *)
(* importConversation, unloadModel, shutdown and the pool side of          *)
(* chatCompletion.  A handle is represented by its numeric id; its         *)
(* modelHandleId is written once, together with the entry's, so a handle   *)
(* the pool issued never disagrees with its entry about the model.  A      *)
(* snapshot is represented by the conversation whose turn, or whose import *)
(* blob, it was taken from: what it holds is the subject of                *)
(* ConversationChat.                                                       *)
(***************************************************************************)
EXTENDS Integers, FiniteSets

CONSTANTS
    Models,            \* model handle ids
    Calls,             \* slots for chatCompletion calls in flight
    MaxConversations,  \* pool capacity, config.maxConversations
    MaxId,             \* bound on the ids issued
    MaxAccess          \* bound on the access counter

ASSUME PoolAssumption ==
    /\ MaxConversations \in Nat
    /\ MaxId \in Nat
    /\ MaxAccess \in Nat

VARIABLES
    entries,        \* the Map: a function whose domain is the set of live ids
    nextId,         \* next id to issue
    accessCounter,  \* last access ordinal handed out
    modelState,     \* what the engine knows of each model
    closing,        \* shutdown has begun and has not finished
    call,           \* chatCompletion calls: phase and conversation
    disposed        \* history: ids removed by their owner or with their model

vars == <<entries, nextId, accessCounter, modelState, closing, call, disposed>>

Ids   == 1 .. MaxId
NoId  == 0
Entry == [model: Models, snapshot: Ids \cup {NoId}, locked: BOOLEAN, accessSeq: Nat]
Idle  == [phase |-> "idle", conv |-> NoId]

TypeOK ==
    /\ DOMAIN entries \subseteq Ids
    /\ entries \in [DOMAIN entries -> Entry]
    /\ nextId \in 1 .. (MaxId + 1)
    /\ accessCounter \in Nat
    /\ modelState \in [Models -> {"loaded", "unloading", "gone"}]
    /\ closing \in BOOLEAN
    /\ call \in [Calls -> [phase: {"idle", "waiting", "running"}, conv: Ids \cup {NoId}]]
    /\ disposed \subseteq Ids

Init ==
    /\ entries = [i \in {} |-> 0]
    /\ nextId = 1
    /\ accessCounter = 0
    /\ modelState = [m \in Models |-> "loaded"]
    /\ closing = FALSE
    /\ call = [c \in Calls |-> Idle]
    /\ disposed = {}

-----------------------------------------------------------------------------
(* Operations on the Map.  An operator takes the entries it starts from.   *)

Live(es) == DOMAIN es

Without(es, gone) == [i \in Live(es) \ gone |-> es[i]]

\* _requireEntry: found, then marked with the next access ordinal.
Touch(es, i, ordinal) == [es EXCEPT ![i].accessSeq = ordinal]

\* Non-locked entries, of which _findLruEvictable returns the oldest.
Evictable(es) == {i \in Live(es) : ~es[i].locked}

\* Mutant: the comparison is the wrong way round.
IsMruEvictable(es, i) ==
    /\ i \in Evictable(es)
    /\ \A j \in Evictable(es) : es[i].accessSeq >= es[j].accessSeq

IsLruEvictable(es, i) ==
    /\ i \in Evictable(es)
    /\ \A j \in Evictable(es) : es[i].accessSeq <= es[j].accessSeq

\* Mutant: size <= max where the code has size < max.
MadeRoomLate(es) ==
    IF Cardinality(Live(es)) <= MaxConversations
    THEN {es}
    ELSE {Without(es, {i}) : i \in {j \in Live(es) : IsLruEvictable(es, j)}}

\* The entries left once create or fork has made room; none if the pool is
\* full of locked entries (ConversationPoolFullError).
MadeRoom(es) ==
    IF Cardinality(Live(es)) < MaxConversations
    THEN {es}
    ELSE {Without(es, {i}) : i \in {j \in Live(es) : IsLruEvictable(es, j)}}

Insert(es, i, entry) == [j \in Live(es) \cup {i} |-> IF j = i THEN entry ELSE es[j]]

NewEntry(m, snap, ordinal) ==
    [model |-> m, snapshot |-> snap, locked |-> FALSE, accessSeq |-> ordinal]

\* The closure tryAcquireLock returns: it writes to its own entry object, so
\* nothing happens in the pool when that entry has left it.
Release(es, i) == IF i \in Live(es) THEN [es EXCEPT ![i].locked = FALSE] ELSE es

\* Mutant: the lock is tested and not set.
AcquireNothing(es, i) == es

Acquire(es, i) == [es EXCEPT ![i].locked = TRUE]

Populated(i) == entries[i].snapshot # NoId

Handles == 1 .. (nextId - 1)

\* The bounds: an operation that needs an id or n access ordinals has them.
IdLeft        == nextId <= MaxId
AccessLeft(n) == accessCounter + n <= MaxAccess

-----------------------------------------------------------------------------
(* Engine operations.  Each is one synchronous stretch of code.            *)

\* The checks of createConversation and importConversation: the manager still
\* has the entry and the record still has its inference until unloadModel has
\* awaited every dispose.
Usable(m) == modelState[m] # "gone"

CreateConversation(m) ==
    /\ Usable(m) /\ IdLeft /\ AccessLeft(1)
    /\ \E room \in MadeRoom(entries) :
           entries' = Insert(room, nextId, NewEntry(m, NoId, accessCounter + 1))
    /\ nextId' = nextId + 1
    /\ accessCounter' = accessCounter + 1
    /\ UNCHANGED <<modelState, closing, call, disposed>>

\* create, then set, which touches the new entry once more.
ImportConversation(m) ==
    /\ Usable(m) /\ IdLeft /\ AccessLeft(2)
    /\ \E room \in MadeRoom(entries) :
           entries' = Insert(room, nextId, NewEntry(m, nextId, accessCounter + 2))
    /\ nextId' = nextId + 1
    /\ accessCounter' = accessCounter + 2
    /\ UNCHANGED <<modelState, closing, call, disposed>>

ForkConversation(src) ==
    /\ src \in Live(entries) /\ Populated(src)
    /\ IdLeft /\ AccessLeft(2)
    /\ \E room \in MadeRoom(Touch(entries, src, accessCounter + 1)) :
           entries' = Insert(room, nextId,
                             NewEntry(entries[src].model, entries[src].snapshot, accessCounter + 2))
    /\ nextId' = nextId + 1
    /\ accessCounter' = accessCounter + 2
    /\ UNCHANGED <<modelState, closing, call, disposed>>

\* The existence check touches the source also when fork then throws, for want
\* of a snapshot or of room.
ForkRefused(src) ==
    /\ src \in Live(entries) /\ AccessLeft(1)
    /\ \/ ~Populated(src)
       \/ MadeRoom(entries) = {}
    /\ entries' = Touch(entries, src, accessCounter + 1)
    /\ accessCounter' = accessCounter + 1
    /\ UNCHANGED <<nextId, modelState, closing, call, disposed>>

DisposeConversation(i) ==
    /\ i \in Handles
    /\ entries' = Without(entries, {i})
    /\ disposed' = disposed \cup {i}
    /\ UNCHANGED <<nextId, accessCounter, modelState, closing, call>>

\* assertExists, tryAcquireLock, get and, with a snapshot, options; the lock is
\* released before the call returns, so only the ordinal remains.  Busy leaves
\* after the second touch.
ExportConversation(i) ==
    /\ i \in Live(entries)
    /\ LET touches == IF entries[i].locked THEN 2
                      ELSE IF Populated(i) /\ Usable(entries[i].model) THEN 4 ELSE 3
       IN  /\ AccessLeft(touches)
           /\ entries' = Touch(entries, i, accessCounter + touches)
           /\ accessCounter' = accessCounter + touches
    /\ UNCHANGED <<nextId, modelState, closing, call, disposed>>

ModelConversations(m) == {i \in Live(entries) : entries[i].model = m}

\* unloadModel up to its first await.
UnloadModel(m) ==
    /\ modelState[m] # "gone"
    /\ entries' = Without(entries, ModelConversations(m))
    /\ disposed' = disposed \cup ModelConversations(m)
    /\ modelState' = [modelState EXCEPT ![m] = "unloading"]
    /\ UNCHANGED <<nextId, accessCounter, closing, call>>

\* After its last await: the record is deleted and the model unregistered.
UnloadModelDone(m) ==
    /\ modelState[m] = "unloading"
    /\ modelState' = [modelState EXCEPT ![m] = "gone"]
    /\ UNCHANGED <<entries, nextId, accessCounter, closing, call, disposed>>

\* shutdown clears the pool first, then awaits the disposal of every model and
\* drops all records and manager entries together.
Shutdown ==
    /\ ~closing /\ \E m \in Models : Usable(m)
    /\ entries' = Without(entries, Live(entries))
    /\ disposed' = disposed \cup Live(entries)
    /\ closing' = TRUE
    /\ UNCHANGED <<nextId, accessCounter, modelState, call>>

ShutdownDone ==
    /\ closing
    /\ closing' = FALSE
    /\ modelState' = [m \in Models |-> "gone"]
    /\ UNCHANGED <<entries, nextId, accessCounter, call, disposed>>

-----------------------------------------------------------------------------
(* The pool side of chatCompletion(conv, ...), cut at its awaits.          *)

\* assertExists and tryAcquireLock each touch the entry; a second call on the
\* conversation is refused with ConversationBusyError after doing so.
ChatBegin(c, i) ==
    /\ call[c].phase = "idle" /\ i \in Live(entries) /\ AccessLeft(2)
    /\ ~entries[i].locked
    /\ entries' = Acquire(Touch(entries, i, accessCounter + 2), i)
    /\ accessCounter' = accessCounter + 2
    /\ call' = [call EXCEPT ![c] = [phase |-> "waiting", conv |-> i]]
    /\ UNCHANGED <<nextId, modelState, closing, disposed>>

ChatBusy(i) ==
    /\ i \in Live(entries) /\ AccessLeft(2)
    /\ entries[i].locked
    /\ entries' = Touch(entries, i, accessCounter + 2)
    /\ accessCounter' = accessCounter + 2
    /\ UNCHANGED <<nextId, modelState, closing, call, disposed>>

\* After the chain: the model is resolved, then options and get touch the entry.
ChatResolve(c) ==
    /\ call[c].phase = "waiting" /\ AccessLeft(2)
    /\ call[c].conv \in Live(entries)
    /\ Usable(entries[call[c].conv].model)
    /\ entries' = Touch(entries, call[c].conv, accessCounter + 2)
    /\ accessCounter' = accessCounter + 2
    /\ call' = [call EXCEPT ![c].phase = "running"]
    /\ UNCHANGED <<nextId, modelState, closing, disposed>>

\* Mutant: set inserts an entry that is not there.
ChatSaveUpsert(c) ==
    LET i == call[c].conv
        m == CHOOSE m \in Models : TRUE IN
    /\ call[c].phase = "running" /\ AccessLeft(1)
    /\ entries' = Insert(entries, i, NewEntry(m, i, accessCounter + 1))
    /\ accessCounter' = accessCounter + 1
    /\ call' = [call EXCEPT ![c] = Idle]
    /\ UNCHANGED <<nextId, modelState, closing, disposed>>

\* The save phase sets the snapshot, then the finally block releases the lock.
ChatSave(c) ==
    LET i == call[c].conv IN
    /\ call[c].phase = "running" /\ AccessLeft(1)
    /\ i \in Live(entries)
    /\ entries' = Release([Touch(entries, i, accessCounter + 1) EXCEPT ![i].snapshot = i], i)
    /\ accessCounter' = accessCounter + 1
    /\ call' = [call EXCEPT ![c] = Idle]
    /\ UNCHANGED <<nextId, modelState, closing, disposed>>

\* Every other way out runs the same finally block: an error of any step (the
\* entry or the model is gone, the prompt overflows, a forward fails), a caller
\* that returns early, skipSave.
ChatLeave(c) ==
    /\ call[c].phase # "idle"
    /\ entries' = Release(entries, call[c].conv)
    /\ call' = [call EXCEPT ![c] = Idle]
    /\ UNCHANGED <<nextId, accessCounter, modelState, closing, disposed>>

-----------------------------------------------------------------------------
Next ==
    \/ \E m \in Models : \/ CreateConversation(m) \/ ImportConversation(m)
                         \/ UnloadModel(m) \/ UnloadModelDone(m)
    \/ \E i \in Ids : \/ ForkConversation(i) \/ ForkRefused(i)
                      \/ DisposeConversation(i) \/ ExportConversation(i) \/ ChatBusy(i)
    \/ \E c \in Calls : \/ \E i \in Ids : ChatBegin(c, i)
                        \/ ChatResolve(c) \/ ChatSave(c) \/ ChatLeave(c)
    \/ Shutdown \/ ShutdownDone

Spec == Init /\ [][Next]_vars

-----------------------------------------------------------------------------
InFlight(c) == call[c].phase # "idle"

\* Single writer: a live entry is locked exactly while one call in flight holds
\* it, and no two calls in flight are on the same conversation.
SingleWriter ==
    /\ \A i \in Live(entries) :
           entries[i].locked <=> \E c \in Calls : InFlight(c) /\ call[c].conv = i
    /\ \A c, d \in Calls :
           InFlight(c) /\ InFlight(d) /\ call[c].conv = call[d].conv => c = d

\* A call in flight loses its conversation only because its owner disposed of it
\* or unloaded the model, however many conversations others create, import or
\* fork meanwhile: eviction never takes a conversation that is in use.
InUseKept ==
    \A c \in Calls : InFlight(c) => call[c].conv \in Live(entries) \cup disposed

\* The pool never holds more than maxConversations entries, forks and imports
\* included.
Capacity == Cardinality(Live(entries)) <= MaxConversations

\* Access ordinals are distinct, so the least recently used entry is unique and
\* never depends on the Map's insertion order.
RecencyTotal ==
    \A i, j \in Live(entries) :
        /\ entries[i].accessSeq <= accessCounter
        /\ entries[i].accessSeq = entries[j].accessSeq => i = j

\* A handle whose entry has left the pool never finds an entry again: a stale
\* handle cannot reach a later conversation.
NeverRevived ==
    [][\A i \in Handles \ Live(entries) : i \notin Live(entries')]_vars
=============================================================================
