------------------------------ MODULE ModelLoad ------------------------------
(***************************************************************************)
(* Loading, adopting, evicting and unloading models (engine.ts), with the  *)
(* model manager (model-manager.ts) and the memory pool (memory-pool.ts)   *)
(* they are recorded in.  A load makes a wasm module of its own, streams   *)
(* the file into its heap or takes it from a buffer, uploads the weights,  *)
(* registers an entry, waits for the hash of the tokenizer, records the    *)
(* model in the engine and counts its bytes in the pool.  Each of these    *)
(* can fail, and other loads, an unload, an eviction or the shutdown of    *)
(* the engine can come in at every await.  The manager and the pool are    *)
(* public: their operations may be called at any time.                     *)
(*                                                                         *)
(* A model stands for one load: its wasm module, its entry, its record and *)
(* its allocation.  A Map in insertion order is the set of its keys, and   *)
(* which of them came before which.                                        *)
(***************************************************************************)
EXTENDS Integers, FiniteSets

CONSTANTS
    Models,
    Adopted,   \* those whose pipeline the caller assembles and hands over
    Bytes,     \* size of the file of each model
    Priority,  \* priority each model is loaded with
    Budget,    \* memoryBudget
    Nobody     \* no model to spare

\* What the constants are.
LoadConstants ==
    /\ Adopted \subseteq Models
    /\ Bytes \in [Models -> Nat \ {0}]
    /\ Priority \in [Models -> Nat]
    /\ Budget \in Nat \ {0}
    /\ Nobody \notin Models

VARIABLES
    load,      \* how far each load has gone
    wasm,      \* its wasm module, which holds the device and the weights
    staging,   \* models whose file occupies the wasm heap
    registry,  \* ModelManager.models
    registeredBefore,
    records,   \* WebLLM.models
    pool,      \* MemoryPool.allocations
    allocatedBefore,
    used,      \* usedBytes
    pressure,  \* hadPressure
    sessions,  \* activeSessions of the entries
    leaving,   \* models unloadModel has begun to dispose
    engine,    \* before, in and after shutdown
    early,     \* history: models unregistered, or the engine shut down, before the load was over
    uncounted  \* history: models the pool does not count: evicted, or of a size nobody told

entries     == <<registry, registeredBefore>>
allocations == <<pool, allocatedBefore, used, pressure>>
manager     == <<entries, allocations, sessions, early, uncounted>>
vars        == <<load, wasm, staging, records, leaving, engine, manager>>

TypeOK ==
    /\ load \in [Models -> {"none", "init", "install", "stream", "hash", "loaded", "failed",
                          "dropped", "refused"}]
    /\ wasm \in [Models -> {"none", "up", "down"}]
    /\ staging \subseteq Models
    /\ registry \subseteq Models /\ registeredBefore \subseteq registry \X registry
    /\ records \subseteq Models
    /\ pool \subseteq Models /\ allocatedBefore \subseteq pool \X pool
    /\ used \in Int
    /\ pressure \in BOOLEAN
    /\ sessions \in [Models -> Nat]
    /\ leaving \subseteq Models
    /\ engine \in {"up", "closing", "down"}
    /\ early \subseteq Models
    /\ uncounted \subseteq Models

Init ==
    /\ load = [m \in Models |-> "none"]
    /\ wasm = [m \in Models |-> "none"]
    /\ staging = {}
    /\ registry = {} /\ registeredBefore = {}
    /\ records = {}
    /\ pool = {} /\ allocatedBefore = {}
    /\ used = 0
    /\ pressure = FALSE
    /\ sessions = [m \in Models |-> 0]
    /\ leaving = {}
    /\ engine = "up"
    /\ early = {}
    /\ uncounted = {}

Registered(m) == m \in registry

-----------------------------------------------------------------------------
\* MemoryPool

remainingBytes == Budget - used

canAllocate(size) == size <= remainingBytes

UnderPressure(bytes) == 4 * bytes > 3 * Budget

Allocate(m) ==
    /\ pool' = pool \cup {m}
    /\ allocatedBefore' = allocatedBefore \cup (pool \X {m})
    /\ used' = used + Bytes[m]
    /\ pressure' = (pressure \/ UnderPressure(used + Bytes[m]))

\* Mutant: the bytes are not given back.
UsedAfterFreeKept(m) == used

UsedAfterFree(m) == IF m \in pool THEN used - Bytes[m] ELSE used

\* Mutant: pressure is told once and for all.
PressureAfterFreeKept(m) == pressure

PressureAfterFree(m) ==
    pressure /\ (m \in pool => 4 * UsedAfterFree(m) >= 3 * Budget)

\* free of the allocation of m, and evictModel, for no model has two.
Free(m) ==
    /\ pool' = pool \ {m}
    /\ allocatedBefore' = allocatedBefore \cap (pool' \X pool')
    /\ used' = UsedAfterFree(m)
    /\ pressure' = PressureAfterFree(m)

\* The allocations evictForAllocation may take for size bytes: one that suffices alone.
Suffices(size, spared) == {m \in pool : m # spared /\ remainingBytes + Bytes[m] >= size}

\* It takes the one with the highest number, the oldest among equals.
Victim(candidates) ==
    CHOOSE m \in candidates : \A n \in candidates \ {m} :
        \/ Priority[m] > Priority[n]
        \/ Priority[m] = Priority[n] /\ <<m, n>> \in allocatedBefore

-----------------------------------------------------------------------------
\* ModelManager

Register(m) ==
    /\ registry' = registry \cup {m}
    /\ registeredBefore' = registeredBefore \cup (registry \X {m})

Deregister(m) ==
    /\ registry' = registry \ {m}
    /\ registeredBefore' = registeredBefore \cap (registry' \X registry')
    /\ sessions' = [sessions EXCEPT ![m] = 0]

\* Mutant: the memory of the model is forgotten.
UnregisterOnly(m) == Deregister(m) /\ UNCHANGED allocations

\* unregister: the entry goes with what the pool holds for it.
Unregister(m) ==
    IF Registered(m)
    THEN Free(m) /\ Deregister(m)
    ELSE UNCHANGED <<entries, sessions>> /\ UNCHANGED allocations

\* Entries in the order of getAll, the last registered among equals last.
After(m, n) ==
    \/ Priority[m] > Priority[n]
    \/ Priority[m] = Priority[n] /\ <<n, m>> \in registeredBefore

EvictLowestPriority ==
    \E m \in registry :
        /\ sessions[m] = 0
        /\ \A n \in registry \ {m} : sessions[n] = 0 => After(m, n)
        /\ Unregister(m)
        /\ early' = early \cup (IF load[m] = "hash" THEN {m} ELSE {})
        /\ uncounted' = uncounted \cup {m}
        /\ UNCHANGED <<load, wasm, staging, records, leaving, engine>>

\* evictForAllocation, and canFit, which asks for it when the bytes do not fit.
EvictForAllocation(size, spared) ==
    /\ Suffices(size, spared) # {}
    /\ LET m == Victim(Suffices(size, spared)) IN
        /\ Free(m)
        /\ uncounted' = uncounted \cup {m}
    /\ UNCHANGED <<load, wasm, staging, entries, records, sessions, leaving, engine, early>>

CanFit(size) == ~canAllocate(size) /\ EvictForAllocation(size, Nobody)

AddSession(m) ==
    /\ Registered(m)
    /\ sessions = [n \in Models |-> 0]  \* bound: one session at a time
    /\ sessions' = [sessions EXCEPT ![m] = @ + 1]
    /\ UNCHANGED <<load, wasm, staging, entries, records, allocations, leaving, engine,
                   early, uncounted>>

RemoveSession(m) ==
    /\ sessions[m] > 0
    /\ sessions' = [sessions EXCEPT ![m] = @ - 1]
    /\ UNCHANGED <<load, wasm, staging, entries, records, allocations, leaving, engine,
                   early, uncounted>>

-----------------------------------------------------------------------------
\* Loading

\* loadModelFromBuffer and loadModelFromUrl, which begin alike.
BeginLoad(m) ==
    /\ engine = "up"
    /\ m \notin Adopted
    /\ load[m] = "none"
    /\ load' = [load EXCEPT ![m] = "init"]
    /\ UNCHANGED <<wasm, staging, records, leaving, engine>> /\ UNCHANGED manager

\* wasm.init; when it rejects there is no module to shut down.
InitDone(m) ==
    /\ load[m] = "init"
    /\ \/ load' = [load EXCEPT ![m] = "install"] /\ wasm' = [wasm EXCEPT ![m] = "up"]
       \/ load' = [load EXCEPT ![m] = "failed"] /\ wasm' = wasm
    /\ UNCHANGED <<staging, records, leaving, engine>> /\ UNCHANGED manager

\* Mutant: the module is left as it is.
TornDownNever(m) == wasm

TornDown(m) == [wasm EXCEPT ![m] = "down"]

\* A step the loader itself answers for throws: the staging region is freed and the
\* module shut down.
FailAndShutdown(m) ==
    /\ load' = [load EXCEPT ![m] = "failed"]
    /\ wasm' = TornDown(m)
    /\ staging' = staging \ {m}
    /\ UNCHANGED <<records, leaving, engine>> /\ UNCHANGED manager

\* maybeInstallJsep rejects.
InstallFails(m) == load[m] = "install" /\ FailAndShutdown(m)

\* loadModelFromUrl: the file is to be streamed into the heap; there may be no room for it.
Stream(m) ==
    /\ load[m] = "install"
    /\ \/ FailAndShutdown(m)
       \/ /\ load' = [load EXCEPT ![m] = "stream"]
          /\ staging' = staging \cup {m}
          /\ UNCHANGED <<wasm, records, leaving, engine>> /\ UNCHANGED manager

\* A read rejects, the file is short or does not parse.
StreamFails(m) == load[m] = "stream" /\ FailAndShutdown(m)

\* From loadModelFromBuffer, or with the file in the heap.
BuildReady(m) == load[m] \in {"install", "stream"}

\* _buildInferenceAndRegister up to its await: weights, KV cache, entry.
Build(m) ==
    /\ BuildReady(m)
    /\ load' = [load EXCEPT ![m] = "hash"]
    /\ staging' = staging \ {m}
    /\ Register(m)
    /\ UNCHANGED <<wasm, records, allocations, sessions, leaving, engine, early, uncounted>>

\* It throws: the staging region is freed, and nobody else is told, for the loaders
\* return its promise without awaiting it.
BuildFails(m) ==
    /\ BuildReady(m)
    /\ load' = [load EXCEPT ![m] = "dropped"]
    /\ staging' = staging \ {m}
    /\ UNCHANGED <<wasm, records, leaving, engine>> /\ UNCHANGED manager

\* adoptPreloadedModel up to its await; the caller made the module.
AdoptPreloadedModel(m) ==
    /\ engine = "up"
    /\ m \in Adopted
    /\ load[m] = "none"
    /\ load' = [load EXCEPT ![m] = "hash"]
    /\ wasm' = [wasm EXCEPT ![m] = "up"]
    /\ Register(m)
    /\ UNCHANGED <<staging, records, allocations, sessions, leaving, engine, early, uncounted>>

\* The module of a pipeline that is not adopted stays the caller's.
Failure(m) == IF m \in Adopted THEN "refused" ELSE "dropped"

\* computeTokenizerHash rejects; the entry stays.
HashFails(m) ==
    /\ load[m] = "hash"
    /\ load' = [load EXCEPT ![m] = Failure(m)]
    /\ UNCHANGED <<wasm, staging, records, leaving, engine>> /\ UNCHANGED manager

\* Mutant: the record is left out.
RecordedNever(m) == records

Recorded(m) == records \cup {m}

\* The hash is there: the record is set, then the bytes are counted, which throws when
\* they exceed the budget.  Who adopts a pipeline may leave its size out (weightBytes).
HashDone(m) ==
    /\ load[m] = "hash"
    /\ records' = Recorded(m)
    /\ \/ /\ m \in Adopted
          /\ load' = [load EXCEPT ![m] = "loaded"]
          /\ uncounted' = uncounted \cup {m}
          /\ UNCHANGED allocations
       \/ /\ canAllocate(Bytes[m])
          /\ load' = [load EXCEPT ![m] = "loaded"]
          /\ uncounted' = uncounted \ {m}
          /\ Allocate(m)
       \/ /\ ~canAllocate(Bytes[m])
          /\ load' = [load EXCEPT ![m] = Failure(m)]
          /\ uncounted' = uncounted
          /\ UNCHANGED allocations
    /\ UNCHANGED <<wasm, staging, entries, sessions, leaving, engine, early>>

-----------------------------------------------------------------------------
\* Unloading

\* unloadModel: with a record it first waits for the model to be disposed; without one
\* only the manager hears of it.
UnloadModel(m) ==
    /\ load[m] \in {"hash", "loaded", "dropped"}
    /\ m \notin leaving
    /\ IF m \in records
       THEN /\ leaving' = leaving \cup {m}
            /\ UNCHANGED manager
       ELSE /\ leaving' = leaving
            /\ Unregister(m)
            /\ early' = early \cup (IF load[m] = "hash" THEN {m} ELSE {})
            /\ UNCHANGED uncounted
    /\ UNCHANGED <<load, wasm, staging, records, engine>>

UnloadModelDone(m) ==
    /\ m \in leaving
    /\ wasm' = [wasm EXCEPT ![m] = "down"]
    /\ leaving' = leaving \ {m}
    /\ records' = records \ {m}
    /\ Unregister(m)
    /\ uncounted' = uncounted \ {m}
    /\ UNCHANGED <<load, staging, engine, early>>

Shutdown ==
    /\ engine = "up"
    /\ engine' = "closing"
    /\ UNCHANGED <<load, wasm, staging, records, leaving>> /\ UNCHANGED manager

\* Its loop also reaches the records set while it waits.
ShutdownModel(m) ==
    /\ engine = "closing"
    /\ m \in records
    /\ wasm[m] = "up"
    /\ wasm' = [wasm EXCEPT ![m] = "down"]
    /\ UNCHANGED <<load, staging, records, leaving, engine>> /\ UNCHANGED manager

ShutdownDone ==
    /\ engine = "closing"
    /\ \A m \in records : wasm[m] # "up"
    /\ engine' = "down"
    /\ records' = {}
    /\ registry' = {} /\ registeredBefore' = {}
    /\ pool' = {} /\ allocatedBefore' = {}
    /\ used' = 0
    /\ pressure' = FALSE
    /\ sessions' = [m \in Models |-> 0]
    /\ early' = early \cup {m \in Models : load[m] \in {"init", "install", "stream", "hash"}}
    /\ UNCHANGED <<load, wasm, staging, leaving, uncounted>>

Next ==
    \/ EvictLowestPriority \/ Shutdown \/ ShutdownDone
    \/ \E m \in Models :
        \/ BeginLoad(m) \/ AdoptPreloadedModel(m)
        \/ InitDone(m) \/ InstallFails(m) \/ Stream(m) \/ StreamFails(m)
        \/ Build(m) \/ BuildFails(m) \/ HashFails(m) \/ HashDone(m)
        \/ UnloadModel(m) \/ UnloadModelDone(m) \/ ShutdownModel(m)
        \/ AddSession(m) \/ RemoveSession(m)
        \/ CanFit(Bytes[m])
        \/ \E n \in Models : EvictForAllocation(Bytes[n], m)

Spec == Init /\ [][Next]_vars

-----------------------------------------------------------------------------
\* Properties

\* The bytes of the models in the pool, one by one.
HeldBytes == UNION {{m} \X (1..Bytes[m]) : m \in pool}

\* The pool's running total is what it holds, one allocation a model, never before its
\* load has come so far, and stays within the budget, whatever is freed, evicted,
\* unregistered or reset; and the pressure event was told since the pool was last below
\* three quarters if and only if it is above (at exactly three quarters either may be).
PoolAddsUp ==
    /\ used = Cardinality(HeldBytes)
    /\ \A m \in pool : load[m] \notin {"none", "init", "install", "stream", "hash"}
    /\ used <= Budget
    /\ UnderPressure(used) => pressure
    /\ 4 * used < 3 * Budget => ~pressure

\* A wasm module, with its device and its weights, belongs to a load under way or to a
\* record of the engine, or else its load failed inside _buildInferenceAndRegister; its
\* file is in the wasm heap only while it is streamed; and once the engine is shut down
\* only loads that were under way leave records.
NothingOrphaned ==
    \A m \in Models :
        /\ wasm[m] = "up" =>
            \/ m \in records
            \/ load[m] \in {"install", "stream", "hash"}
            \/ load[m] \in {"dropped", "refused"}
        /\ m \in staging => load[m] = "stream"
        /\ (engine = "down" /\ m \in records) => m \in early

\* The engine's records, the manager's entries and the pool agree.  A loaded model that
\* runs is counted in the pool, unless it was evicted behind the engine's back or adopted
\* by a caller who left its size out, and then it is not; what is counted belongs to an
\* entry, unless the entry was removed while the load waited for its hash; and an entry
\* whose load is over has its record and its module runs, except while it is being
\* unloaded or the engine shut down.
RecordsAgree ==
    /\ \A m \in Models :
        (load[m] = "loaded" /\ wasm[m] = "up" /\ m \in records) => m \in pool \cup uncounted
    /\ pool \cap uncounted = {}
    /\ \A m \in pool : Registered(m) \/ m \in early
    /\ \A m \in registry :
        load[m] = "loaded" =>
            /\ m \in records
            /\ wasm[m] = "up" \/ engine = "closing"

\* The two together: whatever a load acquired has an owner, and the owners agree.
OwnersAgree == NothingOrphaned /\ RecordsAgree
=============================================================================
