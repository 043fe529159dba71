------------------------------ MODULE EngineParts ------------------------------
(***************************************************************************)
(* Two parts of the engine that share no state: the loads that bring       *)
(* models up and give them up, and the ring of cells that holds tokens.    *)
(* This module names their constants and variables apart, for the run and  *)
(* for the proofs.                                                         *)
(***************************************************************************)
EXTENDS Naturals

CONSTANTS
    Models, Adopted, Bytes, Priority, Budget, Nobody,   \* of the loads
    SequenceIds, bufferSize, MaxStretch                          \* of the ring

VARIABLES
    load, wasm, staging, registry, registeredBefore, records, pool, allocatedBefore,
    usedBytes, pressure, sessions, leaving, engine, early, uncounted,
    position, sequenceIds, head, usedCells, mixed

loadVars == <<load, wasm, staging, registry, registeredBefore, records, pool,
              allocatedBefore, usedBytes, pressure, sessions, leaving, engine, early, uncounted>>

ringVars == <<position, sequenceIds, head, usedCells, mixed>>

Loading == INSTANCE ModelLoad WITH used <- usedBytes

Ring == INSTANCE KvRing WITH MaxTokens <- MaxStretch

ASSUME LoadAssumption == Loading!LoadConstants

ASSUME RingAssumption == Ring!RingConstants

-----------------------------------------------------------------------------
\* The properties of the instances, as their modules state them: the pool's total,
\* budget and pressure are those of what it holds (ModelLoad).
PoolAddsUp == Loading!PoolAddsUp

\* What a load acquired has an owner, and the owners agree (ModelLoad).
OwnersAgree == Loading!OwnersAgree

\* The counts of the ring are those of its cells (KvRing).
CountsAreRight == Ring!CountsAreRight
=============================================================================
