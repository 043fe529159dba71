------------------------------ MODULE JsepInstance ------------------------------
(***************************************************************************)
(* The JSEP runtime with its constants and variables named, for the run    *)
(* and for the proofs, where other parts stand beside it, and the memory   *)
(* that it implements.                                                     *)
(***************************************************************************)
EXTENDS Naturals

CONSTANTS
    Cells, Values, Mul, Norm, Row, Shapes, Readers, Buckets, SrcBucket, DstBucket, Sizes,
    Oversized, PassScope, MaxDispatch, MaxHandle

VARIABLES
    installed, handles, bucket, alive, freeBuckets, nextHandle, content, pending, reads,
    runOps, lost

Jsep == INSTANCE JsepQueue

ASSUME JsepAssumption == Jsep!JsepConstants

\* The device looks for conflicts in each dispatch, as the WebGPU standard has it.  The
\* runtime depends on it: record puts an operator into the pass of the one whose result
\* it reads.  Were the scope the pass, as the comments in set-rows.ts and matmul.ts have
\* it, such a batch would be dropped, and HandlesAreMemory would not hold.
ASSUME DispatchScope == ~PassScope

-----------------------------------------------------------------------------
\* The memory shown to the callers: what has been recorded counts as done.
Sequential == INSTANCE SequentialMemory WITH
    memory <- Jsep!Memory, answers <- Jsep!Answers, broken <- lost

\* Handles are memory that calls use in the order in which they are made: no batch, flush,
\* divert or reuse of a buffer shows, as long as no oversized buffer is freed under
\* dispatches that are recorded and not submitted, on a device as DispatchScope has it.
ImplementsSequential == Sequential!Spec

\* And every buffer that has not been destroyed has one owner (GpuDataManager, CommandEncoder).
HandlesAreMemory == []Jsep!OneOwner /\ ImplementsSequential
=============================================================================
