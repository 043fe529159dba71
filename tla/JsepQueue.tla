------------------------------ MODULE JsepQueue ------------------------------
(***************************************************************************)
(* The JSEP runtime (inference/jsep): handles of GPU buffers that are      *)
(* pooled in buckets (gpu-data-manager.ts), the batch of recorded          *)
(* dispatches (command-encoder.ts), and the callbacks that write, read,    *)
(* clear and run operators on them (index.ts, ops/).  Recorded dispatches  *)
(* run when the batch is flushed; writes, copies and reads go to the       *)
(* device's queue at once, so each of them must flush before.  An operator *)
(* whose result lies in the buffer of an operand is diverted through a     *)
(* temporary buffer.  A read waits for a staging buffer to be mapped; the  *)
(* wasm heap may grow meanwhile, which detaches the view it was given.     *)
(*                                                                         *)
(* The device's queue is first in, first out, and nothing but its own      *)
(* commands sees the buffers: a submission takes effect when it is made.   *)
(* A batch is one compute pass.  Within what scope a buffer must not be    *)
(* bound both for reading and for writing is a parameter: the operators'   *)
(* comments say the pass (set-rows.ts, dispatchSetRows), the WebGPU        *)
(* standard each dispatch of it.                                           *)
(* A buffer holds a value per cell; a tensor is a cell of a buffer.        *)
(***************************************************************************)
EXTENDS Integers, Sequences, FiniteSets, SequencesExt

CONSTANTS
    Cells,        \* offsets in a buffer
    Values,       \* values of a cell; fresh buffers hold 0
    Mul, Norm,    \* the kernels of MUL_MAT and RMS_NORM
    Row,          \* the cell an index names in SET_ROWS
    Shapes,       \* inputs of jsepRunOp: operator, cell of the result, cells of the operands
    Readers,      \* reads that may be under way
    Buckets,      \* sizes that are pooled
    SrcBucket, DstBucket, \* those of the warm-up
    Sizes,        \* sizes asked for
    Oversized,    \* a size above the largest bucket
    PassScope,    \* the device looks for such conflicts in the pass, not in each dispatch
    MaxDispatch,  \* maxDispatch
    MaxHandle     \* bound: handles given out by one installation

Buffers == 1..MaxHandle

Handles == 1..MaxHandle

Ops == {"MUL_MAT", "RMS_NORM", "SET_ROWS"}

\* Operands of an operator; a run with another number of them is refused.
Arity == [MUL_MAT |-> 2, RMS_NORM |-> 1, SET_ROWS |-> 3]

\* What the constants must be (JsepInstance assumes it).
JsepConstants ==
    /\ 0 \in Values
    /\ Mul \in [Values \X Values -> Values]
    /\ Norm \in [Values -> Values]
    /\ Row \in [Values -> Cells]
    /\ Shapes \subseteq [op : Ops, dst : Cells, srcs : Seq(Cells)]
    /\ \A shape \in Shapes : Len(shape.srcs) = Arity[shape.op]
    /\ SrcBucket \in Buckets /\ DstBucket \in Buckets
    /\ Oversized \notin Buckets
    /\ Sizes \subseteq Buckets \cup {Oversized}
    /\ PassScope \in BOOLEAN
    /\ MaxDispatch \in Nat \ {0}
    /\ MaxHandle \in Nat \ {0, 1}

VARIABLES
    installed,   \* module.__jsep is set
    handles,     \* GpuDataManager.handles: live handle -> buffer
    bucket,      \* size of each buffer made
    alive,       \* buffers not destroyed
    freeBuckets,
    nextHandle,
    content,     \* cells of each buffer, as the queue leaves them
    pending,     \* recorded dispatches, not yet submitted
    reads,       \* readAsync calls
    runOps,      \* counters.runOp, modulo 2
    lost         \* history: a buffer was destroyed under a recorded dispatch

vars == <<installed, handles, bucket, alive, freeBuckets, nextHandle, content, pending,
          reads, runOps, lost>>

Dispatches == [op : Ops, dst : Buffers \X Cells, srcs : Seq(Buffers \X Cells)]

TypeOK ==
    /\ installed \in BOOLEAN
    /\ DOMAIN handles \subseteq 1..(nextHandle - 1)
    /\ \A h \in DOMAIN handles : handles[h] \in alive
    /\ bucket \in [Buffers -> Buckets \cup {Oversized}]
    /\ alive \subseteq Buffers
    /\ freeBuckets \in [Buckets -> Seq(Buffers)]
    /\ nextHandle \in 1..(MaxHandle + 1)
    /\ content \in [Buffers -> [Cells -> Values]]
    /\ pending \in Seq(Dispatches) /\ Len(pending) < MaxDispatch
    /\ reads \in [Readers -> [phase : {"idle", "waiting", "rejected"},
                              value : Values, detached : BOOLEAN]]
    /\ runOps \in {0, 1}
    /\ lost \in BOOLEAN

Zeros == [c \in Cells |-> 0]

Init ==
    /\ installed = FALSE
    /\ handles = <<>>
    /\ bucket = [b \in Buffers |-> Oversized]
    /\ alive = {}
    /\ freeBuckets = [k \in Buckets |-> <<>>]
    /\ nextHandle = 1
    /\ content = [b \in Buffers |-> Zeros]
    /\ pending = <<>>
    /\ reads = [r \in Readers |-> [phase |-> "idle", value |-> 0, detached |-> FALSE]]
    /\ runOps = 0
    /\ lost = FALSE

-----------------------------------------------------------------------------
\* The device

Value(c, t) == c[t[1]][t[2]]

\* What a kernel leaves in the buffer it is given for its result, cell by cell.
Kernel(c, d, result) ==
    CASE d.op = "MUL_MAT" ->
            [result EXCEPT ![d.dst[2]] = Mul[Value(c, d.srcs[1]), Value(c, d.srcs[2])]]
      [] d.op = "RMS_NORM" -> [result EXCEPT ![d.dst[2]] = Norm[Value(c, d.srcs[1])]]
      [] d.op = "SET_ROWS" -> [result EXCEPT ![Row[Value(c, d.srcs[2])]] = Value(c, d.srcs[1])]

Execute(c, d) == [c EXCEPT ![d.dst[1]] = Kernel(c, d, c[d.dst[1]])]

\* Buffers bound for reading: SET_ROWS does not bind its third operand.
Bound(d) == {d.srcs[i][1] : i \in 1..(IF d.op = "RMS_NORM" THEN 1 ELSE 2)}

\* The queue drops a submission that uses a destroyed buffer, or binds one buffer for
\* reading and for writing in the scope in which it looks for that.
Accepted(batch, living) ==
    \A i \in DOMAIN batch :
        /\ Bound(batch[i]) \cup {batch[i].dst[1]} \subseteq living
        /\ \A j \in DOMAIN batch :
            (i = j \/ PassScope) => batch[i].dst[1] \notin Bound(batch[j])

\* The buffers c after each of the first dispatches of a batch.
QueueStates(c, batch) ==
    LET state[n \in 0..Len(batch)] == IF n = 0 THEN c ELSE Execute(state[n - 1], batch[n])
    IN  state

Submitted(batch) ==
    IF Accepted(batch, alive) THEN QueueStates(content, batch)[Len(batch)] ELSE content

-----------------------------------------------------------------------------
\* CommandEncoderBatcher

\* Mutant: nothing is submitted before a queue operation.
FlushedLate == content

\* The buffers after flush.
Flushed == Submitted(pending)

\* record: the batch is flushed when it is full.
Record(d) ==
    IF Len(pending) + 1 >= MaxDispatch
    THEN content' = Submitted(Append(pending, d)) /\ pending' = <<>>
    ELSE content' = content /\ pending' = Append(pending, d)

-----------------------------------------------------------------------------
\* GpuDataManager

Pooled == UNION {Range(freeBuckets[k]) : k \in Buckets}

\* A buffer is called after the handle it is made for.
NewBuffer == nextHandle

\* alloc: the buffer freed last in the bucket is used again, with what it holds.
Alloc(size) ==
    /\ installed
    /\ nextHandle <= MaxHandle  \* bound
    /\ nextHandle' = nextHandle + 1
    /\ IF size # Oversized /\ freeBuckets[size] # <<>>
       THEN /\ handles' = [h \in DOMAIN handles \cup {nextHandle} |->
                               IF h = nextHandle THEN Last(freeBuckets[size]) ELSE handles[h]]
            /\ freeBuckets' = [freeBuckets EXCEPT ![size] = Front(@)]
            /\ UNCHANGED <<bucket, alive, content>>
       ELSE /\ handles' = [h \in DOMAIN handles \cup {nextHandle} |->
                               IF h = nextHandle THEN NewBuffer ELSE handles[h]]
            /\ bucket' = [bucket EXCEPT ![NewBuffer] = size]
            /\ alive' = alive \cup {NewBuffer}
            /\ content' = [content EXCEPT ![NewBuffer] = Zeros]
            /\ UNCHANGED freeBuckets
    /\ UNCHANGED <<installed, pending, reads, runOps, lost>>

Uses(d, b) == b \in Bound(d) \cup {d.dst[1]}

Without(h) == [g \in DOMAIN handles \ {h} |-> handles[g]]

\* free: nothing is flushed.  On a handle that is not live it does nothing.
Free(h) ==
    /\ h \in DOMAIN handles
    /\ LET b == handles[h] IN
        IF bucket[b] # Oversized
        THEN /\ freeBuckets' = [freeBuckets EXCEPT ![bucket[b]] = Append(@, b)]
             /\ UNCHANGED <<alive, lost>>
        ELSE /\ alive' = alive \ {b}
             /\ lost' = (lost \/ \E i \in DOMAIN pending : Uses(pending[i], b))
             /\ UNCHANGED freeBuckets
    /\ handles' = Without(h)
    /\ UNCHANGED <<installed, bucket, nextHandle, content, pending, reads, runOps>>

-----------------------------------------------------------------------------
\* The callbacks

\* jsepWrite and jsepClear; what is written comes from the heap as it is.
Write(h, cells, v) ==
    /\ h \in DOMAIN handles
    /\ content' = [Flushed EXCEPT ![handles[h]] =
                      [c \in Cells |-> IF c \in cells THEN v ELSE @[c]]]
    /\ pending' = <<>>
    /\ UNCHANGED <<installed, handles, bucket, alive, freeBuckets, nextHandle, reads, runOps, lost>>

jsepWrite(h) == \E c \in Cells, v \in Values : Write(h, {c}, v)

jsepClear(h) == \E v \in Values : Write(h, Cells, v)

\* jsepRead up to the map of its staging buffer, which the copy has filled.
jsepRead(r, h) ==
    /\ h \in DOMAIN handles
    /\ reads[r].phase # "waiting"
    /\ content' = Flushed
    /\ pending' = <<>>
    /\ \E c \in Cells :
        reads' = [reads EXCEPT ![r] = [phase |-> "waiting", value |-> Flushed[handles[h]][c],
                                       detached |-> FALSE]]
    /\ UNCHANGED <<installed, handles, bucket, alive, freeBuckets, nextHandle, runOps, lost>>

\* Mapped: the value is copied into the heap, which throws when the view is detached.
ReadMapped(r) ==
    /\ reads[r].phase = "waiting"
    /\ reads' = [reads EXCEPT ![r] = [phase |-> IF reads[r].detached THEN "rejected" ELSE "idle",
                                      value |-> 0, detached |-> FALSE]]
    /\ UNCHANGED <<installed, handles, bucket, alive, freeBuckets, nextHandle, content, pending,
                   runOps, lost>>

\* The wasm heap grows: the views taken of it are detached.
HeapGrows ==
    /\ \E r \in Readers : reads[r].phase = "waiting" /\ ~reads[r].detached
    /\ reads' = [r \in Readers |-> [reads[r] EXCEPT !.detached = (reads[r].phase = "waiting")]]
    /\ UNCHANGED <<installed, handles, bucket, alive, freeBuckets, nextHandle, content, pending,
                   runOps, lost>>

\* Mutant: only the first operand is compared.
AliasesFirst(d) == d.dst[1] = d.srcs[1][1]

\* dstAliasesSrc
Aliases(d) == \E i \in DOMAIN d.srcs : d.srcs[i][1] = d.dst[1]

\* The temporary buffer of a diverted dispatch, before the kernel runs.
TempDst(c, d) == IF d.op = "SET_ROWS" THEN c[d.dst[1]] ELSE Zeros

\* The cells copied back: those of the result.
CopiedBack(d) == IF d.op = "SET_ROWS" THEN Cells ELSE {d.dst[2]}

\* The batch is flushed, then copies and kernel are submitted by themselves.
Diverted(c, d) ==
    LET temp == Kernel(c, d, TempDst(c, d)) IN
    IF Bound(d) \cup {d.dst[1]} \subseteq alive
    THEN [c EXCEPT ![d.dst[1]] = [k \in Cells |-> IF k \in CopiedBack(d) THEN temp[k] ELSE @[k]]]
    ELSE c

Divert(d) == content' = Diverted(Flushed, d) /\ pending' = <<>>

\* dispatchMatmul, dispatchRmsNorm, dispatchSetRows, on operands they accept.
jsepRunOp(shape, d, srcs) ==
    LET dispatch == [op |-> shape.op, dst |-> <<handles[d], shape.dst>>,
                     srcs |-> [i \in DOMAIN shape.srcs |-> <<handles[srcs[i]], shape.srcs[i]>>]]
    IN  /\ IF Aliases(dispatch) THEN Divert(dispatch) ELSE Record(dispatch)
        /\ runOps' = 1 - runOps
        /\ UNCHANGED <<installed, handles, bucket, alive, freeBuckets, nextHandle, reads, lost>>

jsepSync ==
    /\ installed
    /\ pending # <<>>
    /\ content' = Flushed
    /\ pending' = <<>>
    /\ UNCHANGED <<installed, handles, bucket, alive, freeBuckets, nextHandle, reads, runOps, lost>>

\* installJsepCallbacks: a runtime of its own, whose warm-up leaves two buffers of zeros
\* in the pool.
Install ==
    /\ ~installed
    /\ installed' = TRUE
    /\ handles' = <<>>
    /\ bucket' = [b \in Buffers |->
                      CASE b = 1 -> SrcBucket [] b = 2 -> DstBucket [] OTHER -> Oversized]
    /\ alive' = {1, 2}
    /\ freeBuckets' = [k \in Buckets |-> (IF k = SrcBucket THEN <<1>> ELSE <<>>)
                                         \o (IF k = DstBucket THEN <<2>> ELSE <<>>)]
    /\ nextHandle' = 3
    /\ content' = [b \in Buffers |-> Zeros]
    /\ pending' = <<>>
    /\ UNCHANGED <<reads, runOps, lost>>

\* destroyJsepCallbacks: buffers live and pooled are destroyed; what is recorded is never
\* submitted; reads under way keep their staging buffers.
Destroy ==
    /\ installed
    /\ installed' = FALSE
    /\ handles' = <<>>
    /\ alive' = alive \ (Pooled \cup Range(handles))
    /\ freeBuckets' = [k \in Buckets |-> <<>>]
    /\ pending' = <<>>
    /\ UNCHANGED <<bucket, nextHandle, content, reads, runOps, lost>>

Next ==
    \/ Install \/ Destroy \/ jsepSync \/ HeapGrows
    \/ \E size \in Sizes : Alloc(size)
    \/ \E h \in Handles : Free(h) \/ jsepWrite(h) \/ jsepClear(h)
    \/ \E r \in Readers : ReadMapped(r) \/ \E h \in Handles : jsepRead(r, h)
    \/ \E shape \in Shapes : \E d \in DOMAIN handles :
        \E srcs \in [DOMAIN shape.srcs -> DOMAIN handles] : jsepRunOp(shape, d, srcs)

Spec == Init /\ [][Next]_vars

-----------------------------------------------------------------------------
\* Properties

\* A buffer that has not been destroyed belongs to one live handle or lies once in one
\* bucket, its own; no two handles share one, whatever is freed, reused or torn down.
OneOwner ==
    /\ alive = Pooled \cup Range(handles)
    /\ \A g, h \in DOMAIN handles : handles[g] = handles[h] => g = h
    /\ Pooled \cap Range(handles) = {}
    /\ \A k \in Buckets :
        /\ \A b \in Range(freeBuckets[k]) : bucket[b] = k
        /\ Len(freeBuckets[k]) = Cardinality(Range(freeBuckets[k]))

\* What the calls that have been made leave in the buffers of the handles.
Memory == [h \in DOMAIN handles |-> Submitted(pending)[handles[h]]]

\* The reads under way, without what becomes of their views.
Answers == [r \in Readers |-> [phase |-> reads[r].phase, value |-> reads[r].value]]
=============================================================================
