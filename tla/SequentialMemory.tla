--------------------------- MODULE SequentialMemory ---------------------------
(***************************************************************************)
(* What the JSEP runtime promises to the code that calls it: memory that   *)
(* the calls read and write in the order in which they are made, as if     *)
(* each took effect at once, and reads that are answered with what was     *)
(* there when they were made.  It knows of no command encoder, no batch,   *)
(* no buffer pool and no queue.  If a buffer is destroyed under commands   *)
(* that are not yet submitted, nothing more is promised (broken).          *)
(***************************************************************************)
EXTENDS Integers, Sequences

CONSTANTS Cells, Values, Readers, Mul, Norm, Row

VARIABLES
    memory,   \* cells of the live handles
    answers,  \* reads under way, each with the value that answers it
    runOps,   \* operators run, modulo 2
    broken

vars == <<memory, answers, runOps, broken>>

Live == DOMAIN memory

Init ==
    /\ memory = <<>>
    /\ answers = [r \in Readers |-> [phase |-> "idle", value |-> 0]]
    /\ runOps = 0
    /\ broken = FALSE

Become(h, cells) == memory' = [memory EXCEPT ![h] = cells]

\* A new handle joins, holding anything, and none loses anything.
Grow ==
    \E h \in DOMAIN memory' \ Live :
        /\ DOMAIN memory' = Live \cup {h}
        /\ \A g \in Live : memory'[g] = memory[g]

Free == \E h \in Live : memory' = [g \in Live \ {h} |-> memory[g]]

\* A write, or a clear, of some cells.
Write ==
    \E h \in Live, cells \in SUBSET Cells, v \in Values :
        Become(h, [c \in Cells |-> IF c \in cells THEN v ELSE memory[h][c]])

Tensors == Live \X Cells

At(t) == memory[t[1]][t[2]]

\* MUL_MAT, RMS_NORM, SET_ROWS; operands and result may be the same or lie in one buffer.
RunOp ==
    /\ runOps' = 1 - runOps
    /\ \E d, a, b \in Tensors :
        \/ Become(d[1], [memory[d[1]] EXCEPT ![d[2]] = Mul[At(a), At(b)]])
        \/ Become(d[1], [memory[d[1]] EXCEPT ![d[2]] = Norm[At(a)]])
        \/ Become(d[1], [memory[d[1]] EXCEPT ![Row[At(b)]] = At(a)])

BeginRead ==
    \E r \in Readers, t \in Tensors :
        /\ answers[r].phase # "waiting"
        /\ answers' = [answers EXCEPT ![r] = [phase |-> "waiting", value |-> At(t)]]

EndRead ==
    \E r \in Readers, phase \in {"idle", "rejected"} :
        /\ answers[r].phase = "waiting"
        /\ answers' = [answers EXCEPT ![r] = [phase |-> phase, value |-> 0]]

Forget == memory' = <<>>

Next ==
    \/ ~broken /\ UNCHANGED <<answers, runOps, broken>> /\ (Grow \/ Free \/ Write \/ Forget)
    \/ ~broken /\ UNCHANGED <<answers, broken>> /\ RunOp
    \/ ~broken /\ UNCHANGED <<memory, runOps, broken>> /\ (BeginRead \/ EndRead)
    \/ broken'

Spec == Init /\ [][Next]_vars
=============================================================================
