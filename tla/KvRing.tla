-------------------------------- MODULE KvRing --------------------------------
(***************************************************************************)
(* KVCache: the bookkeeping of a ring of cells.  A cell has a position and *)
(* the sequences that share it; new tokens take a contiguous stretch from  *)
(* the head on, or the first that fits.  Each sequence is written by a     *)
(* caller that counts its positions from 0, or from the prompt it shares.  *)
(***************************************************************************)
EXTENDS Integers, FiniteSets, FiniteSetsExt

CONSTANTS
    SequenceIds,
    bufferSize,
    MaxTokens      \* bound: tokens of one call

\* What the constants are.
RingConstants == bufferSize \in Nat \ {0} /\ MaxTokens \in Nat

VARIABLES
    position,      \* per cell, -1 when it is empty
    sequenceIds,   \* per cell
    head, usedCells,
    mixed          \* history: a prompt was shared with a sequence that had cells

cells == <<position, sequenceIds>>
vars  == <<cells, head, usedCells, mixed>>

Cells == 0..bufferSize - 1

Init ==
    /\ position = [i \in Cells |-> -1] /\ sequenceIds = [i \in Cells |-> {}]
    /\ head = 0 /\ usedCells = 0 /\ mixed = FALSE

CellsOf(s) == {i \in Cells : s \in sequenceIds[i]}
Empty(i) == position[i] = -1 /\ sequenceIds[i] = {}

\* Mutant: the stretch from the head is not checked at its end.
StretchShort(from, n) == \A k \in 0..n - 2 : Empty((from + k) % bufferSize)

Stretch(from, n) == \A k \in 0..n - 1 : Empty((from + k) % bufferSize)

\* Where the slots start: after the head, once around; else from the beginning; or nowhere.
Starts(n) ==
    LET after == {a \in 0..bufferSize - n : Stretch((head + a) % bufferSize, n)}
        first == {i \in 0..bufferSize - n : Stretch(i, n)}
    IN  IF after # {} THEN {(head + Min(after)) % bufferSize}
        ELSE IF first # {} THEN {Min(first)} ELSE {}

\* findSlots, and updateSlots for the slots it found: the caller's next n tokens.
Write(s, n) ==
    \E from \in Starts(n) :
        LET slot(k) == (from + k) % bufferSize
            next == Cardinality(CellsOf(s))
        IN  /\ position' = [i \in Cells |->
                   IF \E k \in 0..n - 1 : slot(k) = i
                   THEN next + CHOOSE k \in 0..n - 1 : slot(k) = i ELSE position[i]]
            /\ sequenceIds' = [i \in Cells |->
                   IF \E k \in 0..n - 1 : slot(k) = i
                   THEN sequenceIds[i] \cup {s} ELSE sequenceIds[i]]
            /\ usedCells' = usedCells + n
            /\ head' = (slot(n - 1) + 1) % bufferSize
            /\ UNCHANGED mixed

\* Mutant: only cells that become empty are counted as freed.
FreedEmptied(s) == Cardinality({i \in Cells : sequenceIds[i] = {s}})

Freed(s) == Cardinality(CellsOf(s))

\* Mutant: a cell that others share is emptied with the rest.
EmptiedBy(i, s) == s \in sequenceIds[i]

Emptied(i, s) == sequenceIds[i] = {s}

evictSequence(s) ==
    /\ position' = [i \in Cells |-> IF Emptied(i, s) THEN -1 ELSE position[i]]
    /\ sequenceIds' = [i \in Cells |-> sequenceIds[i] \ {s}]
    /\ usedCells' = usedCells - Freed(s)
    /\ UNCHANGED <<head, mixed>>

\* A session takes over the prompt of another; one that has cells does so once,
\* since the count would grow with each repetition.
sharePromptCells(s, t, promptLength) ==
    LET prompt == {i \in CellsOf(s) : position[i] < promptLength}
    IN  /\ CellsOf(t) # {} => ~mixed
        /\ mixed' = (mixed \/ CellsOf(t) # {})
        /\ sequenceIds' = [i \in Cells |-> IF i \in prompt THEN sequenceIds[i] \cup {t}
                                                            ELSE sequenceIds[i]]
        /\ usedCells' = usedCells + Cardinality(prompt)
        /\ UNCHANGED <<position, head>>

reset ==
    /\ position' = [i \in Cells |-> -1] /\ sequenceIds' = [i \in Cells |-> {}]
    /\ head' = 0 /\ usedCells' = 0 /\ mixed' = FALSE

Next ==
    \/ \E s \in SequenceIds, n \in 1..MaxTokens : Write(s, n)
    \/ \E s \in SequenceIds : evictSequence(s)
    \/ \E s, t \in SequenceIds, n \in 1..bufferSize : sharePromptCells(s, t, n)
    \/ reset

Spec == Init /\ [][Next]_vars

-----------------------------------------------------------------------------
\* The types of the variables.
TypeOK ==
    /\ position \in [Cells -> -1..bufferSize * bufferSize]
    /\ sequenceIds \in [Cells -> SUBSET SequenceIds]
    /\ head \in Cells /\ usedCells \in Nat /\ mixed \in BOOLEAN

hasPromptCache(s, promptLength) ==
    Cardinality({i \in CellsOf(s) : position[i] \in 0..promptLength - 1}) >= promptLength

Represented(s, n) == \A p \in 0..n - 1 : \E i \in CellsOf(s) : position[i] = p

\* A sequence holds each of its positions once, whatever was shared, evicted or
\* put around the end of the ring, so that hasPromptCache may count them; unless
\* a prompt was shared with a sequence that had cells of its own.
PromptIsComplete ==
    ~mixed => \A s \in SequenceIds, n \in 1..bufferSize : hasPromptCache(s, n) => Represented(s, n)

\* The count is the number of cells the sequences hold, a cell for each, with the same
\* exception, and a cell is empty exactly when nobody holds it and it can be used again.
CountAddsUp ==
    /\ ~mixed => usedCells = Cardinality({h \in SequenceIds \X Cells : h[1] \in sequenceIds[h[2]]})
    /\ \A i \in Cells : position[i] = -1 <=> sequenceIds[i] = {}

\* Counting stands for having: the two counts of the ring mean what they say.
CountsAreRight == CountAddsUp /\ PromptIsComplete
=============================================================================
