----------------------------- MODULE TokenMerges -----------------------------
(***************************************************************************)
(* Tokenizer.encodeBpe and encodeSpm: the symbols of a word are a linked   *)
(* list in parallel arrays, the pairs that may merge wait in a binary heap *)
(* that orders them by rank alone, and an entry may be stale when it is    *)
(* popped.  A step of the loop is a step here.                             *)
(*                                                                         *)
(* A vocabulary is its merges, best first: pairs of texts for BPE (the     *)
(* ranks of the merge table), texts for SPM (distinct scores).  A position *)
(* is counted from 1, and 0 is the code's -1.                              *)
(***************************************************************************)
EXTENDS Naturals, Sequences, SequencesExt, FiniteSetsExt

CONSTANTS
    Chars,       \* the characters of words
    Kinds,       \* subset of {"bpe", "spm"}
    MaxWord,     \* bound: characters of a word
    MaxSize      \* bound: characters of a word and merges of a vocabulary together

VARIABLES
    kind, word, merges,           \* the call, and the tokenizer it is made on
    symText, symPrev, symNext, symMerged,
    heap

call    == <<kind, word, merges>>
symbols == <<symText, symPrev, symNext, symMerged>>
vars    == <<call, symbols, heap>>

-----------------------------------------------------------------------------
(* The heaps (MinHeap, and MaxHeap with the scores negated).               *)

Swapped(h, i, j) == [h EXCEPT ![i] = h[j], ![j] = h[i]]

RECURSIVE bubbleUp(_, _)
bubbleUp(h, i) ==
    IF i = 1 \/ h[i \div 2].rank <= h[i].rank THEN h
    ELSE bubbleUp(Swapped(h, i, i \div 2), i \div 2)

\* The left child is looked at first, and a child must be smaller to go up.
Smallest(h, i) ==
    LET left  == 2 * i
        right == 2 * i + 1
        s == IF left <= Len(h) /\ h[left].rank < h[i].rank THEN left ELSE i
    IN  IF right <= Len(h) /\ h[right].rank < h[s].rank THEN right ELSE s

RECURSIVE sinkDown(_, _)
sinkDown(h, i) ==
    IF Smallest(h, i) = i THEN h
    ELSE sinkDown(Swapped(h, i, Smallest(h, i)), Smallest(h, i))

push(h, item) == bubbleUp(Append(h, item), Len(h) + 1)

\* What pop leaves: the last entry takes the place of the first.
Popped(h) == IF Len(h) = 1 THEN <<>> ELSE sinkDown([Front(h) EXCEPT ![1] = Last(h)], 1)

-----------------------------------------------------------------------------
(* Vocabularies and words.                                                 *)

Key(k, left, right) == IF k = "bpe" THEN <<left, right>> ELSE left \o right

\* 0 for a pair that does not merge.
RankIn(k, ranks, left, right) == SelectInSeq(ranks, LAMBDA m : m = Key(k, left, right))
Rank(left, right) == RankIn(kind, merges, left, right)

Words == UNION {[1..n -> Chars] : n \in 1..MaxWord}

\* The pairs a word may come to: those of adjacent stretches of it.
Pairs(k, w) == {Key(k, SubSeq(w, i, j), SubSeq(w, j + 1, l)) :
                   <<i, j, l>> \in {t \in (1..Len(w)) \X (1..Len(w)) \X (1..Len(w)) :
                                      t[1] <= t[2] /\ t[2] < t[3]}}

\* A merge table is learned by merging: the parts of a pair are characters or
\* results of merges that rank before it.
Learned(ranks) ==
    \A i \in DOMAIN ranks : \A part \in {ranks[i][1], ranks[i][2]} :
        Len(part) = 1 \/ \E j \in 1..i - 1 : ranks[j][1] \o ranks[j][2] = part

Vocabularies(k, w) ==
    {ranks \in UNION {[1..n -> Pairs(k, w)] : n \in 0..MaxSize - Len(w)} :
        IsInjective(ranks) /\ (k = "bpe" => Learned(ranks))}

\* Pushes the pair of two symbols, if both are there and they merge.
Offer(k, ranks, text, h, left, right) ==
    IF left = 0 \/ right = 0 \/ RankIn(k, ranks, text[left], text[right]) = 0 THEN h
    ELSE push(h, [rank  |-> RankIn(k, ranks, text[left], text[right]),
                  left  |-> left, right |-> right])

Seeded(k, ranks, text) ==
    FoldLeft(LAMBDA h, i : Offer(k, ranks, text, h, i, i + 1),
             <<>>, [i \in 1..Len(text) - 1 |-> i])

Init ==
    /\ kind \in Kinds /\ word \in Words
    /\ merges \in Vocabularies(kind, word)
    /\ symText = [i \in DOMAIN word |-> <<word[i]>>]
    /\ symPrev = [i \in DOMAIN word |-> i - 1]
    /\ symNext = [i \in DOMAIN word |-> IF i < Len(word) THEN i + 1 ELSE 0]
    /\ symMerged = {}
    /\ heap = Seeded(kind, merges, symText)

-----------------------------------------------------------------------------
(* The loop.                                                               *)

\* Mutant: encodeBpe as encodeSpm.
RankHoldsLoosely(item) == Rank(symText[item.left], symText[item.right]) # 0

\* Only encodeBpe asks whether the rank is still that of the two texts.
RankHolds(item) ==
    LET rank == Rank(symText[item.left], symText[item.right])
    IN  IF kind = "bpe" THEN rank = item.rank ELSE rank # 0

Current(item) ==
    /\ {item.left, item.right} \cap symMerged = {}
    /\ symNext[item.left] = item.right
    /\ RankHolds(item)

\* Mutant: the new pair with the symbol before is not pushed.
OffersRightOnly(text, prev, next, left) ==
    Offer(kind, merges, text, Popped(heap), left, next[left])

\* The pairs that a merged symbol forms with its neighbours.
Offers(text, prev, next, left) ==
    Offer(kind, merges, text, Offer(kind, merges, text, Popped(heap), prev[left], left),
          left, next[left])

\* Mutant: the symbol behind keeps its link to the one that was merged.
LinkedAroundForward(next, right) == symPrev

LinkedAround(next, right) ==
    IF next[right] = 0 THEN symPrev ELSE [symPrev EXCEPT ![next[right]] = symPrev[right]]

Skip ==
    /\ heap # <<>> /\ ~Current(Head(heap))
    /\ heap' = Popped(heap)
    /\ UNCHANGED <<call, symbols>>

Merge ==
    /\ heap # <<>> /\ Current(Head(heap))
    /\ LET left  == Head(heap).left
           right == Head(heap).right
       IN  /\ symText' = [symText EXCEPT ![left] = @ \o symText[right]]
           /\ symMerged' = symMerged \cup {right}
           /\ symNext' = [symNext EXCEPT ![left] = symNext[right]]
           /\ symPrev' = LinkedAround(symNext, right)
           /\ heap' = Offers(symText', symPrev', symNext', left)
    /\ UNCHANGED call

Next == Skip \/ Merge
Spec == Init /\ [][Next]_vars

-----------------------------------------------------------------------------
\* The types of the variables; an entry of the heap names two symbols in order.
TypeOK ==
    /\ kind \in Kinds /\ word \in Words /\ Len(merges) <= MaxSize
    /\ symText \in [DOMAIN word -> Seq(Chars) \ {<<>>}]
    /\ {symPrev, symNext} \subseteq [DOMAIN word -> 0..Len(word)]
    /\ symMerged \subseteq DOMAIN word
    /\ \A i \in DOMAIN heap : /\ heap[i].rank \in DOMAIN merges
                             /\ heap[i].left \in 1..heap[i].right - 1
                             /\ heap[i].right \in DOMAIN word

\* What the loop that collects the ids walks along.
RECURSIVE From(_)
From(i) == IF i = 0 THEN <<>> ELSE <<symText[i]>> \o From(symNext[i])
Result == From(1)

\* The symbols that are left, in both directions, spell the word.
SymbolsSpellWord ==
    /\ FlattenSeq(Result) = word
    /\ \A i \in DOMAIN word \ symMerged : symNext[i] # 0 => symPrev[symNext[i]] = i

\* When the heap is empty no two neighbours can be merged any more.
NothingLeft ==
    heap = <<>> => \A i \in 1..Len(Result) - 1 : Rank(Result[i], Result[i + 1]) = 0

\* What a merge table means: the leftmost of the best pairs, again and again.
RECURSIVE Canonical(_)
Canonical(texts) ==
    LET ranks == {Rank(texts[i], texts[i + 1]) : i \in 1..Len(texts) - 1} \ {0}
        best  == CHOOSE i \in 1..Len(texts) - 1 : Rank(texts[i], texts[i + 1]) = Min(ranks)
    IN  IF ranks = {} THEN texts
        ELSE Canonical(ReplaceFirstSubSeq(<<texts[best] \o texts[best + 1]>>,
                                          <<texts[best], texts[best + 1]>>, texts))

CanonicalResult == Canonical([i \in DOMAIN word |-> <<word[i]>>])

\* encodeBpe ends with what the merge table means, although its heap gives entries
\* of one rank in no order of their own, if no pair has two like parts.
BpeIsTable ==
    kind = "bpe" /\ heap = <<>> /\ (\A i \in DOMAIN merges : merges[i][1] # merges[i][2])
        => Result = CanonicalResult

\* All of it together: the encoding is the word, merged to the end, as its table says.
EncodingIsRight == SymbolsSpellWord /\ NothingLeft /\ BpeIsTable
=============================================================================
