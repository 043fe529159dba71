----------------------------- MODULE MCEngineParts -----------------------------
(***************************************************************************)
(* Parts of the engine that share no state: the loads that bring models up *)
(* and give them up, the merges that make tokens from a word, the          *)
(* generation of one text, the ring of cells that holds tokens.  A         *)
(* behaviour is one of the part that it has chosen; the others stay as     *)
(* they begin.                                                             *)
(***************************************************************************)
EXTENDS Generation, EngineParts

CONSTANTS m1, m2, m3, Chars

VARIABLES part, kind, word, merges, symText, symPrev, symNext, symMerged, heap

mergeVars == <<kind, word, merges, symText, symPrev, symNext, symMerged, heap>>
mcVars    == <<part, vars, loadVars, mergeVars, ringVars>>

-----------------------------------------------------------------------------
\* Two large models, of different priorities, and a small one that is adopted, with its
\* size or without: any two fit, the large ones put the pool under pressure, all three
\* do not fit.
MCModels   == {m1, m2, m3}
MCAdopted  == {m3}
MCBytes    == [m \in MCModels |-> IF m = m3 THEN 1 ELSE 2]
MCPriority == [m \in MCModels |-> IF m = m1 THEN 1 ELSE 0]

Merges == INSTANCE TokenMerges WITH Kinds <- {"bpe", "spm"}, MaxWord <- 6, MaxSize <- 8

-----------------------------------------------------------------------------
\* The merges of a word of one character, when there is nothing to merge.
NoMerges ==
    /\ kind = "bpe" /\ word = <<CHOOSE c \in Chars : TRUE>> /\ merges = <<>>
    /\ symText = <<word>> /\ symPrev = <<0>> /\ symNext = <<0>> /\ symMerged = {} /\ heap = <<>>

\* A generation that is never begun.
NoGeneration == config = (CHOOSE c \in Configs : TRUE) /\ aborted = FALSE /\ Init

MCInit ==
    /\ part \in {"loads", "merges", "generation", "ring"}
    /\ Loading!Init
    /\ Ring!Init
    /\ \/ part = "generation" /\ NoMerges /\ Init
       \/ part = "merges" /\ Merges!Init /\ NoGeneration
       \/ part \in {"loads", "ring"} /\ NoMerges /\ NoGeneration

MCNext ==
    \/ part = "loads"      /\ Loading!Next /\ UNCHANGED <<part, vars, mergeVars, ringVars>>
    \/ part = "merges"     /\ Merges!Next  /\ UNCHANGED <<part, vars, loadVars, ringVars>>
    \/ part = "generation" /\ Next         /\ UNCHANGED <<part, loadVars, mergeVars, ringVars>>
    \/ part = "ring"       /\ Ring!Next    /\ UNCHANGED <<part, vars, loadVars, mergeVars>>

MCSpec == MCInit /\ [][MCNext]_mcVars

-----------------------------------------------------------------------------
\* Words are merged to the end and as their table says (TokenMerges).
EncodingIsRight == Merges!EncodingIsRight
=============================================================================
