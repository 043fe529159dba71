----------------------------- MODULE MCCharacter -----------------------------
(* Three chats; they differ in nothing but their names.                    *)
EXTENDS Character, TLC

Symmetry == Permutations(Chats)
=============================================================================
