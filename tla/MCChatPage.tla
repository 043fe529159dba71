------------------------------ MODULE MCChatPage ------------------------------
EXTENDS PageInstance, TLC

MCSpec == Page!Spec

Symmetry == Permutations(Sends) \cup Permutations(Loads)
=============================================================================
