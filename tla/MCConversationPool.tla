-------------------------- MODULE MCConversationPool --------------------------
(***************************************************************************)
(* A pool of two with two models and two callers: small enough for every   *)
(* operation to meet a full pool, a pool full of locked entries and a      *)
(* model that is being unloaded.                                           *)
(***************************************************************************)
EXTENDS ConversationPoolLru, TLC

PoolSymmetry == Permutations(Calls) \cup Permutations(Models)
=============================================================================
