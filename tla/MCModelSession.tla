---------------------------- MODULE MCModelSession ----------------------------
(* A list, one that continues it, and one as long that does not. *)
EXTENDS ModelSession, TLC

CONSTANTS m1, m2, m3, c1, c2

MCCalls == {c1, c2}
MCMessages == {m1, m2, m3}
MCChats == {<<m1>>, <<m1, m2>>, <<m3, m2>>}

Symmetric == Permutations(MCCalls)
=============================================================================
