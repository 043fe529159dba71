-------------------------- MODULE ConversationPoolLru --------------------------
(***************************************************************************)
(* The pool implements LruSet: its access ordinals say no more and no less *)
(* than the order of last use, and its locks are the members in use.       *)
(***************************************************************************)
EXTENDS ConversationPool

Older(es)    == {p \in Live(es) \X Live(es) : es[p[1]].accessSeq < es[p[2]].accessSeq}
Locked(es)   == {i \in Live(es) : es[i].locked}
Snapshots(es) == [i \in Live(es) |-> es[i].snapshot]

Lru == INSTANCE LruSet WITH
    Members  <- Ids,
    Capacity <- MaxConversations,
    Nothing  <- NoId,
    older    <- Older(entries),
    busy     <- Locked(entries),
    content  <- Snapshots(entries)

\* What callers can observe of membership, order, locks and snapshots is a
\* behaviour of LruSet: the idle member used longest ago is the one that gives
\* way, and a claim, a release or a removal changes nothing else.
ImplementsLru == Lru!Spec
=============================================================================
