-------------------------------- MODULE LruSet --------------------------------
(***************************************************************************)
(* What the conversation pool promises, without ordinals: a bounded set of *)
(* members in the order of their last use, each idle or busy and each with *)
(* a content.  A member is used, claimed and left; the idle member used    *)
(* longest ago gives way when a new one is admitted to a full set; owners  *)
(* may remove members at any time.                                         *)
(***************************************************************************)
EXTENDS Naturals, FiniteSets

CONSTANTS Members, Capacity, Nothing

VARIABLES
    older,   \* the order of last use: <<x, y>> when y was used after x
    busy,    \* members in use
    content  \* per member present: the member that filled it, or Nothing

lruVars == <<older, busy, content>>

Present == DOMAIN content

Among(order, kept) == {p \in order : p[1] \in kept /\ p[2] \in kept}

\* x is used after all the others.
Last(order, others, x) == Among(order, others) \cup {<<y, x>> : y \in others}
Moved(order, x)        == Last(order, Present \ {x}, x)

OldestIdle(order, x) ==
    x \in Present \ busy /\ \A y \in Present \ (busy \cup {x}) : <<x, y>> \in order

\* The members that may have to go for there to be room for one more.
Displaced(order) ==
    IF Cardinality(Present) < Capacity THEN {{}}
                                       ELSE {{x} : x \in {y \in Present : OldestIdle(order, y)}}

LruInit == older = {} /\ busy = {} /\ content = [x \in {} |-> Nothing]

Use(x) == /\ x \in Present
          /\ older' = Moved(older, x)
          /\ UNCHANGED <<busy, content>>

Claim(x) == /\ x \in Present \ busy
            /\ older' = Moved(older, x)
            /\ busy' = busy \cup {x}
            /\ UNCHANGED content

\* A member is left as it was or, as its last use, filled anew.
Leave(x) == /\ x \in busy
            /\ busy' = busy \ {x}
            /\ \/ UNCHANGED <<older, content>>
               \/ /\ older' = Moved(older, x)
                  /\ content' = [content EXCEPT ![x] = x]

\* x joins the members, whose order is given, once there is room for it.
Joins(x, order, filledBy) ==
    /\ x \in Members \ Present
    /\ \E gone \in Displaced(order) :
           /\ older' = Last(order, Present \ gone, x)
           /\ content' = [y \in (Present \ gone) \cup {x} |->
                              IF y = x THEN filledBy ELSE content[y]]
    /\ UNCHANGED busy

Admit(x) == \E filledBy \in {Nothing, x} : Joins(x, older, filledBy)

\* Copying a member uses it first.
AdmitCopy(src, x) == /\ src \in Present /\ content[src] # Nothing
                     /\ Joins(x, Moved(older, src), content[src])

Remove(gone) == /\ older' = Among(older, Present \ gone)
                /\ busy' = busy \ gone
                /\ content' = [y \in Present \ gone |-> content[y]]

LruNext ==
    \/ \E x \in Members : Use(x) \/ Claim(x) \/ Leave(x) \/ Admit(x)
    \/ \E x, y \in Members : AdmitCopy(x, y)
    \/ \E gone \in SUBSET Present : Remove(gone)

Spec == LruInit /\ [][LruNext]_lruVars
=============================================================================
