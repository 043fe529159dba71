------------------------------ MODULE TokenStream ------------------------------
(***************************************************************************)
(* What a generator promises its consumer: tokens one at a time, none      *)
(* after a stop token, never more than asked for, and a reason at the end  *)
(* that says why there are no more.                                        *)
(***************************************************************************)
EXTENDS Naturals, Sequences

CONSTANTS Vocabulary, Stops, Limit

VARIABLES text,   \* tokens handed out
          ending  \* why there are no more, "" until then

streamVars == <<text, ending>>

StreamInit == text = <<>> /\ ending = ""

Stopped == text # <<>> /\ text[Len(text)] \in Stops
Full    == Len(text) >= Limit

Emit == /\ ending = "" /\ ~Stopped /\ ~Full
        /\ \E t \in Vocabulary : text' = Append(text, t)
        /\ UNCHANGED ending

Finish == /\ ending = ""
          /\ ending' \in (IF Stopped THEN {"stop-token"}
                          ELSE IF Full THEN {"max-tokens", "aborted"} ELSE {"aborted"})
          /\ UNCHANGED text

Spec == StreamInit /\ [][Emit \/ Finish]_streamVars
=============================================================================
