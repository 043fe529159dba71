-------------------------- MODULE GraphContextsProofs --------------------------
(***************************************************************************)
(* Theorems about GraphContexts, for any number of calls.  What is counted *)
(* on the stack is counted step by step: a push goes with a call that      *)
(* begins to hold a context, a pop with one that ceases to.  That a call   *)
(* nobody overlaps has the top of the stack, and that every buffer has an  *)
(* owner, rest on what a call that has not begun cannot have left behind.  *)
(*                                                                         *)
(* And about JsepQueue, the other backend of the graphs, for any number of *)
(* buffers and any length of its batch: it implements SequentialMemory.    *)
(***************************************************************************)
EXTENDS GraphContexts, JsepInstance, FiniteSetTheorems, FunctionTheorems, SequenceTheorems,
        WellFoundedInduction, TLAPS

USE ContextAssumption

CallMap == [Calls -> Call]

(***************************************************************************)
(* The operators on calls                                                  *)
(***************************************************************************)

\* A call begins: what changes is its kind, and who is alone.
LEMMA JoinedType ==
    ASSUME call \in CallMap, NEW c \in Calls, NEW k \in Kinds
    PROVE  Joined(c, k) \in CallMap
BY DEF CallMap, Call, Joined, Active

LEMMA JoinedFields ==
    ASSUME call \in CallMap, NEW c \in Calls, NEW k \in Kinds, NEW j, j = Joined(c, k)
    PROVE  /\ \A d \in Calls : j[d].phase = call[d].phase
           /\ \A d \in Calls : j[d].buf = call[d].buf
           /\ \A d \in Calls : j[d].left = call[d].left
           /\ \A d \in Calls : j[d].kind = IF d = c THEN k ELSE call[d].kind
           /\ \A d \in Calls : j[d].alone =>
                  IF d = c THEN \A e \in Calls : ~Active(e) ELSE ~Active(d)
BY DEF CallMap, Call, Joined, Active

\* A call ends.
LEMMA EndedType ==
    ASSUME NEW calls \in CallMap, NEW c \in Calls, NEW l \in BOOLEAN
    PROVE  Ended(calls, c, l) \in CallMap
BY DEF CallMap, Call, Ended

LEMMA EndedFields ==
    ASSUME NEW calls \in CallMap, NEW c \in Calls, NEW l \in BOOLEAN,
           NEW e, e = Ended(calls, c, l)
    PROVE  /\ \A d \in Calls : e[d].phase = IF d = c THEN "done" ELSE calls[d].phase
           /\ \A d \in Calls : e[d].buf = calls[d].buf
           /\ \A d \in Calls : e[d].kind = calls[d].kind
           /\ \A d \in Calls : e[d].left = IF d = c THEN l ELSE calls[d].left
           /\ \A d \in Calls : e[d].alone => calls[d].alone
BY DEF CallMap, Call, Ended

(***************************************************************************)
(* The stack                                                               *)
(***************************************************************************)

LEMMA CreateStack ==
    ASSUME NEW s \in Seq(Owners), NEW o \in Owners
    PROVE  /\ CtxCreate(s, o) \in Seq(Owners)
           /\ Len(CtxCreate(s, o)) = Len(s) + 1
           /\ \A i \in 1..Len(s) : CtxCreate(s, o)[i] = s[i]
           /\ CurrentCtx(CtxCreate(s, o)) = o
BY DEF CtxCreate, CurrentCtx

LEMMA FreeStack ==
    ASSUME NEW s \in Seq(Owners)
    PROVE  /\ CtxFree(s) \in Seq(Owners)
           /\ s # <<>> => Len(CtxFree(s)) = Len(s) - 1
           /\ \A i \in 1..(Len(s) - 1) : CtxFree(s)[i] = s[i]
           /\ Len(CtxFree(s)) <= Len(s)
           /\ s = <<>> => CtxFree(s) = <<>>
<1>1. CASE s = <<>>
  BY <1>1 DEF CtxFree
<1>2. CASE s # <<>>
  <2>1. CtxFree(s) = SubSeq(s, 1, Len(s) - 1) /\ Len(s) \in Nat /\ Len(s) > 0
    BY <1>2 DEF CtxFree
  <2>2. Len(s) - 1 \in Nat
    BY <2>1
  <2>3. /\ SubSeq(s, 1, Len(s) - 1) \in Seq(Owners)
        /\ Len(SubSeq(s, 1, Len(s) - 1)) = Len(s) - 1
        /\ \A i \in 1..(Len(s) - 1) : SubSeq(s, 1, Len(s) - 1)[i] = s[i]
    <3> DEFINE n == Len(s) - 1
    <3>1. n \in Nat /\ \A i \in 1..n : s[i] \in Owners
      BY <2>1
    <3> HIDE DEF n
    <3>2. /\ SubSeq(s, 1, n) \in Seq(Owners)
          /\ Len(SubSeq(s, 1, n)) = IF 1 <= n THEN n - 1 + 1 ELSE 0
          /\ \A i \in 1..(n - 1 + 1) : SubSeq(s, 1, n)[i] = s[1 + i - 1]
      BY <3>1, SubSeqProperties
    <3>3. Len(SubSeq(s, 1, n)) = n /\ \A i \in 1..n : SubSeq(s, 1, n)[i] = s[i]
      BY <3>1, <3>2
    <3>4. QED
      BY <3>2, <3>3 DEF n
  <2>4. QED
    BY <1>2, <2>1, <2>3
<1>3. QED
  BY <1>1, <1>2

\* What a call allocates is the memory of a call's context.
LEMMA AllocatedCall ==
    ASSUME NEW s \in Seq(Owners), s # <<>>
    PROVE  /\ Allocated(s) \in Calls \cup {None}
           /\ Allocated(s) # None => Allocated(s) = s[Len(s)]
BY DEF Allocated, Assigned, CurrentCtx, Owners

(***************************************************************************)
(* What a step changes, call by call                                       *)
(***************************************************************************)

PhaseIs(c, ph) == \A d \in Calls : call'[d].phase = IF d = c THEN ph ELSE call[d].phase
BufIs(c, b) == \A d \in Calls : call'[d].buf = IF d = c THEN b ELSE call[d].buf
LeftIs(c, l) == \A d \in Calls : call'[d].left = IF d = c THEN l ELSE call[d].left
KindKept == \A d \in Calls : call'[d].kind = call[d].kind
AloneLess == \A d \in Calls : call'[d].alone => call[d].alone

\* What all steps of a call that has begun have in common.
Moves(c, ph, b, l) == PhaseIs(c, ph) /\ BufIs(c, b) /\ LeftIs(c, l) /\ KindKept /\ AloneLess

\* The same for its first step.
Starts(c, k, ph, b, l) ==
    /\ PhaseIs(c, ph) /\ BufIs(c, b) /\ LeftIs(c, l)
    /\ \A d \in Calls : call'[d].kind = IF d = c THEN k ELSE call[d].kind
    /\ \A d \in Calls : call'[d].alone =>
            IF d = c THEN \A e \in Calls : ~Active(e) ELSE ~Active(d)

\* Every first step is one of two, for some kind.
LEMMA BeginKind ==
    ASSUME NEW c \in Calls, Begin(c)
    PROVE  /\ model.life = "ready"
           /\ call[c].phase = "idle"
           /\ \E k \in Kinds : BuildForwardGraph(c, k) \/ BuildAndSubmit(c, k)
BY DEF Begin, CanBegin, ForwardSingle, ForwardAllPositions, ForwardDecode,
       ForwardForEmbedding, ForwardWithLayerTaps, DebugLayerOutput, DebugReadEmbeddingRow,
       EncoderEmbed, CausalForwardEmbed, Kinds

LEMMA BuildFailsStarts ==
    ASSUME TypeOK, NEW c \in Calls, NEW k \in Kinds, BuildFails(c, k)
    PROVE  /\ call' \in CallMap
           /\ Starts(c, k, "done", call[c].buf, k \notin PopsFailedBuild)
<1> DEFINE l == k \notin PopsFailedBuild
<1> DEFINE j == Joined(c, k)
<1> DEFINE e == Ended(j, c, l)
<1>1. call \in CallMap /\ j \in CallMap
  BY JoinedType DEF TypeOK, CallMap
<1>2. call' = e /\ l \in BOOLEAN
  BY DEF BuildFails
<1>3. /\ \A d \in Calls : j[d].phase = call[d].phase
      /\ \A d \in Calls : j[d].buf = call[d].buf
      /\ \A d \in Calls : j[d].left = call[d].left
      /\ \A d \in Calls : j[d].kind = IF d = c THEN k ELSE call[d].kind
      /\ \A d \in Calls : j[d].alone =>
             IF d = c THEN \A x \in Calls : ~Active(x) ELSE ~Active(d)
  BY <1>1, JoinedFields
<1> HIDE DEF l, j
<1>4. /\ \A d \in Calls : e[d].phase = IF d = c THEN "done" ELSE j[d].phase
      /\ \A d \in Calls : e[d].buf = j[d].buf
      /\ \A d \in Calls : e[d].kind = j[d].kind
      /\ \A d \in Calls : e[d].left = IF d = c THEN l ELSE j[d].left
      /\ \A d \in Calls : e[d].alone => j[d].alone
  BY <1>1, <1>2, EndedFields
<1>5. call' \in CallMap
  BY <1>1, <1>2, EndedType
<1> HIDE DEF e
<1>6. PhaseIs(c, "done")
  BY <1>2, <1>3, <1>4 DEF PhaseIs
<1>7. BufIs(c, call[c].buf)
  BY <1>2, <1>3, <1>4 DEF BufIs
<1>8. LeftIs(c, l)
  BY <1>2, <1>3, <1>4 DEF LeftIs
<1>9. \A d \in Calls : call'[d].kind = IF d = c THEN k ELSE call[d].kind
  BY <1>2, <1>3, <1>4
<1>10. \A d \in Calls : call'[d].alone =>
            IF d = c THEN \A x \in Calls : ~Active(x) ELSE ~Active(d)
  BY <1>2, <1>3, <1>4
<1>11. QED
  BY <1>5, <1>6, <1>7, <1>8, <1>9, <1>10 DEF Starts, l

LEMMA BuildStarts ==
    ASSUME TypeOK, NEW c \in Calls, NEW k \in Kinds, NEW ph, NEW b \in Calls \cup {None},
           ph \in {"built", "computing"},
           call' = [Joined(c, k) EXCEPT ![c] = [@ EXCEPT !.phase = ph, !.buf = b]]
    PROVE  call' \in CallMap /\ Starts(c, k, ph, b, call[c].left)
<1> DEFINE j == Joined(c, k)
<1>1. call \in CallMap /\ j \in CallMap
  BY JoinedType DEF TypeOK, CallMap
<1>2. /\ \A d \in Calls : j[d].phase = call[d].phase
      /\ \A d \in Calls : j[d].buf = call[d].buf
      /\ \A d \in Calls : j[d].left = call[d].left
      /\ \A d \in Calls : j[d].kind = IF d = c THEN k ELSE call[d].kind
      /\ \A d \in Calls : j[d].alone =>
             IF d = c THEN \A x \in Calls : ~Active(x) ELSE ~Active(d)
  BY <1>1, JoinedFields
<1>3. call' = [j EXCEPT ![c] = [j[c] EXCEPT !.phase = ph, !.buf = b]]
  OBVIOUS
<1> HIDE DEF j
<1> DEFINE r == [j[c] EXCEPT !.phase = ph, !.buf = b]
<1>4. j[c] \in Call
  BY <1>1 DEF CallMap
<1>5. /\ r \in Call /\ r.phase = ph /\ r.buf = b /\ r.left = j[c].left
      /\ r.kind = j[c].kind /\ r.alone = j[c].alone
  BY <1>4 DEF Call, Owners
<1>6. \A d \in Calls : call'[d] = IF d = c THEN r ELSE j[d]
  BY <1>1, <1>3 DEF CallMap
<1>7. call' \in CallMap
  BY <1>1, <1>3, <1>5 DEF CallMap
<1> HIDE DEF r
<1>14. r.left = call[c].left /\ r.kind = k
  BY <1>2, <1>5
<1>8. PhaseIs(c, ph)
  BY <1>2, <1>5, <1>6 DEF PhaseIs
<1>9. BufIs(c, b)
  BY <1>2, <1>5, <1>6 DEF BufIs
<1>10. LeftIs(c, call[c].left)
  <2>1. \A d \in Calls : j[d].left = call[d].left
    BY <1>2
  <2>2. QED
    BY <1>6, <1>14, <2>1 DEF LeftIs
<1>11. \A d \in Calls : call'[d].kind = IF d = c THEN k ELSE call[d].kind
  <2>1. \A d \in Calls : j[d].kind = IF d = c THEN k ELSE call[d].kind
    BY <1>2
  <2>2. QED
    BY <1>6, <1>14, <2>1
<1>12. \A d \in Calls : call'[d].alone =>
            IF d = c THEN \A x \in Calls : ~Active(x) ELSE ~Active(d)
  BY <1>2, <1>5, <1>6
<1>13. QED
  BY <1>7, <1>8, <1>9, <1>10, <1>11, <1>12 DEF Starts

\* A later step changes the record of its call.
LEMMA RecordMoves ==
    ASSUME TypeOK, NEW c \in Calls, NEW r \in Call, call' = [call EXCEPT ![c] = r],
           r.kind = call[c].kind, r.alone => call[c].alone
    PROVE  call' \in CallMap /\ Moves(c, r.phase, r.buf, r.left)
<1>1. call' \in CallMap
  BY DEF TypeOK, CallMap
<1>2. \A d \in Calls : call'[d] = IF d = c THEN r ELSE call[d]
  BY DEF TypeOK
<1>3. QED
  BY <1>1, <1>2 DEF Moves, PhaseIs, BufIs, LeftIs, KindKept, AloneLess

\* A call that ends, perhaps with another buffer.
LEMMA EndMoves ==
    ASSUME TypeOK, NEW c \in Calls, NEW l \in BOOLEAN, NEW b \in Calls \cup {None},
           \/ call' = Ended(call, c, l) /\ b = call[c].buf
           \/ call' = [Ended(call, c, l) EXCEPT ![c].buf = b]
    PROVE  call' \in CallMap /\ Moves(c, "done", b, l)
<1> DEFINE e == [call[c] EXCEPT !.phase = "done", !.told = FALSE, !.alone = FALSE, !.left = l]
<1> DEFINE r == [e EXCEPT !.buf = b]
<1>1. call[c] \in Call
  BY DEF TypeOK
<1>2. Ended(call, c, l) = [call EXCEPT ![c] = e] /\ e.buf = call[c].buf
  BY <1>1 DEF Ended, Call
<1>3. e \in Call
  BY <1>1 DEF Call
<1>4. /\ r \in Call /\ r.phase = "done" /\ r.buf = b /\ r.left = l
      /\ r.kind = call[c].kind /\ ~r.alone
  BY <1>1 DEF Call, Owners
<1>5. b = call[c].buf => r = e
  BY <1>1 DEF Call
<1> HIDE DEF e
<1>6. call' = [call EXCEPT ![c] = r]
  <2>1. CASE call' = Ended(call, c, l) /\ b = call[c].buf
    BY <2>1, <1>2, <1>5
  <2>2. CASE call' = [Ended(call, c, l) EXCEPT ![c].buf = b]
    <3> DEFINE m == [call EXCEPT ![c] = e]
    <3>1. m \in [Calls -> Call] /\ m[c] = e /\ call \in [Calls -> Call]
      BY <1>3 DEF TypeOK
    <3>2. call' = [m EXCEPT ![c] = [e EXCEPT !.buf = b]]
      BY <2>2, <1>2, <3>1
    <3>3. \A d \in Calls : call'[d] = IF d = c THEN r ELSE call[d]
      BY <3>1, <3>2
    <3>4. QED
      BY <3>1, <3>2, <3>3
  <2>3. QED
    BY <2>1, <2>2
<1> HIDE DEF r
<1>7. QED
  BY <1>4, <1>6, RecordMoves

LEMMA SubmitMoves ==
    ASSUME TypeOK, NEW c \in Calls, Submit(c)
    PROVE  call' \in CallMap /\ Moves(c, "computing", Allocated(stack), call[c].left)
<1> DEFINE b == Allocated(stack)
<1> DEFINE r == [call[c] EXCEPT !.phase = "computing", !.buf = b]
<1>1. b \in Calls \cup {None}
  BY AllocatedCall DEF TypeOK, Submit
<1>2. call' = [call EXCEPT ![c] = r]
  BY DEF Submit
<1> HIDE DEF b
<1>3. call[c] \in Call
  BY DEF TypeOK
<1>4. /\ r \in Call /\ r.phase = "computing" /\ r.buf = b /\ r.left = call[c].left
      /\ r.kind = call[c].kind /\ r.alone = call[c].alone
  BY <1>1, <1>3 DEF Call, Owners
<1> HIDE DEF r
<1>5. QED
  BY <1>2, <1>4, RecordMoves DEF b

LEMMA WaitMoves ==
    ASSUME TypeOK, NEW c \in Calls, GraphDone(c) \/ BeginDone(c) \/ Notified(c)
    PROVE  /\ call' \in CallMap
           /\ \E ph \in {"beginning", "waiting", "ready"} :
                  Moves(c, ph, call[c].buf, call[c].left)
<1>1. call[c] \in Call
  BY DEF TypeOK
<1>2. ASSUME NEW r \in Call, call' = [call EXCEPT ![c] = r],
             r.phase \in {"beginning", "waiting", "ready"},
             r.buf = call[c].buf, r.left = call[c].left, r.kind = call[c].kind,
             r.alone = call[c].alone
      PROVE  /\ call' \in CallMap
             /\ \E ph \in {"beginning", "waiting", "ready"} :
                    Moves(c, ph, call[c].buf, call[c].left)
  BY <1>2, RecordMoves
<1>3. CASE GraphDone(c)
  <2> DEFINE r == [call[c] EXCEPT !.phase = "beginning"]
  <2>1. call' = [call EXCEPT ![c] = r]
    BY <1>3 DEF GraphDone
  <2>2. r \in Call /\ r.phase = "beginning" /\ r.buf = call[c].buf /\ r.left = call[c].left
        /\ r.kind = call[c].kind /\ r.alone = call[c].alone
    BY <1>1 DEF Call
  <2> HIDE DEF r
  <2>3. QED
    BY <2>1, <2>2, <1>2
<1>4. CASE BeginDone(c)
  <2> DEFINE ph == IF call[c].told THEN "ready" ELSE "waiting"
  <2> DEFINE r == [call[c] EXCEPT !.phase = ph]
  <2>1. call' = [call EXCEPT ![c] = r]
    BY <1>4 DEF BeginDone
  <2>2. ph \in {"waiting", "ready"}
    OBVIOUS
  <2> HIDE DEF ph
  <2>3. r \in Call /\ r.phase = ph /\ r.buf = call[c].buf /\ r.left = call[c].left
        /\ r.kind = call[c].kind /\ r.alone = call[c].alone
    BY <1>1, <2>2 DEF Call
  <2> HIDE DEF r
  <2>4. QED
    BY <2>1, <2>2, <2>3, <1>2
<1>5. CASE Notified(c)
  <2>1. CASE call[c].phase = "beginning" /\ call' = [call EXCEPT ![c].told = TRUE]
    <3> DEFINE r == [call[c] EXCEPT !.told = TRUE]
    <3>1. call' = [call EXCEPT ![c] = r]
      BY <2>1
    <3>2. r \in Call /\ r.phase = "beginning" /\ r.buf = call[c].buf /\ r.left = call[c].left
          /\ r.kind = call[c].kind /\ r.alone = call[c].alone
      BY <1>1, <2>1 DEF Call
    <3> HIDE DEF r
    <3>3. QED
      BY <3>1, <3>2, <1>2
  <2>2. CASE call' = [call EXCEPT ![c].phase = "ready"]
    <3> DEFINE r == [call[c] EXCEPT !.phase = "ready"]
    <3>1. call' = [call EXCEPT ![c] = r]
      BY <2>2
    <3>2. r \in Call /\ r.phase = "ready" /\ r.buf = call[c].buf /\ r.left = call[c].left
          /\ r.kind = call[c].kind /\ r.alone = call[c].alone
      BY <1>1 DEF Call
    <3> HIDE DEF r
    <3>3. QED
      BY <3>1, <3>2, <1>2
  <2>3. QED
    BY <1>5, <2>1, <2>2 DEF Notified
<1>6. QED
  BY <1>3, <1>4, <1>5

(***************************************************************************)
(* Types, and the effect of the steps that end a call                      *)
(***************************************************************************)

\* A call's buffer is the memory of some call's context.
BufInv == \A c \in Calls : call[c].buf \in Calls \cup {None}

\* What becomes of the memory when c ends, its buffer then being b.
EndMemory(c, b) ==
    \/ model.life = "shut" /\ backed' = backed
    \/ /\ backed' \subseteq backed \cup {b}
       /\ backed' \subseteq Owners
       /\ backed \cap {Weights, Kv} \subseteq backed'
       /\ b = call[c].buf \/ call[c].phase = "built"
       /\ b \in backed' => call[c].kind \in {"forward", "diagnose"}

EndStep(c) == AllocFails(c) \/ UploadFails(c) \/ Finish(c) \/ Fail(c) \/ Cut(c)

EndEffect(c, b, l) ==
    /\ call' \in CallMap
    /\ Moves(c, "done", b, l)
    /\ stack' = IF l THEN stack ELSE CtxFree(stack)
    /\ b = call[c].buf \/ (stack # <<>> /\ b = Allocated(stack))
    /\ EndMemory(c, b)

\* A call in its first phase has no memory yet.
FreshInv ==
    /\ \A c \in Calls : call[c].phase = "idle" => ~call[c].left
    /\ \A c \in Calls : call[c].phase \in {"idle", "built"} => call[c].buf = None

LEMMA NoneApart == \A o \in Owners : o # None
BY DEF Owners

LEMMA EndHasEffect ==
    ASSUME TypeOK, BufInv, FreshInv, NEW c \in Calls, EndStep(c)
    PROVE  /\ Active(c) /\ model' = model
           /\ \E b \in Calls \cup {None}, l \in BOOLEAN : EndEffect(c, b, l)
<1>1. Active(c) /\ model' = model
  BY DEF EndStep, AllocFails, UploadFails, Finish, Fail, Cut, Active
<1>2. call[c].buf \in Calls \cup {None} /\ call[c].kind \in Kinds /\ backed \subseteq Owners
  BY DEF BufInv, TypeOK, Call
<1>3. CASE AllocFails(c)
  <2>1. call' = Ended(call, c, TRUE) /\ stack' = stack /\ backed' = backed
        /\ call[c].phase = "built"
    BY <1>3 DEF AllocFails
  <2>2. call' \in CallMap /\ Moves(c, "done", call[c].buf, TRUE)
    BY <2>1, <1>2, EndMoves
  <2>3. call[c].buf = None
    BY <2>1 DEF FreshInv
  <2>4. EndMemory(c, call[c].buf)
    BY <2>1, <2>3, <1>2, NoneApart DEF EndMemory
  <2>5. EndEffect(c, call[c].buf, TRUE)
    BY <2>1, <2>2, <2>4 DEF EndEffect
  <2>6. QED
    BY <1>1, <1>2, <2>5
<1>4. CASE UploadFails(c)
  <2> DEFINE b == Allocated(stack)
  <2> DEFINE l == call[c].kind \notin PopsOnFailure
  <2>1. b \in Calls \cup {None} /\ l \in BOOLEAN /\ stack # <<>> /\ b = Allocated(stack)
    BY <1>4, AllocatedCall DEF UploadFails, TypeOK
  <2>2. /\ call' = [Ended(call, c, l) EXCEPT ![c].buf = b]
        /\ stack' = IF l THEN stack ELSE CtxFree(stack)
        /\ backed' = (backed \cup {b}) \ (FreedByFailure(c, b) \cup {None})
        /\ call[c].phase = "built"
    BY <1>4 DEF UploadFails, Failed, StackAfterFailure
  <2> HIDE DEF b, l
  <2>3. call' \in CallMap /\ Moves(c, "done", b, l)
    BY <2>1, <2>2, EndMoves
  <2>4. EndMemory(c, b)
    BY <2>1, <2>2, <1>2 DEF EndMemory, FreedByFailure, FreesOnFailure, Kinds, Owners
  <2>5. EndEffect(c, b, l)
    BY <2>1, <2>2, <2>3, <2>4 DEF EndEffect
  <2>6. QED
    BY <1>1, <2>1, <2>5
<1>5. CASE Finish(c)
  <2>1. call' = Ended(call, c, FALSE) /\ stack' = CtxFree(stack)
        /\ backed' = backed \ {call[c].buf}
    BY <1>5 DEF Finish
  <2>2. call' \in CallMap /\ Moves(c, "done", call[c].buf, FALSE)
    BY <2>1, <1>2, EndMoves
  <2>3. EndMemory(c, call[c].buf)
    BY <2>1, <1>2 DEF EndMemory
  <2>4. EndEffect(c, call[c].buf, FALSE)
    BY <2>1, <2>2, <2>3 DEF EndEffect
  <2>5. QED
    BY <1>1, <1>2, <2>4
<1>6. CASE Fail(c)
  <2> DEFINE l == call[c].kind \notin PopsOnFailure
  <2>1. /\ call' = Ended(call, c, l)
        /\ stack' = IF l THEN stack ELSE CtxFree(stack)
        /\ backed' = backed \ FreedByFailure(c, call[c].buf)
        /\ l \in BOOLEAN
    BY <1>6 DEF Fail, Failed, StackAfterFailure
  <2> HIDE DEF l
  <2>2. call' \in CallMap /\ Moves(c, "done", call[c].buf, l)
    BY <2>1, <1>2, EndMoves
  <2>3. EndMemory(c, call[c].buf)
    BY <2>1, <1>2 DEF EndMemory, FreedByFailure, FreesOnFailure, Kinds, Owners
  <2>4. EndEffect(c, call[c].buf, l)
    BY <2>1, <2>2, <2>3 DEF EndEffect
  <2>5. QED
    BY <1>1, <1>2, <2>1, <2>4
<1>7. CASE Cut(c)
  <2>1. call' = Ended(call, c, TRUE) /\ stack' = stack /\ backed' = backed
        /\ model.life = "shut"
    BY <1>7 DEF Cut
  <2>2. call' \in CallMap /\ Moves(c, "done", call[c].buf, TRUE)
    BY <2>1, <1>2, EndMoves
  <2>3. EndMemory(c, call[c].buf)
    BY <2>1 DEF EndMemory
  <2>4. EndEffect(c, call[c].buf, TRUE)
    BY <2>1, <2>2, <2>3 DEF EndEffect
  <2>5. QED
    BY <1>1, <1>2, <2>4
<1>8. QED
  BY <1>1, <1>3, <1>4, <1>5, <1>6, <1>7 DEF EndStep

\* The four ways in which a call begins.
BeginEffect(c, k) ==
    /\ call' \in CallMap
    /\ \/ /\ Starts(c, k, "done", call[c].buf, FALSE)
          /\ stack' = stack /\ backed' = backed
       \/ /\ Starts(c, k, "done", call[c].buf, TRUE)
          /\ stack' = CtxCreate(stack, c) /\ backed' = backed
       \/ /\ Starts(c, k, "built", call[c].buf, call[c].left)
          /\ stack' = CtxCreate(stack, c) /\ backed' = backed
       \/ /\ Starts(c, k, "computing", c, call[c].left)
          /\ stack' = CtxCreate(stack, c) /\ backed' = backed \cup {c}

LEMMA BeginHasEffect ==
    ASSUME TypeOK, FreshInv, NEW c \in Calls, Begin(c)
    PROVE  /\ model.life = "ready" /\ call[c].phase = "idle" /\ model' = model
           /\ queue' = queue \/ queue' = Append(queue, c)
           /\ \E k \in Kinds : BeginEffect(c, k)
<1>1. PICK k \in Kinds : BuildForwardGraph(c, k) \/ BuildAndSubmit(c, k)
  BY BeginKind
<1>2. /\ model.life = "ready" /\ call[c].phase = "idle" /\ model' = model
      /\ queue' = queue \/ queue' = Append(queue, c)
  BY <1>1, BeginKind DEF BuildForwardGraph, BuildAndSubmit, BuildFails
<1>3. CASE BuildFails(c, k)
  <2> DEFINE l == k \notin PopsFailedBuild
  <2>1. call' \in CallMap /\ Starts(c, k, "done", call[c].buf, l) /\ l \in BOOLEAN
    BY <1>3, BuildFailsStarts
  <2>2. backed' = backed /\ stack' = IF l THEN CtxCreate(stack, c) ELSE stack
    BY <1>3 DEF BuildFails
  <2> HIDE DEF l
  <2>3. BeginEffect(c, k)
    BY <2>1, <2>2 DEF BeginEffect
  <2>4. QED
    BY <1>2, <2>3
<1>4. CASE /\ call' = [Joined(c, k) EXCEPT ![c].phase = "built"]
           /\ stack' = CtxCreate(stack, c) /\ backed' = backed
  <2> DEFINE j == Joined(c, k)
  <2> DEFINE b == call[c].buf
  <2>1. call \in CallMap /\ j \in CallMap /\ b = None
    BY <1>2, JoinedType DEF TypeOK, CallMap, FreshInv
  <2>2. j[c].buf = b /\ j[c] \in Call
    BY <2>1, JoinedFields DEF CallMap
  <2> HIDE DEF j, b
  <2>3. [j[c] EXCEPT !.phase = "built"] = [j[c] EXCEPT !.phase = "built", !.buf = b]
    BY <2>2 DEF Call
  <2>4. call' = [j EXCEPT ![c] = [j[c] EXCEPT !.phase = "built"]]
    BY <1>4 DEF j
  <2>5. call' = [Joined(c, k) EXCEPT ![c] = [@ EXCEPT !.phase = "built", !.buf = b]]
    BY <2>3, <2>4 DEF j
  <2>6. call' \in CallMap /\ Starts(c, k, "built", b, call[c].left)
    BY <2>1, <2>5, BuildStarts
  <2>7. QED
    BY <1>2, <1>4, <2>6 DEF BeginEffect, b
<1>5. CASE /\ call' = [Joined(c, k) EXCEPT ![c] = [@ EXCEPT !.phase = "computing", !.buf = c]]
           /\ stack' = CtxCreate(stack, c) /\ backed' = backed \cup {c}
  <2>1. call' \in CallMap /\ Starts(c, k, "computing", c, call[c].left)
    BY <1>5, BuildStarts
  <2>2. QED
    BY <1>2, <1>5, <2>1 DEF BeginEffect
<1>6. QED
  BY <1>1, <1>3, <1>4, <1>5 DEF BuildForwardGraph, BuildAndSubmit

(***************************************************************************)
(* Steps of the model, which leave the calls alone                         *)
(***************************************************************************)

ModelStep ==
    \/ LoadWeights \/ LoadEncoderWeights \/ LoadCausalWeights \/ InitKVCache
    \/ Dispose \/ DisposeEncoder \/ DisposeCausal

\* How the life of the model goes, and what a load puts on the stack.
LifeInv ==
    /\ model.life \in {"new", "weights"} => \A c \in Calls : call[c].phase = "idle"
    /\ model.life = "new" => stack = <<>>
    /\ model.life = "weights" => model.kind = "chat" /\ stack = <<Weights>> /\ Weights \in backed
    /\ model.life = "shut" => backed = {}

ModelEffect ==
    /\ call' = call /\ queue' = queue
    /\ model' \in [kind : ModelKinds,
                   life : {"new", "weights", "ready", "disposed", "shut"}]
    /\ stack' \in Seq(Owners)
    /\ backed' \subseteq backed \cup {Weights, Kv}
    /\ \/ model'.life = "disposed"
       \/ /\ model'.life = "weights" /\ model'.kind = "chat" /\ model.life = "new"
          /\ stack' = <<Weights>> /\ Weights \in backed'
       \/ /\ model'.life = "ready" /\ model'.kind # "chat" /\ model.life = "new"
          /\ stack' = <<Weights>> /\ Weights \in backed'
       \/ /\ model'.life = "ready" /\ model'.kind = "chat" /\ model.life = "weights"
          /\ stack' = <<Weights, Kv>> /\ {Weights, Kv} \subseteq backed'

LEMMA PushEffect ==
    ASSUME TypeOK, LifeInv, NEW kind \in ModelKinds, NEW life \in {"weights", "ready"},
           PushWeights(kind, life), life = "weights" <=> kind = "chat"
    PROVE  ModelEffect
<1>1. /\ call' = call /\ queue' = queue /\ model.life = "new"
      /\ model' = [kind |-> kind, life |-> life] /\ backed' = backed \cup {Weights}
  BY DEF PushWeights
<1>2. stack' = <<Weights>> /\ stack' \in Seq(Owners)
  BY <1>1 DEF PushWeights, LifeInv, CtxCreate, Owners
<1>3. QED
  BY <1>1, <1>2 DEF ModelEffect, TypeOK

LEMMA ReleaseEffect ==
    ASSUME TypeOK, NEW kind, NEW rest \in Seq(Owners), Release(kind, rest)
    PROVE  ModelEffect
<1>1. /\ call' = call /\ queue' = queue /\ stack' = rest
      /\ model' = [model EXCEPT !.life = "disposed"] /\ backed' \subseteq backed
  BY DEF Release
<1>2. /\ model' \in [kind : ModelKinds, life : {"new", "weights", "ready", "disposed", "shut"}]
      /\ model'.life = "disposed"
  BY <1>1 DEF TypeOK
<1>3. QED
  BY <1>1, <1>2 DEF ModelEffect

LEMMA ModelHasEffect == ASSUME TypeOK, LifeInv, ModelStep PROVE ModelEffect
<1>1. stack \in Seq(Owners)
  BY DEF TypeOK
<1>2. CtxFree(stack) \in Seq(Owners) /\ CtxFree(CtxFree(stack)) \in Seq(Owners)
  BY <1>1, FreeStack
<1>3. CASE LoadWeights
  BY <1>3, PushEffect DEF LoadWeights, ModelKinds
<1>4. CASE LoadEncoderWeights
  BY <1>4, PushEffect DEF LoadEncoderWeights, ModelKinds
<1>5. CASE LoadCausalWeights
  BY <1>5, PushEffect DEF LoadCausalWeights, ModelKinds
<1>6. CASE InitKVCache
  <2>1. /\ call' = call /\ queue' = queue /\ model.life = "weights"
        /\ model' = [model EXCEPT !.life = "ready"] /\ backed' = backed \cup {Kv}
    BY <1>6 DEF InitKVCache
  <2>2. stack = <<Weights>> /\ Weights \in backed /\ model.kind = "chat"
    BY <2>1 DEF LifeInv
  <2>3. stack' = <<Weights, Kv>> /\ stack' \in Seq(Owners)
    <3>1. stack' = Append(<<Weights>>, Kv)
      BY <1>6, <2>2 DEF InitKVCache, CtxCreate
    <3>2. <<Weights, Kv>> \in Seq(Owners)
      BY DEF Owners
    <3>3. Append(<<Weights>>, Kv) = <<Weights, Kv>>
      <4> DEFINE s == Append(<<Weights>>, Kv)
      <4> DEFINE u == <<Weights, Kv>>
      <4>1. <<Weights>> \in Seq(Owners) /\ Len(<<Weights>>) = 1 /\ <<Weights>>[1] = Weights
        BY DEF Owners
      <4>2. s \in Seq(Owners) /\ Len(s) = 2 /\ s[1] = Weights /\ s[2] = Kv
        BY <4>1, AppendProperties DEF Owners
      <4>3. u \in Seq(Owners) /\ Len(u) = 2 /\ u[1] = Weights /\ u[2] = Kv
        BY <3>2
      <4> HIDE DEF s, u
      <4>4. \A i \in 1..2 : s[i] = u[i]
        BY <4>2, <4>3
      <4>5. s = u
        BY <4>2, <4>3, <4>4, SeqEqual
      <4>6. QED
        BY <4>5 DEF s, u
    <3>4. QED
      BY <3>1, <3>2, <3>3
  <2>4. /\ model' \in [kind : ModelKinds, life : {"new", "weights", "ready", "disposed", "shut"}]
        /\ model'.life = "ready" /\ model'.kind = "chat"
    BY <2>1, <2>2 DEF TypeOK
  <2>5. QED
    BY <2>1, <2>2, <2>3, <2>4 DEF ModelEffect
<1>7. CASE Dispose
  BY <1>2, <1>7, ReleaseEffect DEF Dispose
<1>8. CASE DisposeEncoder
  BY <1>2, <1>8, ReleaseEffect DEF DisposeEncoder
<1>9. CASE DisposeCausal
  BY <1>2, <1>9, ReleaseEffect DEF DisposeCausal
<1>10. QED
  BY <1>3, <1>4, <1>5, <1>6, <1>7, <1>8, <1>9 DEF ModelStep

\* Shutdown rejects the calls that wait for a download; none of them ends by that.
LEMMA ShutdownEffect ==
    ASSUME TypeOK, Shutdown
    PROVE  /\ call' \in CallMap
           /\ stack' = <<>> /\ backed' = {} /\ queue' = queue
           /\ model' \in [kind : ModelKinds,
                          life : {"new", "weights", "ready", "disposed", "shut"}]
           /\ model'.life = "shut"
           /\ \A d \in Calls : call'[d].buf = call[d].buf
           /\ \A d \in Calls : call'[d].left = call[d].left
           /\ \A d \in Calls : call'[d].alone = call[d].alone
           /\ \A d \in Calls : call'[d].phase # call[d].phase =>
                  call[d].phase = "waiting" /\ call'[d].phase = "rejected"
<1>1. /\ stack' = <<>> /\ backed' = {} /\ queue' = queue
      /\ model' = [model EXCEPT !.life = "shut"] /\ call' = WaitersRejected
  BY DEF Shutdown
<1>2. /\ model' \in [kind : ModelKinds, life : {"new", "weights", "ready", "disposed", "shut"}]
      /\ model'.life = "shut"
  BY <1>1 DEF TypeOK
<1>3. \A d \in Calls : call[d] \in Call
  BY DEF TypeOK
<1>4. call' \in CallMap
  BY <1>1, <1>3 DEF WaitersRejected, CallMap, Call
<1>5. \A d \in Calls : call'[d].buf = call[d].buf
  BY <1>1, <1>3 DEF WaitersRejected, Call
<1>6. \A d \in Calls : call'[d].left = call[d].left
  BY <1>1, <1>3 DEF WaitersRejected, Call
<1>7. \A d \in Calls : call'[d].alone = call[d].alone
  BY <1>1, <1>3 DEF WaitersRejected, Call
<1>8. \A d \in Calls : call'[d].phase # call[d].phase =>
            call[d].phase = "waiting" /\ call'[d].phase = "rejected"
  BY <1>1, <1>3 DEF WaitersRejected, Call
<1>9. QED
  BY <1>1, <1>2, <1>4, <1>5, <1>6, <1>7, <1>8

(***************************************************************************)
(* Types                                                                   *)
(***************************************************************************)

LEMMA NextSteps ==
    ASSUME [Next]_vars
    PROVE  \/ ModelStep \/ Shutdown
           \/ \E c \in Calls : Begin(c) \/ Submit(c) \/ GraphDone(c) \/ BeginDone(c)
                              \/ Notified(c) \/ EndStep(c)
           \/ UNCHANGED vars
BY DEF Next, Progress, ModelStep, EndStep

TypeInv == TypeOK /\ BufInv /\ FreshInv /\ LifeInv

LEMMA QueueType ==
    ASSUME TypeOK, NEW c \in Calls
    PROVE  /\ Append(queue, c) \in Seq(Calls)
           /\ HasTurn(c) => Tail(queue) \in Seq(Calls)
BY DEF TypeOK, HasTurn

LEMMA TypeStep == ASSUME TypeInv, [Next]_vars PROVE TypeInv'
<1> USE DEF TypeInv
<1>1. CASE ModelStep
  <2>1. ModelEffect
    BY <1>1, ModelHasEffect
  <2>2. TypeOK'
    BY <2>1 DEF ModelEffect, TypeOK, Owners
  <2>3. BufInv' /\ FreshInv'
    BY <2>1 DEF ModelEffect, BufInv, FreshInv
  <2>4. LifeInv'
    BY <2>1 DEF ModelEffect, LifeInv
  <2>5. QED
    BY <2>2, <2>3, <2>4
<1>2. CASE Shutdown
  <2>1. TypeOK'
    <3>1. stack' \in Seq(Owners) /\ backed' \subseteq Owners
      BY <1>2, ShutdownEffect
    <3>2. queue' \in Seq(Calls) /\ call' \in CallMap
      BY <1>2, ShutdownEffect DEF TypeOK
    <3>3. model' \in [kind : ModelKinds,
                     life : {"new", "weights", "ready", "disposed", "shut"}]
      BY <1>2, ShutdownEffect
    <3>4. QED
      BY <3>1, <3>2, <3>3 DEF TypeOK, CallMap
  <2>2. BufInv'
    BY <1>2, ShutdownEffect DEF BufInv
  <2>3. FreshInv'
    BY <1>2, ShutdownEffect DEF FreshInv
  <2>4. LifeInv'
    BY <1>2, ShutdownEffect DEF LifeInv
  <2>5. QED
    BY <2>1, <2>2, <2>3, <2>4
<1>3. ASSUME NEW c \in Calls, Begin(c) PROVE TypeInv'
  <2>1. PICK k \in Kinds : BeginEffect(c, k)
    BY <1>3, BeginHasEffect
  <2>2. /\ model.life = "ready" /\ call[c].phase = "idle" /\ model' = model
        /\ queue' = queue \/ queue' = Append(queue, c)
    BY <1>3, BeginHasEffect
  <2>3. stack \in Seq(Owners) /\ CtxCreate(stack, c) \in Seq(Owners) /\ c \in Owners
    BY CreateStack DEF TypeOK, Owners
  <2>4. TypeOK'
    BY <2>1, <2>2, <2>3, QueueType DEF BeginEffect, TypeOK, CallMap
  <2>5. BufInv'
    BY <2>1 DEF BeginEffect, Starts, BufIs, BufInv
  <2>6. \A d \in Calls : call'[d].phase = "idle" => ~call'[d].left
    BY <2>1 DEF BeginEffect, Starts, PhaseIs, LeftIs, FreshInv
  <2>7. \A d \in Calls : call'[d].phase \in {"idle", "built"} => call'[d].buf = None
    BY <2>1, <2>2 DEF BeginEffect, Starts, PhaseIs, BufIs, FreshInv
  <2>8. LifeInv'
    BY <2>2 DEF LifeInv
  <2>9. QED
    BY <2>4, <2>5, <2>6, <2>7, <2>8 DEF FreshInv
<1>4. ASSUME NEW c \in Calls, Submit(c) PROVE TypeInv'
  <2>1. call' \in CallMap /\ Moves(c, "computing", Allocated(stack), call[c].left)
    BY <1>4, SubmitMoves
  <2>2. /\ model' = model /\ stack' = stack /\ queue' = Append(queue, c)
        /\ backed' = (backed \cup {Allocated(stack)}) \ {None}
        /\ stack # <<>> /\ model.life # "shut" /\ call[c].phase = "built"
    BY <1>4 DEF Submit
  <2>3. Allocated(stack) \in Calls \cup {None}
    BY <2>2, AllocatedCall DEF TypeOK
  <2>4. TypeOK'
    BY <2>1, <2>2, <2>3, QueueType DEF TypeOK, CallMap, Owners
  <2>5. BufInv'
    BY <2>1, <2>3 DEF Moves, BufIs, BufInv
  <2>6. FreshInv'
    BY <2>1, <2>2 DEF Moves, PhaseIs, BufIs, LeftIs, FreshInv
  <2>7. LifeInv'
    BY <2>1, <2>2 DEF LifeInv
  <2>8. QED
    BY <2>4, <2>5, <2>6, <2>7
<1>5. ASSUME NEW c \in Calls, GraphDone(c) \/ BeginDone(c) \/ Notified(c) PROVE TypeInv'
  <2>1. PICK ph \in {"beginning", "waiting", "ready"} : Moves(c, ph, call[c].buf, call[c].left)
    BY <1>5, WaitMoves
  <2>2. call' \in CallMap
    BY <1>5, WaitMoves
  <2>3. /\ model' = model /\ stack' = stack /\ backed' = backed /\ model.life # "shut"
        /\ queue' = queue \/ (HasTurn(c) /\ queue' = Tail(queue))
        /\ call[c].phase \in {"computing", "beginning", "waiting"}
    BY <1>5 DEF GraphDone, BeginDone, Notified
  <2>4. TypeOK'
    BY <2>2, <2>3, QueueType DEF TypeOK, CallMap
  <2>5. BufInv'
    BY <2>1 DEF Moves, BufIs, BufInv
  <2>6. FreshInv'
    BY <2>1, <2>3 DEF Moves, PhaseIs, BufIs, LeftIs, FreshInv
  <2>7. LifeInv'
    BY <2>1, <2>3 DEF LifeInv
  <2>8. QED
    BY <2>4, <2>5, <2>6, <2>7
<1>6. ASSUME NEW c \in Calls, EndStep(c) PROVE TypeInv'
  <2>1. PICK b \in Calls \cup {None}, l \in BOOLEAN : EndEffect(c, b, l)
    BY <1>6, EndHasEffect
  <2>2. Active(c) /\ model' = model
    BY <1>6, EndHasEffect
  <2>3. queue' = queue \/ (HasTurn(c) /\ queue' = Tail(queue))
    BY <1>6 DEF EndStep, AllocFails, UploadFails, Finish, Fail, Cut
  <2>4. stack \in Seq(Owners) /\ CtxFree(stack) \in Seq(Owners)
    BY FreeStack DEF TypeOK
  <2>5. TypeOK'
    <3>1. stack' \in Seq(Owners)
      BY <2>1, <2>4 DEF EndEffect
    <3>2. backed' \subseteq Owners
      BY <2>1 DEF EndEffect, EndMemory, TypeOK
    <3>3. queue' \in Seq(Calls)
      BY <2>3, QueueType DEF TypeOK
    <3>4. QED
      BY <2>1, <2>2, <3>1, <3>2, <3>3 DEF EndEffect, TypeOK, CallMap
  <2>6. BufInv'
    BY <2>1 DEF EndEffect, Moves, BufIs, BufInv
  <2>7. FreshInv'
    BY <2>1, <2>2 DEF EndEffect, Moves, PhaseIs, BufIs, LeftIs, FreshInv, Active
  <2>8. LifeInv'
    <3>1. model.life \notin {"new", "weights"}
      BY <2>2 DEF LifeInv, Active
    <3>2. model.life = "shut" => backed' = {}
      <4>1. model.life = "shut" => backed' = backed
        BY <1>6 DEF EndStep, AllocFails, UploadFails, Finish, Fail, Cut
      <4>2. QED
        BY <4>1 DEF LifeInv
    <3>3. QED
      BY <2>2, <3>1, <3>2 DEF LifeInv
  <2>9. QED
    BY <2>5, <2>6, <2>7, <2>8
<1>7. CASE UNCHANGED vars
  BY <1>7 DEF vars, TypeOK, BufInv, FreshInv, LifeInv, Active
<1>8. QED
  BY <1>1, <1>2, <1>3, <1>4, <1>5, <1>6, <1>7, NextSteps

LEMMA TypeInit == Init => TypeInv
<1> SUFFICES ASSUME Init PROVE TypeInv
  OBVIOUS
<1>1. TypeOK
  <2>1. <<>> \in Seq(Owners) /\ <<>> \in Seq(Calls)
    OBVIOUS
  <2>2. call \in [Calls -> Call]
    BY DEF Init, Call, Kinds, Owners
  <2>3. QED
    BY <2>1, <2>2 DEF Init, TypeOK, ModelKinds
<1>2. QED
  BY <1>1 DEF Init, TypeInv, BufInv, FreshInv, LifeInv

\* Types are kept, for any number of calls; a call's buffer is the memory of some call's
\* context, and none before it is given one.
THEOREM TypeCorrect == Spec => []TypeInv
BY TypeInit, TypeStep, PTL DEF Spec

(***************************************************************************)
(* What is on the stack                                                    *)
(***************************************************************************)

Holding == {c \in Calls : Holds(c)}

LEMMA CallsCount ==
    ASSUME NEW S \in SUBSET Calls
    PROVE  IsFiniteSet(S) /\ Cardinality(S) \in Nat /\ (S = {} => Cardinality(S) = 0)
<1>1. IsFiniteSet(Calls)
  BY FS_Interval DEF Calls
<1>2. QED
  BY <1>1, FS_Subset, FS_CardinalityType, FS_EmptySet

LEMMA HoldingIs == Holding \in SUBSET Calls /\ Holding' \in SUBSET Calls
BY DEF Holding

LEMMA AccountedIs ==
    StackAccounted <=>
        (model.life = "ready" => BaseStays /\ Len(stack) = Len(Base) + Cardinality(Holding))
BY DEF StackAccounted, Holding

LEMMA BaseIs ==
    ASSUME TypeOK
    PROVE  /\ Base \in Seq({Weights, Kv})
           /\ Len(Base) \in {1, 2}
           /\ model' = model => Base' = Base
<1>1. <<Weights>> \in Seq({Weights, Kv}) /\ Len(<<Weights>>) = 1
  OBVIOUS
<1>2. <<Weights, Kv>> \in Seq({Weights, Kv}) /\ Len(<<Weights, Kv>>) = 2
  OBVIOUS
<1>3. Base \in Seq({Weights, Kv}) /\ Len(Base) \in {1, 2}
  BY <1>1, <1>2 DEF Base
<1>4. model' = model => Base' = Base
  BY DEF Base
<1>5. QED
  BY <1>3, <1>4

\* The base of the stack, said element by element.
BottomIs(s) == Len(s) >= Len(Base) /\ \A i \in 1..Len(Base) : s[i] = Base[i]

LEMMA BottomStays ==
    ASSUME TypeOK, NEW s \in Seq(Owners)
    PROVE  BottomIs(s) <=> Len(s) >= Len(Base) /\ SubSeq(s, 1, Len(Base)) = Base
<1> DEFINE n == Len(Base)
<1>1. n \in {1, 2} /\ Base \in Seq(Owners)
  BY BaseIs DEF Base, Owners
<1>2. Len(s) \in Nat
  OBVIOUS
<1>3. SUFFICES ASSUME Len(s) >= n
               PROVE  (\A i \in 1..n : s[i] = Base[i]) <=> SubSeq(s, 1, n) = Base
  BY DEF BottomIs
<1> HIDE DEF n
<1>4. \A i \in 1..n : s[i] \in Owners
  BY <1>1, <1>2, <1>3
<1> DEFINE u == SubSeq(s, 1, n)
<1>5. /\ u \in Seq(Owners)
      /\ Len(u) = IF 1 <= n THEN n - 1 + 1 ELSE 0
      /\ \A i \in 1..(n - 1 + 1) : u[i] = s[1 + i - 1]
  BY <1>1, <1>4, SubSeqProperties
<1> HIDE DEF u
<1>6. Len(u) = n /\ \A i \in 1..n : u[i] = s[i]
  BY <1>1, <1>5
<1>7. (\A i \in 1..n : s[i] = Base[i]) => u = Base
  BY <1>1, <1>5, <1>6, SeqEqual DEF n
<1>8. u = Base => \A i \in 1..n : s[i] = Base[i]
  BY <1>6
<1>9. QED
  BY <1>7, <1>8 DEF u

\* The stack is accounted for if its bottom and the memory of the model stay, and it grows
\* with the calls that hold a context.
LEMMA AccountedStep ==
    ASSUME TypeOK, TypeOK', model' = model, StackAccounted, model.life = "ready" =>
               /\ BottomIs(stack) => BottomIs(stack')
               /\ backed \cap {Weights, Kv} \subseteq backed'
               /\ Len(stack') - Len(stack) = Cardinality(Holding') - Cardinality(Holding)
    PROVE  StackAccounted'
<1> SUFFICES ASSUME model.life = "ready"
             PROVE  BaseStays' /\ Len(stack') = Len(Base') + Cardinality(Holding')
  BY AccountedIs DEF StackAccounted, Holding
<1>1. /\ stack \in Seq(Owners) /\ stack' \in Seq(Owners) /\ Base' = Base
      /\ Len(Base) \in {1, 2} /\ \A i \in 1..Len(Base) : Base[i] \in {Weights, Kv}
  BY BaseIs DEF TypeOK
<1>2. Cardinality(Holding) \in Nat /\ Cardinality(Holding') \in Nat
  BY CallsCount, HoldingIs
<1>3. /\ Len(stack) >= Len(Base) /\ SubSeq(stack, 1, Len(Base)) = Base
      /\ \A i \in 1..Len(Base) : Base[i] \in backed
      /\ Len(stack) = Len(Base) + Cardinality(Holding)
  BY AccountedIs DEF BaseStays
<1>4. BottomIs(stack)
  BY <1>1, <1>3, BottomStays
<1>5. Len(stack') >= Len(Base) /\ SubSeq(stack', 1, Len(Base)) = Base
  BY <1>1, <1>4, BottomStays
<1>6. \A i \in 1..Len(Base) : Base[i] \in backed'
  BY <1>1, <1>3
<1>7. BaseStays'
  BY <1>1, <1>5, <1>6 DEF BaseStays
<1>8. Len(stack') = Len(Base) + Cardinality(Holding')
  BY <1>1, <1>2, <1>3
<1>9. QED
  BY <1>1, <1>7, <1>8

\* A push with a call that begins to hold, a pop with one that ceases to, or neither.
LEMMA PushCounts ==
    ASSUME TypeOK, NEW c \in Calls, c \notin Holding, Holding' = Holding \cup {c},
           stack' = CtxCreate(stack, c)
    PROVE  /\ BottomIs(stack) => BottomIs(stack')
           /\ Len(stack') - Len(stack) = Cardinality(Holding') - Cardinality(Holding)
<1>1. stack \in Seq(Owners) /\ c \in Owners /\ Len(Base) \in {1, 2}
  BY BaseIs DEF TypeOK, Owners
<1>2. Len(stack') = Len(stack) + 1 /\ Len(stack) \in Nat
  BY <1>1, CreateStack
<1>3. Cardinality(Holding') = Cardinality(Holding) + 1 /\ Cardinality(Holding) \in Nat
  BY CallsCount, HoldingIs, FS_AddElement
<1>4. \A i \in 1..Len(stack) : stack'[i] = stack[i]
  BY <1>1, CreateStack
<1>5. BottomIs(stack) => BottomIs(stack')
  BY <1>1, <1>2, <1>4 DEF BottomIs
<1>6. QED
  BY <1>2, <1>3, <1>5

LEMMA PopCounts ==
    ASSUME TypeOK, NEW c \in Holding, Holding' = Holding \ {c}, stack' = CtxFree(stack),
           BottomIs(stack), Len(stack) = Len(Base) + Cardinality(Holding)
    PROVE  /\ BottomIs(stack')
           /\ Len(stack') - Len(stack) = Cardinality(Holding') - Cardinality(Holding)
<1>1. stack \in Seq(Owners) /\ Len(Base) \in {1, 2} /\ Len(stack) \in Nat
  BY BaseIs DEF TypeOK
<1>2. Cardinality(Holding') = Cardinality(Holding) - 1 /\ Cardinality(Holding) \in Nat
  BY CallsCount, HoldingIs, FS_RemoveElement
<1>3. Cardinality(Holding) # 0
  BY CallsCount, HoldingIs, FS_EmptySet
<1>4. Len(stack) > Len(Base) /\ stack # <<>>
  BY <1>1, <1>2, <1>3
<1>5. Len(stack') = Len(stack) - 1 /\ \A i \in 1..(Len(stack) - 1) : stack'[i] = stack[i]
  BY <1>1, <1>4, FreeStack
<1>6. BottomIs(stack')
  BY <1>1, <1>4, <1>5 DEF BottomIs
<1>7. QED
  BY <1>1, <1>2, <1>5, <1>6

\* Who holds a context after a step of c.
LEMMA HoldingAfter ==
    ASSUME NEW c \in Calls, NEW ph, NEW l, PhaseIs(c, ph), LeftIs(c, l)
    PROVE  Holding' = IF ph \notin {"idle", "done"} \/ l THEN Holding \cup {c} ELSE Holding \ {c}
BY DEF Holding, Holds, Active, PhaseIs, LeftIs

LEMMA AccountedUnderStep ==
    ASSUME TypeInv, TypeInv', StackAccounted, [Next]_vars
    PROVE  StackAccounted'
<1> USE DEF TypeInv
<1>1. CASE ModelStep
  <2>1. ModelEffect
    BY <1>1, ModelHasEffect
  <2>2. CASE model'.life \in {"disposed", "weights"}
    BY <2>2 DEF StackAccounted
  <2>3. CASE model'.life = "ready" /\ model.life \in {"new", "weights"}
    <3>1. Holding' = {}
      BY <2>1, <2>3 DEF ModelEffect, Holding, Holds, Active, LifeInv, FreshInv
    <3>2. Cardinality(Holding') = 0
      BY <3>1, FS_EmptySet
    <3>3. /\ stack' = Base' /\ stack' \in Seq(Owners) /\ Base' \in Seq({Weights, Kv})
          /\ \A i \in 1..Len(Base') : Base'[i] \in backed'
      <4>1. CASE model'.kind # "chat" /\ stack' = <<Weights>> /\ Weights \in backed'
        BY <4>1 DEF Base, Owners
      <4>2. CASE model'.kind = "chat" /\ stack' = <<Weights, Kv>> /\ {Weights, Kv} \subseteq backed'
        BY <4>2 DEF Base, Owners
      <4>3. QED
        BY <2>1, <2>3, <4>1, <4>2 DEF ModelEffect
    <3>4. SubSeq(stack', 1, Len(Base')) = Base' /\ Len(stack') = Len(Base')
      BY <3>3, SubSeqFull
    <3>5. BaseStays'
      BY <3>3, <3>4 DEF BaseStays
    <3>6. QED
      BY <3>2, <3>3, <3>4, <3>5 DEF StackAccounted, Holding
  <2>4. QED
    BY <2>1, <2>2, <2>3 DEF ModelEffect
<1>2. CASE Shutdown
  BY <1>2, ShutdownEffect DEF StackAccounted
<1>3. ASSUME NEW c \in Calls, Begin(c) PROVE StackAccounted'
  <2>1. PICK k \in Kinds : BeginEffect(c, k)
    BY <1>3, BeginHasEffect
  <2>2. model.life = "ready" /\ call[c].phase = "idle" /\ model' = model
    BY <1>3, BeginHasEffect
  <2>3. c \notin Holding
    BY <2>2 DEF Holding, Holds, Active, FreshInv
  <2>4. backed \subseteq backed'
    BY <2>1 DEF BeginEffect
  <2>5. CASE Starts(c, k, "done", call[c].buf, FALSE) /\ stack' = stack
    <3>1. Holding' = Holding
      BY <2>3, <2>5, HoldingAfter DEF Starts
    <3>2. Len(stack') - Len(stack) = Cardinality(Holding') - Cardinality(Holding)
      BY <2>5, <3>1, CallsCount, HoldingIs DEF TypeOK
    <3>3. QED
      BY <2>2, <2>4, <2>5, <3>2, AccountedStep
  <2>6. CASE Holding' = Holding \cup {c} /\ stack' = CtxCreate(stack, c)
    BY <2>2, <2>3, <2>4, <2>6, PushCounts, AccountedStep
  <2>7. Starts(c, k, "done", call[c].buf, TRUE) => Holding' = Holding \cup {c}
    BY HoldingAfter DEF Starts
  <2>8. Starts(c, k, "built", call[c].buf, call[c].left) => Holding' = Holding \cup {c}
    BY HoldingAfter DEF Starts
  <2>9. Starts(c, k, "computing", c, call[c].left) => Holding' = Holding \cup {c}
    BY HoldingAfter DEF Starts
  <2>10. QED
    BY <2>1, <2>5, <2>6, <2>7, <2>8, <2>9 DEF BeginEffect
<1>4. ASSUME NEW c \in Calls, call[c].phase \notin {"idle", "done"},
             model' = model, stack' = stack,
             backed \cap {Weights, Kv} \subseteq backed',
             NEW ph, ph \notin {"idle", "done"}, NEW b, Moves(c, ph, b, call[c].left)
      PROVE  StackAccounted'
  <2>1. Holding' = Holding
    BY <1>4, HoldingAfter DEF Moves, Holding, Holds, Active
  <2>2. Len(stack') - Len(stack) = Cardinality(Holding') - Cardinality(Holding)
    BY <1>4, <2>1, CallsCount, HoldingIs DEF TypeOK
  <2>3. QED
    BY <1>4, <2>2, AccountedStep
<1>5. ASSUME NEW c \in Calls, Submit(c) PROVE StackAccounted'
  <2>1. Moves(c, "computing", Allocated(stack), call[c].left)
    BY <1>5, SubmitMoves
  <2>2. /\ call[c].phase = "built" /\ model' = model /\ stack' = stack
        /\ backed' = (backed \cup {Allocated(stack)}) \ {None}
    BY <1>5 DEF Submit
  <2>3. backed \cap {Weights, Kv} \subseteq backed'
    BY <2>2
  <2>4. QED
    BY <1>4, <2>1, <2>2, <2>3
<1>6. ASSUME NEW c \in Calls, GraphDone(c) \/ BeginDone(c) \/ Notified(c) PROVE StackAccounted'
  <2>1. PICK ph \in {"beginning", "waiting", "ready"} : Moves(c, ph, call[c].buf, call[c].left)
    BY <1>6, WaitMoves
  <2>2. /\ model' = model /\ stack' = stack /\ backed' = backed
        /\ call[c].phase \in {"computing", "beginning", "waiting"}
    BY <1>6 DEF GraphDone, BeginDone, Notified
  <2>3. QED
    BY <1>4, <2>1, <2>2
<1>7. ASSUME NEW c \in Calls, EndStep(c) PROVE StackAccounted'
  <2>1. PICK b \in Calls \cup {None}, l \in BOOLEAN : EndEffect(c, b, l)
    BY <1>7, EndHasEffect
  <2>2. Active(c) /\ model' = model /\ c \in Holding
    BY <1>7, EndHasEffect DEF Holding, Holds
  <2>3. backed \cap {Weights, Kv} \subseteq backed'
    BY <2>1 DEF EndEffect, EndMemory
  <2>4. CASE l
    <3>1. PhaseIs(c, "done") /\ LeftIs(c, TRUE) /\ l = TRUE
      BY <2>1, <2>4 DEF EndEffect, Moves
    <3>2. Holding' = Holding \cup {c}
      BY <3>1, HoldingAfter
    <3>3. Holding' = Holding /\ stack' = stack
      BY <2>1, <2>2, <3>1, <3>2 DEF EndEffect
    <3>4. Len(stack') - Len(stack) = Cardinality(Holding') - Cardinality(Holding)
      BY <3>3, CallsCount, HoldingIs DEF TypeOK
    <3>5. QED
      BY <2>2, <2>3, <3>3, <3>4, AccountedStep
  <2>5. CASE ~l
    <3>1. Holding' = Holding \ {c} /\ stack' = CtxFree(stack)
      BY <2>1, <2>2, <2>5, HoldingAfter DEF EndEffect, Moves
    <3>2. model.life = "ready" => BottomIs(stack) /\ Len(stack) = Len(Base) + Cardinality(Holding)
      BY AccountedIs, BottomStays DEF BaseStays, TypeOK
    <3>3. model.life = "ready" =>
              /\ BottomIs(stack')
              /\ Len(stack') - Len(stack) = Cardinality(Holding') - Cardinality(Holding)
      BY <2>2, <3>1, <3>2, PopCounts
    <3>4. QED
      BY <2>2, <2>3, <3>3, AccountedStep
  <2>6. QED
    BY <2>4, <2>5
<1>8. CASE UNCHANGED vars
  BY <1>8 DEF vars, StackAccounted, BaseStays, Base, Holds, Active
<1>9. QED
  BY <1>1, <1>2, <1>3, <1>5, <1>6, <1>7, <1>8, NextSteps

\* The contexts of the model stay at the bottom of the stack, under one context for each
\* call that holds one, for any number of calls.
THEOREM StackAccountedHolds == Spec => []StackAccounted
<1>1. Init => StackAccounted
  BY DEF Init, StackAccounted
<1>2. QED
  BY <1>1, AccountedUnderStep, TypeCorrect, PTL DEF Spec

(***************************************************************************)
(* Memory                                                                  *)
(***************************************************************************)

\* A context whose memory is accounted for.
Owned(o) ==
    \E c \in Calls : call[c].buf = o /\ (Active(c) \/ call[c].kind \in {"forward", "diagnose"})

\* Only a call under way gives memory to a context, and only forwards and diagnostics end
\* without freeing it.
LEMMA BuffersStep ==
    ASSUME TypeInv, TypeInv', BuffersAccounted, [Next]_vars
    PROVE  BuffersAccounted'
<1> USE DEF TypeInv
<1>0. ASSUME NEW o \in backed \ {Weights, Kv}
      PROVE  \E d \in Calls : call[d].buf = o /\ (Active(d) \/ call[d].kind \in {"forward", "diagnose"})
  BY DEF BuffersAccounted
<1>1. CASE ModelStep
  <2>1. ModelEffect
    BY <1>1, ModelHasEffect
  <2>2. QED
    BY <2>1 DEF ModelEffect, BuffersAccounted, Active
<1>2. CASE Shutdown
  BY <1>2, ShutdownEffect DEF BuffersAccounted
<1>3. ASSUME NEW c \in Calls, Begin(c) PROVE BuffersAccounted'
  <2>1. PICK k \in Kinds : BeginEffect(c, k)
    BY <1>3, BeginHasEffect
  <2>2. call[c].phase = "idle" /\ call[c].buf = None
    BY <1>3, BeginHasEffect DEF FreshInv
  <2>3. SUFFICES ASSUME NEW o \in backed' \ {Weights, Kv}
                 PROVE  Owned(o)'
    BY DEF BuffersAccounted, Owned
  <2>4. CASE o \in backed
    <3>1. PICK d \in Calls : call[d].buf = o /\ (Active(d) \/ call[d].kind \in {"forward", "diagnose"})
      BY <1>0, <2>4
    <3>2. d # c
      BY <2>2, <2>4, <3>1, NoneApart DEF TypeOK
    <3>3. call'[d].buf = o /\ call'[d].phase = call[d].phase /\ call'[d].kind = call[d].kind
      BY <2>1, <3>1, <3>2 DEF BeginEffect, Starts, PhaseIs, BufIs
    <3>4. QED
      BY <3>1, <3>3 DEF Active, Owned
  <2>5. CASE o \notin backed
    <3>1. o = c /\ Starts(c, k, "computing", c, call[c].left)
      BY <2>1, <2>5 DEF BeginEffect
    <3>2. call'[c].buf = o /\ call'[c].phase = "computing"
      BY <3>1 DEF Starts, BufIs, PhaseIs
    <3>3. QED
      BY <3>2 DEF Active, Owned
  <2>6. QED
    BY <2>4, <2>5
<1>4. ASSUME NEW c \in Calls, NEW ph, NEW b, NEW l, Moves(c, ph, b, l), Active(c),
             backed' \subseteq backed \cup {b} \/ backed' = {},
             b = call[c].buf \/ call[c].buf = None, None \notin backed,
             b \in backed' => ph \notin {"idle", "done"} \/ call[c].kind \in {"forward", "diagnose"}
      PROVE  BuffersAccounted'
  <2>1. SUFFICES ASSUME NEW o \in backed' \ {Weights, Kv}
                 PROVE  Owned(o)'
    BY DEF BuffersAccounted, Owned
  <2>2. /\ \A d \in Calls : call'[d].phase = IF d = c THEN ph ELSE call[d].phase
        /\ \A d \in Calls : call'[d].buf = IF d = c THEN b ELSE call[d].buf
        /\ \A d \in Calls : call'[d].kind = call[d].kind
    BY <1>4 DEF Moves, PhaseIs, BufIs, KindKept
  <2>3. CASE o = b
    <3>1. call'[c].buf = o /\ call'[c].phase = ph /\ call'[c].kind = call[c].kind
      BY <2>2, <2>3
    <3>2. QED
      BY <1>4, <2>3, <3>1 DEF Active, Owned
  <2>4. CASE o # b
    <3>1. o \in backed
      BY <1>4, <2>4
    <3>2. PICK d \in Calls : call[d].buf = o /\ (Active(d) \/ call[d].kind \in {"forward", "diagnose"})
      BY <1>0, <3>1
    <3>3. d # c
      BY <1>4, <2>4, <3>1, <3>2
    <3>4. call'[d].buf = o /\ call'[d].phase = call[d].phase /\ call'[d].kind = call[d].kind
      BY <2>2, <3>2, <3>3
    <3>5. QED
      BY <3>2, <3>4 DEF Active, Owned
  <2>5. QED
    BY <2>3, <2>4
<1>5. None \notin backed
  BY NoneApart DEF TypeOK
<1>6. ASSUME NEW c \in Calls, Submit(c) PROVE BuffersAccounted'
  <2>1. Moves(c, "computing", Allocated(stack), call[c].left)
    BY <1>6, SubmitMoves
  <2>2. /\ call[c].phase = "built" /\ backed' \subseteq backed \cup {Allocated(stack)}
        /\ Active(c)
    BY <1>6 DEF Submit, Active
  <2>3. call[c].buf = None
    BY <2>2 DEF FreshInv
  <2>4. QED
    BY <1>4, <1>5, <2>1, <2>2, <2>3
<1>7. ASSUME NEW c \in Calls, GraphDone(c) \/ BeginDone(c) \/ Notified(c) PROVE BuffersAccounted'
  <2>1. PICK ph \in {"beginning", "waiting", "ready"} : Moves(c, ph, call[c].buf, call[c].left)
    BY <1>7, WaitMoves
  <2>2. backed' = backed /\ Active(c)
    BY <1>7 DEF GraphDone, BeginDone, Notified, Active
  <2>3. QED
    BY <1>4, <1>5, <2>1, <2>2
<1>8. ASSUME NEW c \in Calls, EndStep(c) PROVE BuffersAccounted'
  <2>1. PICK b \in Calls \cup {None}, l \in BOOLEAN : EndEffect(c, b, l)
    BY <1>8, EndHasEffect
  <2>2. Active(c)
    BY <1>8, EndHasEffect
  <2>3. CASE model.life = "shut" /\ backed' = backed
    BY <2>3 DEF LifeInv, BuffersAccounted
  <2>4. CASE ~(model.life = "shut" /\ backed' = backed)
    <3>1. /\ backed' \subseteq backed \cup {b}
          /\ b = call[c].buf \/ call[c].phase = "built"
          /\ b \in backed' => call[c].kind \in {"forward", "diagnose"}
      BY <2>1, <2>4 DEF EndEffect, EndMemory
    <3>2. b = call[c].buf \/ call[c].buf = None
      BY <3>1 DEF FreshInv
    <3>3. Moves(c, "done", b, l)
      BY <2>1 DEF EndEffect
    <3>4. QED
      BY <1>4, <1>5, <2>2, <3>1, <3>2, <3>3
  <2>5. QED
    BY <2>3, <2>4
<1>9. CASE UNCHANGED vars
  BY <1>9 DEF vars, BuffersAccounted, Active
<1>10. QED
  BY <1>1, <1>2, <1>3, <1>6, <1>7, <1>8, <1>9, NextSteps

\* Memory is never left behind but by forwards and diagnostics that threw, for any number of
\* calls.
THEOREM BuffersAccountedHolds == Spec => []BuffersAccounted
<1>1. Init => BuffersAccounted
  BY DEF Init, BuffersAccounted
<1>2. QED
  BY <1>1, BuffersStep, TypeCorrect, PTL DEF Spec

(***************************************************************************)
(* A call that nobody overlaps                                             *)
(***************************************************************************)

\* What carries the name of a call was made after it began.
BegunInv ==
    /\ \A c \in Calls : call[c].buf \in Calls => call[call[c].buf].phase # "idle"
    /\ \A i \in 1..Len(stack) : stack[i] \in Calls => call[stack[i]].phase # "idle"

AloneInv ==
    \A c, d \in Calls : (Active(c) /\ call[c].alone /\ c # d) => ~Active(d)

\* What AloneOnItsOwn says of c, and before it has memory, that nobody has taken its name.
OwnTop(c) ==
    /\ CurrentCtx(stack) = c
    /\ call[c].phase # "built" => call[c].buf = c /\ c \in backed
    /\ call[c].phase = "built" => \A d \in Calls : call[d].buf # c

OwnInv ==
    \A c \in Calls : (model.life = "ready" /\ Active(c) /\ call[c].alone) => OwnTop(c)

\* The stack after a step of a call is what it was, less its top or with the call on top.
LEMMA BegunStack ==
    ASSUME TypeOK, BegunInv, NEW c \in Calls,
           stack' \in {stack, CtxFree(stack), CtxCreate(stack, c)},
           \A d \in Calls : call'[d].phase = "idle" => call[d].phase = "idle",
           call'[c].phase # "idle"
    PROVE  \A i \in 1..Len(stack') : stack'[i] \in Calls => call'[stack'[i]].phase # "idle"
<1>1. stack \in Seq(Owners) /\ c \in Owners /\ Len(stack) \in Nat
  BY DEF TypeOK, Owners
<1>2. CASE stack' = stack
  BY <1>2 DEF BegunInv
<1>3. CASE stack' = CtxFree(stack)
  <2>1. CASE stack = <<>>
    BY <1>2, <1>3, <2>1 DEF CtxFree
  <2>2. CASE stack # <<>>
    <3>1. Len(stack') = Len(stack) - 1 /\ \A i \in 1..(Len(stack) - 1) : stack'[i] = stack[i]
      BY <1>1, <1>3, <2>2, FreeStack
    <3>2. \A i \in 1..Len(stack') : stack'[i] = stack[i] /\ i \in 1..Len(stack)
      BY <1>1, <3>1
    <3>3. QED
      BY <3>2 DEF BegunInv
  <2>3. QED
    BY <2>1, <2>2
<1>4. CASE stack' = CtxCreate(stack, c)
  <2>1. /\ Len(stack') = Len(stack) + 1
        /\ \A i \in 1..Len(stack) : stack'[i] = stack[i]
        /\ stack'[Len(stack')] = c
    BY <1>1, <1>4, CreateStack DEF CurrentCtx
  <2>2. \A i \in 1..Len(stack') : i \in 1..Len(stack) \/ i = Len(stack')
    BY <1>1, <2>1
  <2>3. ASSUME NEW i \in 1..Len(stack'), stack'[i] \in Calls
        PROVE  call'[stack'[i]].phase # "idle"
    <3>1. CASE i = Len(stack')
      BY <2>1, <3>1
    <3>2. CASE i \in 1..Len(stack)
      BY <2>1, <2>3, <3>2 DEF BegunInv
    <3>3. QED
      BY <2>2, <3>1, <3>2
  <2>4. QED
    BY <2>3
<1>5. QED
  BY <1>2, <1>3, <1>4

LEMMA BegunStep == ASSUME TypeInv, TypeInv', BegunInv, [Next]_vars PROVE BegunInv'
<1> USE DEF TypeInv
<1>1. CASE ModelStep
  <2>1. ModelEffect
    BY <1>1, ModelHasEffect
  <2>2. \A c \in Calls : call'[c].buf \in Calls => call'[call'[c].buf].phase # "idle"
    BY <2>1 DEF ModelEffect, BegunInv
  <2>3. \A i \in 1..Len(stack') : stack'[i] \in Calls => call'[stack'[i]].phase # "idle"
    <3>1. CASE stack' = <<Weights>> \/ stack' = <<Weights, Kv>>
      BY <3>1
    <3>2. CASE ~(stack' = <<Weights>> \/ stack' = <<Weights, Kv>>)
      <4>1. stack' \in {CtxFree(stack), CtxFree(CtxFree(stack))}
        BY <1>1, <2>1, <3>2 DEF ModelStep, ModelEffect, LoadWeights, LoadEncoderWeights,
           LoadCausalWeights, PushWeights, InitKVCache, Dispose, DisposeEncoder,
           DisposeCausal, Release
      <4>2. stack \in Seq(Owners) /\ CtxFree(stack) \in Seq(Owners) /\ Len(stack) \in Nat
        BY FreeStack DEF TypeOK
      <4>3. \A i \in 1..Len(stack') : i \in 1..Len(stack) /\ stack'[i] = stack[i]
        <5>1. /\ Len(CtxFree(stack)) \in Nat
              /\ \A i \in 1..Len(CtxFree(stack)) :
                     i \in 1..Len(stack) /\ CtxFree(stack)[i] = stack[i]
          BY <4>2, FreeStack
        <5>2. \A i \in 1..Len(CtxFree(CtxFree(stack))) :
                  i \in 1..Len(CtxFree(stack)) /\ CtxFree(CtxFree(stack))[i] = CtxFree(stack)[i]
          BY <4>2, <5>1, FreeStack
        <5>3. QED
          BY <4>1, <5>1, <5>2
      <4>4. QED
        BY <2>1, <4>3 DEF ModelEffect, BegunInv
    <3>3. QED
      BY <3>1, <3>2
  <2>4. QED
    BY <2>2, <2>3 DEF BegunInv
<1>2. CASE Shutdown
  <2>1. /\ stack' = <<>>
        /\ \A d \in Calls : call'[d].buf = call[d].buf
        /\ \A d \in Calls : call'[d].phase = "idle" => call[d].phase = "idle"
    BY <1>2, ShutdownEffect
  <2>2. QED
    BY <2>1 DEF BegunInv
<1>3. ASSUME NEW c \in Calls, NEW b \in Calls \cup {None},
             BufIs(c, b), b = call[c].buf \/ b = c \/ (stack # <<>> /\ b = Allocated(stack)),
             \A d \in Calls : call'[d].phase = "idle" => call[d].phase = "idle",
             call'[c].phase # "idle",
             stack' \in {stack, CtxFree(stack), CtxCreate(stack, c)}
      PROVE  BegunInv'
  <2>1. \A i \in 1..Len(stack') : stack'[i] \in Calls => call'[stack'[i]].phase # "idle"
    BY <1>3, BegunStack
  <2>2. b \in Calls => call'[b].phase # "idle"
    <3>1. CASE stack # <<>> /\ b = Allocated(stack) /\ b \in Calls
      <4>1. stack \in Seq(Owners) /\ b # None
        BY <3>1, NoneApart DEF TypeOK, Owners
      <4>2. b = stack[Len(stack)] /\ Len(stack) \in 1..Len(stack)
        BY <3>1, <4>1, AllocatedCall
      <4>3. QED
        BY <1>3, <3>1, <4>2 DEF BegunInv
    <3>2. QED
      BY <1>3, <3>1 DEF BegunInv
  <2>3. \A d \in Calls : call'[d].buf \in Calls => call'[call'[d].buf].phase # "idle"
    BY <1>3, <2>2 DEF BufIs, BegunInv
  <2>4. QED
    BY <2>1, <2>3 DEF BegunInv
<1>4. ASSUME NEW c \in Calls, Begin(c) PROVE BegunInv'
  <2>1. PICK k \in Kinds : BeginEffect(c, k)
    BY <1>4, BeginHasEffect
  <2>2. PICK ph, b, l : /\ ph \in {"done", "built", "computing"} /\ b \in {call[c].buf, c}
                        /\ Starts(c, k, ph, b, l)
    BY <2>1 DEF BeginEffect
  <2>3. /\ b \in Calls \cup {None}
        /\ \A d \in Calls : call'[d].phase = "idle" => call[d].phase = "idle"
        /\ call'[c].phase # "idle"
    BY <2>2 DEF Starts, PhaseIs, BufInv
  <2>4. stack' \in {stack, CtxFree(stack), CtxCreate(stack, c)}
    BY <2>1 DEF BeginEffect
  <2>5. QED
    BY <1>3, <2>2, <2>3, <2>4 DEF Starts
<1>5. ASSUME NEW c \in Calls, NEW ph, NEW b \in Calls \cup {None}, NEW l, Moves(c, ph, b, l), ph # "idle",
             b = call[c].buf \/ (stack # <<>> /\ b = Allocated(stack)),
             stack' \in {stack, CtxFree(stack)}
      PROVE  BegunInv'
  BY <1>3, <1>5 DEF Moves, PhaseIs
<1>6. ASSUME NEW c \in Calls, Submit(c) PROVE BegunInv'
  <2>1. Moves(c, "computing", Allocated(stack), call[c].left)
    BY <1>6, SubmitMoves
  <2>2. stack # <<>> /\ stack' = stack
    BY <1>6 DEF Submit
  <2>3. Allocated(stack) \in Calls \cup {None}
    BY <2>2, AllocatedCall DEF TypeOK
  <2>4. QED
    BY <1>5, <2>1, <2>2, <2>3
<1>7. ASSUME NEW c \in Calls, GraphDone(c) \/ BeginDone(c) \/ Notified(c) PROVE BegunInv'
  <2>1. PICK ph \in {"beginning", "waiting", "ready"} : Moves(c, ph, call[c].buf, call[c].left)
    BY <1>7, WaitMoves
  <2>2. stack' = stack /\ call[c].buf \in Calls \cup {None}
    BY <1>7 DEF GraphDone, BeginDone, Notified, BufInv
  <2>3. QED
    BY <1>5, <2>1, <2>2
<1>8. ASSUME NEW c \in Calls, EndStep(c) PROVE BegunInv'
  <2>1. PICK b \in Calls \cup {None}, l \in BOOLEAN : EndEffect(c, b, l)
    BY <1>8, EndHasEffect
  <2>2. b = call[c].buf \/ (stack # <<>> /\ b = Allocated(stack))
    BY <2>1 DEF EndEffect
  <2>3. QED
    BY <1>5, <2>1, <2>2 DEF EndEffect
<1>9. CASE UNCHANGED vars
  BY <1>9 DEF vars, BegunInv
<1>10. QED
  BY <1>1, <1>2, <1>4, <1>6, <1>7, <1>8, <1>9, NextSteps

LEMMA AloneStep == ASSUME TypeInv, TypeInv', AloneInv, [Next]_vars PROVE AloneInv'
<1> USE DEF TypeInv
<1>1. ASSUME \A d \in Calls : call'[d].alone => call[d].alone,
             \A d \in Calls : call'[d].phase \notin {"idle", "done"} =>
                 call[d].phase \notin {"idle", "done"}
      PROVE  AloneInv'
  BY <1>1 DEF AloneInv, Active
<1>2. CASE ModelStep
  <2>1. call' = call
    BY <1>2, ModelHasEffect DEF ModelEffect
  <2>2. QED
    BY <2>1, <1>1
<1>3. CASE Shutdown
  BY <1>1, <1>3, ShutdownEffect
<1>4. ASSUME NEW c \in Calls, Begin(c) PROVE AloneInv'
  <2>1. PICK k \in Kinds : BeginEffect(c, k)
    BY <1>4, BeginHasEffect
  <2>2. PICK ph, b, l : Starts(c, k, ph, b, l)
    BY <2>1 DEF BeginEffect
  <2>3. /\ \A d \in Calls : d # c => call'[d].phase = call[d].phase
        /\ call'[c].alone => \A e \in Calls : ~Active(e)
        /\ \A d \in Calls : d # c /\ call'[d].alone => ~Active(d)
    BY <2>2 DEF Starts, PhaseIs
  <2>4. QED
    BY <2>3 DEF AloneInv, Active
<1>5. ASSUME NEW c \in Calls, NEW ph, NEW b, NEW l, Moves(c, ph, b, l), Active(c)
      PROVE  AloneInv'
  BY <1>1, <1>5 DEF Moves, PhaseIs, AloneLess, Active
<1>6. ASSUME NEW c \in Calls, Submit(c) PROVE AloneInv'
  <2>1. Moves(c, "computing", Allocated(stack), call[c].left)
    BY <1>6, SubmitMoves
  <2>2. Active(c)
    BY <1>6 DEF Submit, Active
  <2>3. QED
    BY <1>5, <2>1, <2>2
<1>7. ASSUME NEW c \in Calls, GraphDone(c) \/ BeginDone(c) \/ Notified(c) PROVE AloneInv'
  <2>1. PICK ph \in {"beginning", "waiting", "ready"} : Moves(c, ph, call[c].buf, call[c].left)
    BY <1>7, WaitMoves
  <2>2. Active(c)
    BY <1>7 DEF GraphDone, BeginDone, Notified, Active
  <2>3. QED
    BY <1>5, <2>1, <2>2
<1>8. ASSUME NEW c \in Calls, EndStep(c) PROVE AloneInv'
  BY <1>5, <1>8, EndHasEffect DEF EndEffect
<1>9. CASE UNCHANGED vars
  BY <1>9 DEF vars, AloneInv, Active
<1>10. QED
  BY <1>2, <1>3, <1>4, <1>6, <1>7, <1>8, <1>9, NextSteps

LEMMA OwnStep ==
    ASSUME TypeInv, TypeInv', BegunInv, AloneInv, OwnInv, [Next]_vars
    PROVE  OwnInv'
<1> USE DEF TypeInv
<1>1. CASE ModelStep
  <2>1. ModelEffect
    BY <1>1, ModelHasEffect
  <2>2. model'.life = "ready" => \A c \in Calls : call'[c].phase = "idle"
    BY <2>1 DEF ModelEffect, LifeInv
  <2>3. QED
    BY <2>2 DEF OwnInv, Active
<1>2. CASE Shutdown
  BY <1>2, ShutdownEffect DEF OwnInv
<1>3. ASSUME NEW c \in Calls, Begin(c) PROVE OwnInv'
  <2>1. PICK k \in Kinds : BeginEffect(c, k)
    BY <1>3, BeginHasEffect
  <2>2. call[c].phase = "idle" /\ call[c].buf = None /\ \A d \in Calls : call[d].buf # c
    BY <1>3, BeginHasEffect, NoneApart DEF FreshInv, BegunInv, Owners
  <2>3. SUFFICES ASSUME NEW d \in Calls, call'[d].phase \notin {"idle", "done"}, call'[d].alone
                 PROVE  OwnTop(d)'
    BY DEF OwnInv, Active
  <2>4. PICK ph, b, l : Starts(c, k, ph, b, l)
    BY <2>1 DEF BeginEffect
  <2>5. d = c
    BY <2>3, <2>4 DEF Starts, PhaseIs, Active
  <2>6. stack \in Seq(Owners) /\ c \in Owners /\ c # None
    BY NoneApart DEF TypeOK, Owners
  <2>7. CurrentCtx(CtxCreate(stack, c)) = c
    BY <2>6, CreateStack
  <2>8. CASE Starts(c, k, "built", call[c].buf, call[c].left) /\ stack' = CtxCreate(stack, c)
    <3>1. call'[c].phase = "built" /\ \A e \in Calls : call'[e].buf # c
      BY <2>2, <2>6, <2>8 DEF Starts, PhaseIs, BufIs
    <3>2. QED
      BY <2>5, <2>7, <2>8, <3>1 DEF OwnTop, CurrentCtx
  <2>9. CASE /\ Starts(c, k, "computing", c, call[c].left)
             /\ stack' = CtxCreate(stack, c) /\ backed' = backed \cup {c}
    <3>1. call'[c].phase = "computing" /\ call'[c].buf = c
      BY <2>9 DEF Starts, PhaseIs, BufIs
    <3>2. QED
      BY <2>5, <2>7, <2>9, <3>1 DEF OwnTop, CurrentCtx
  <2>10. ~Starts(c, k, "done", call[c].buf, FALSE) /\ ~Starts(c, k, "done", call[c].buf, TRUE)
    BY <2>3, <2>5 DEF Starts, PhaseIs
  <2>11. QED
    BY <2>1, <2>8, <2>9, <2>10 DEF BeginEffect
<1>4. ASSUME NEW c \in Calls, NEW ph, NEW b, NEW l, Moves(c, ph, b, l), Active(c),
             model' = model,
             (model.life = "ready" /\ ph # "done" /\ call[c].alone) => OwnTop(c)'
      PROVE  OwnInv'
  <2>1. SUFFICES ASSUME NEW d \in Calls, model.life = "ready",
                        call'[d].phase \notin {"idle", "done"}, call'[d].alone
                 PROVE  OwnTop(d)'
    BY <1>4 DEF OwnInv, Active
  <2>2. call[d].alone
    BY <1>4, <2>1 DEF Moves, AloneLess
  <2>3. d = c
    BY <1>4, <2>1, <2>2 DEF Moves, PhaseIs, AloneInv, Active
  <2>4. ph # "done"
    BY <1>4, <2>1, <2>3 DEF Moves, PhaseIs
  <2>5. QED
    BY <1>4, <2>1, <2>2, <2>3, <2>4
<1>5. ASSUME NEW c \in Calls, Submit(c) PROVE OwnInv'
  <2>1. Moves(c, "computing", Allocated(stack), call[c].left)
    BY <1>5, SubmitMoves
  <2>2. /\ call[c].phase = "built" /\ model' = model /\ stack' = stack /\ Active(c)
        /\ backed' = (backed \cup {Allocated(stack)}) \ {None}
    BY <1>5 DEF Submit, Active
  <2>3. ASSUME model.life = "ready", call[c].alone PROVE OwnTop(c)'
    <3>1. CurrentCtx(stack) = c /\ \A d \in Calls : call[d].buf # c
      BY <2>2, <2>3 DEF OwnInv, OwnTop
    <3>2. Allocated(stack) = c
      BY <3>1 DEF Allocated, Assigned
    <3>3. call'[c].phase = "computing" /\ call'[c].buf = c /\ c # None
      BY <2>1, <3>2, NoneApart DEF Moves, PhaseIs, BufIs, Owners
    <3>4. QED
      BY <2>2, <3>1, <3>2, <3>3 DEF OwnTop, CurrentCtx
  <2>4. QED
    BY <1>4, <2>1, <2>2, <2>3
<1>6. ASSUME NEW c \in Calls, GraphDone(c) \/ BeginDone(c) \/ Notified(c) PROVE OwnInv'
  <2>1. PICK ph \in {"beginning", "waiting", "ready"} : Moves(c, ph, call[c].buf, call[c].left)
    BY <1>6, WaitMoves
  <2>2. /\ model' = model /\ stack' = stack /\ backed' = backed /\ Active(c)
        /\ call[c].phase # "built"
    BY <1>6 DEF GraphDone, BeginDone, Notified, Active
  <2>3. ASSUME model.life = "ready", call[c].alone PROVE OwnTop(c)'
    <3>1. CurrentCtx(stack) = c /\ call[c].buf = c /\ c \in backed
      BY <2>2, <2>3 DEF OwnInv, OwnTop
    <3>2. call'[c].phase # "built" /\ call'[c].buf = c
      BY <2>1, <3>1 DEF Moves, PhaseIs, BufIs
    <3>3. QED
      BY <2>2, <3>1, <3>2 DEF OwnTop, CurrentCtx
  <2>4. QED
    BY <1>4, <2>1, <2>2, <2>3
<1>7. ASSUME NEW c \in Calls, EndStep(c) PROVE OwnInv'
  <2>1. PICK b \in Calls \cup {None}, l \in BOOLEAN : EndEffect(c, b, l)
    BY <1>7, EndHasEffect
  <2>2. Active(c) /\ model' = model /\ Moves(c, "done", b, l)
    BY <1>7, <2>1, EndHasEffect DEF EndEffect
  <2>3. QED
    BY <1>4, <2>2
<1>8. CASE UNCHANGED vars
  BY <1>8 DEF vars, OwnInv, OwnTop, Active, CurrentCtx
<1>9. QED
  BY <1>1, <1>2, <1>3, <1>5, <1>6, <1>7, <1>8, NextSteps

\* A call that nobody overlaps computes on its own context, in its own memory, whatever
\* contexts the calls before it left on the stack, for any number of calls.
THEOREM AloneOnItsOwnHolds == Spec => []AloneOnItsOwn
<1> DEFINE Inv == BegunInv /\ AloneInv /\ OwnInv
<1>1. Init => Inv
  BY NoneApart DEF Init, BegunInv, AloneInv, OwnInv, Active, Owners
<1>2. Inv /\ TypeInv /\ TypeInv' /\ [Next]_vars => Inv'
  BY BegunStep, AloneStep, OwnStep
<1>3. Inv => AloneOnItsOwn
  BY DEF OwnInv, OwnTop, AloneOnItsOwn
<1>4. QED
  BY <1>1, <1>2, <1>3, TypeCorrect, PTL DEF Spec

\* Every context on the stack and every buffer of the module has its owner, for any number
\* of calls, of any kind, that overlap, fail and are cut off at will.
THEOREM MemoryAccountedHolds == Spec => []MemoryAccounted
<1>1. StackAccounted /\ BuffersAccounted => MemoryAccounted
  BY DEF MemoryAccounted
<1>2. QED
  BY <1>1, StackAccountedHolds, BuffersAccountedHolds, PTL

(***************************************************************************)
(* The JSEP runtime.  First its device: what a batch leaves in the buffers *)
(* is a recursive function of the batch, and what it gives is shown by the *)
(* least counterexample, for which the order of the natural numbers has to *)
(* be well founded (WellFoundedInduction).                                 *)
(***************************************************************************)

Before == {p \in Nat \X Nat : p[1] < p[2]}

\* A set of numbers that is not empty has a least one.
LEMMA LeastNumber ==
    ASSUME NEW T, T \subseteq Nat, T # {}
    PROVE  \E n \in T : \A m \in T : n <= m
<1>1. IsWellFoundedOn(Before, Nat)
  BY NatLessThanWellFounded DEF OpToRel, Before
<1>2. PICK n \in T : \A m \in T : <<m, n>> \notin Before
  BY <1>1, WFMin
<1>3. ASSUME NEW m \in T PROVE n <= m
  <2>1. CASE m < n
    <3>1. <<m, n>> \in Nat \X Nat /\ <<m, n>>[1] = m /\ <<m, n>>[2] = n
      OBVIOUS
    <3>2. <<m, n>> \in Before
      BY <2>1, <3>1 DEF Before
    <3>3. QED
      BY <3>2, <1>2
  <2>2. QED
    BY <2>1
<1>4. QED
  BY <1>3

\* A set with 0 in which every number is followed by the next.
LEMMA NumberInduction ==
    ASSUME NEW n \in Nat, NEW T, T \subseteq 0..n, 0 \in T,
           \A k \in 1..n : k - 1 \in T => k \in T
    PROVE  T = 0..n
<1>1. SUFFICES ASSUME (0..n) \ T # {} PROVE FALSE
  OBVIOUS
<1>2. PICK m \in (0..n) \ T : \A k \in (0..n) \ T : m <= k
  <2>1. (0..n) \ T \subseteq Nat
    OBVIOUS
  <2>2. QED
    BY <1>1, <2>1, LeastNumber
<1>3. m \in 1..n /\ m - 1 \in T
  BY <1>2
<1>4. QED
  BY <1>2, <1>3

LEMMA JsepFacts ==
    /\ 0 \in Values
    /\ Mul \in [Values \X Values -> Values]
    /\ Norm \in [Values -> Values]
    /\ Row \in [Values -> Cells]
    /\ Shapes \subseteq [op : Jsep!Ops, dst : Cells, srcs : Seq(Cells)]
    /\ \A shape \in Shapes : Len(shape.srcs) = Jsep!Arity[shape.op]
    /\ SrcBucket \in Buckets /\ DstBucket \in Buckets
    /\ Oversized \notin Buckets
    /\ Sizes \subseteq Buckets \cup {Oversized}
    /\ MaxDispatch \in Nat \ {0}
    /\ MaxHandle \in Nat \ {0, 1}
BY JsepAssumption DEF Jsep!JsepConstants

Places == Jsep!Buffers \X Cells

\* Dispatches with as many operands as their operator takes.
Dispatch == {d \in Jsep!Dispatches : Len(d.srcs) = Jsep!Arity[d.op]}

CellMap == [Cells -> Values]

Contents == [Jsep!Buffers -> CellMap]

LEMMA ArityIs ==
    /\ Jsep!Arity["MUL_MAT"] = 2
    /\ Jsep!Arity["RMS_NORM"] = 1
    /\ Jsep!Arity["SET_ROWS"] = 3
BY DEF Jsep!Arity

LEMMA DispatchParts ==
    ASSUME NEW d \in Dispatch
    PROVE  /\ d.op \in {"MUL_MAT", "RMS_NORM", "SET_ROWS"}
           /\ d.dst \in Places /\ d.dst[1] \in Jsep!Buffers /\ d.dst[2] \in Cells
           /\ d.srcs \in Seq(Places)
           /\ d.srcs[1] \in Places /\ d.srcs[1][1] \in Jsep!Buffers /\ 1 \in DOMAIN d.srcs
           /\ d.op # "RMS_NORM" =>
                d.srcs[2] \in Places /\ d.srcs[2][1] \in Jsep!Buffers /\ 2 \in DOMAIN d.srcs
<1>1. d \in Jsep!Dispatches /\ Len(d.srcs) = Jsep!Arity[d.op]
  BY DEF Dispatch
<1>2. d.op \in Jsep!Ops /\ d.dst \in Places /\ d.srcs \in Seq(Places)
  BY <1>1 DEF Jsep!Dispatches, Places
<1>3. d.op \in {"MUL_MAT", "RMS_NORM", "SET_ROWS"}
  BY <1>2 DEF Jsep!Ops
<1>4. Len(d.srcs) \in Nat /\ Len(d.srcs) >= 1 /\ (d.op # "RMS_NORM" => Len(d.srcs) >= 2)
  BY <1>1, <1>3, ArityIs
<1>5. DOMAIN d.srcs = 1..Len(d.srcs) /\ \A i \in 1..Len(d.srcs) : d.srcs[i] \in Places
  BY <1>2
<1>6. \A t \in Places : t[1] \in Jsep!Buffers /\ t[2] \in Cells
  BY DEF Places
<1>7. QED
  BY <1>2, <1>3, <1>4, <1>5, <1>6

LEMMA BoundIs ==
    ASSUME NEW d \in Dispatch
    PROVE  /\ d.srcs[1][1] \in Jsep!Bound(d)
           /\ d.op # "RMS_NORM" => d.srcs[2][1] \in Jsep!Bound(d)
           /\ Jsep!Bound(d) \subseteq {d.srcs[i][1] : i \in DOMAIN d.srcs}
           /\ Jsep!Bound(d) \subseteq Jsep!Buffers
<1>1. CASE d.op = "RMS_NORM"
  BY <1>1, DispatchParts DEF Jsep!Bound
<1>2. CASE d.op # "RMS_NORM"
  <2>1. Jsep!Bound(d) = {d.srcs[1][1], d.srcs[2][1]}
    <3>1. Jsep!Bound(d) = {d.srcs[i][1] : i \in 1..2}
      BY <1>2 DEF Jsep!Bound
    <3>2. 1..2 = {1, 2}
      OBVIOUS
    <3>3. QED
      BY <3>1, <3>2
  <2>2. QED
    BY <1>2, <2>1, DispatchParts
<1>3. QED
  BY <1>1, <1>2

LEMMA ValueType ==
    ASSUME NEW c \in Contents, NEW t \in Places
    PROVE  Jsep!Value(c, t) \in Values
BY DEF Contents, CellMap, Places, Jsep!Value

\* A kernel writes values of the cells that it was given.
LEMMA KernelType ==
    ASSUME NEW c \in Contents, NEW d \in Dispatch, NEW r \in CellMap
    PROVE  Jsep!Kernel(c, d, r) \in CellMap
<1> DEFINE one == Jsep!Value(c, d.srcs[1])
           two == Jsep!Value(c, d.srcs[2])
<1>1. one \in Values /\ (d.op # "RMS_NORM" => two \in Values)
  BY DispatchParts, ValueType
<1> HIDE DEF one, two
<1>2. CASE d.op = "MUL_MAT"
  <2>1. Jsep!Kernel(c, d, r) = [r EXCEPT ![d.dst[2]] = Mul[one, two]]
    BY <1>2 DEF Jsep!Kernel, one, two
  <2>2. Mul[one, two] \in Values
    BY <1>1, <1>2, JsepFacts
  <2>3. QED
    BY <2>1, <2>2 DEF CellMap
<1>3. CASE d.op = "RMS_NORM"
  <2>1. Jsep!Kernel(c, d, r) = [r EXCEPT ![d.dst[2]] = Norm[one]]
    BY <1>3 DEF Jsep!Kernel, one
  <2>2. Norm[one] \in Values
    BY <1>1, JsepFacts
  <2>3. QED
    BY <2>1, <2>2 DEF CellMap
<1>4. CASE d.op = "SET_ROWS"
  <2>1. Jsep!Kernel(c, d, r) = [r EXCEPT ![Row[two]] = one]
    BY <1>4 DEF Jsep!Kernel, one, two
  <2>2. QED
    BY <1>1, <2>1 DEF CellMap
<1>5. QED
  BY <1>2, <1>3, <1>4, DispatchParts

LEMMA ExecuteType ==
    ASSUME NEW c \in Contents, NEW d \in Dispatch
    PROVE  /\ Jsep!Execute(c, d) \in Contents
           /\ \A b \in Jsep!Buffers : Jsep!Execute(c, d)[b] =
                IF b = d.dst[1] THEN Jsep!Kernel(c, d, c[b]) ELSE c[b]
<1>1. d.dst[1] \in Jsep!Buffers /\ c[d.dst[1]] \in CellMap
  BY DispatchParts DEF Contents
<1>2. Jsep!Kernel(c, d, c[d.dst[1]]) \in CellMap
  BY <1>1, KernelType
<1>3. Jsep!Execute(c, d) = [c EXCEPT ![d.dst[1]] = Jsep!Kernel(c, d, c[d.dst[1]])]
  BY DEF Jsep!Execute
<1>4. QED
  BY <1>1, <1>2, <1>3 DEF Contents

\* Two states of the buffers that differ in one buffer at most.
LikeBut(c, e, x) == \A b \in Jsep!Buffers \ {x} : c[b] = e[b]

\* A dispatch that does not use a buffer neither sees nor changes what it holds.
LEMMA ExecuteElsewhere ==
    ASSUME NEW c \in Contents, NEW e \in Contents, NEW x, LikeBut(c, e, x),
           NEW d \in Dispatch, ~Jsep!Uses(d, x)
    PROVE  LikeBut(Jsep!Execute(c, d), Jsep!Execute(e, d), x)
<1>1. d.dst[1] # x /\ x \notin Jsep!Bound(d)
  BY DEF Jsep!Uses
<1>2. c[d.srcs[1][1]] = e[d.srcs[1][1]] /\ c[d.dst[1]] = e[d.dst[1]]
  BY <1>1, BoundIs, DispatchParts DEF LikeBut
<1>3. d.op # "RMS_NORM" => c[d.srcs[2][1]] = e[d.srcs[2][1]]
  BY <1>1, BoundIs, DispatchParts DEF LikeBut
<1>4. Jsep!Value(c, d.srcs[1]) = Jsep!Value(e, d.srcs[1])
  BY <1>2 DEF Jsep!Value
<1>5. d.op # "RMS_NORM" => Jsep!Value(c, d.srcs[2]) = Jsep!Value(e, d.srcs[2])
  BY <1>3 DEF Jsep!Value
<1>6. Jsep!Kernel(c, d, c[d.dst[1]]) = Jsep!Kernel(e, d, e[d.dst[1]])
  <2>1. CASE d.op = "MUL_MAT"
    BY <2>1, <1>2, <1>4, <1>5 DEF Jsep!Kernel
  <2>2. CASE d.op = "RMS_NORM"
    BY <2>2, <1>2, <1>4 DEF Jsep!Kernel
  <2>3. CASE d.op = "SET_ROWS"
    BY <2>3, <1>2, <1>4, <1>5 DEF Jsep!Kernel
  <2>4. QED
    BY <2>1, <2>2, <2>3, DispatchParts
<1>7. QED
  BY <1>6, ExecuteType DEF LikeBut

(***************************************************************************)
(* Batches                                                                 *)
(***************************************************************************)

\* f[k] is what the first k dispatches of a batch leave of the buffers c.
IsQueue(f, c, p, n) == f = [k \in 0..n |-> IF k = 0 THEN c ELSE Jsep!Execute(f[k - 1], p[k])]

LEMMA QueueExists ==
    ASSUME NEW c \in Contents, NEW p \in Seq(Dispatch), NEW n \in 0..Len(p)
    PROVE  \E f \in [0..n -> Contents] : IsQueue(f, c, p, n)
<1> DEFINE T == {m \in 0..Len(p) : \E f \in [0..m -> Contents] : IsQueue(f, c, p, m)}
<1>1. Len(p) \in Nat
  OBVIOUS
<1>2. 0 \in T
  <2> DEFINE f == [k \in 0..0 |-> c]
  <2>1. IsQueue(f, c, p, 0)
    <3>1. \A k \in 0..0 : (IF k = 0 THEN c ELSE Jsep!Execute(f[k - 1], p[k])) = c
      OBVIOUS
    <3>2. [k \in 0..0 |-> IF k = 0 THEN c ELSE Jsep!Execute(f[k - 1], p[k])] = f
      BY <3>1
    <3>3. QED
      BY <3>2 DEF IsQueue
  <2>2. f \in [0..0 -> Contents]
    OBVIOUS
  <2> HIDE DEF f
  <2>3. QED
    BY <1>1, <2>1, <2>2
<1>3. ASSUME NEW m \in 1..Len(p), m - 1 \in T PROVE m \in T
  <2>1. PICK f \in [0..m - 1 -> Contents] : IsQueue(f, c, p, m - 1)
    BY <1>3
  <2>2. p[m] \in Dispatch /\ m \in 0..Len(p) /\ m \in Nat
    BY <1>1
  <2> HIDE DEF T
  <2> DEFINE g == [k \in 0..m |-> IF k = m THEN Jsep!Execute(f[m - 1], p[m]) ELSE f[k]]
  <2>3. ASSUME NEW k \in 0..m - 1
        PROVE  f[k] = IF k = 0 THEN c ELSE Jsep!Execute(f[k - 1], p[k])
    BY <2>1 DEF IsQueue
  <2>4. g \in [0..m -> Contents]
    <3>1. f[m - 1] \in Contents
      BY <2>1, <2>2
    <3>2. Jsep!Execute(f[m - 1], p[m]) \in Contents
      BY <2>2, <3>1, ExecuteType
    <3>3. QED
      BY <3>2, <2>1, <2>2
  <2>5. ASSUME NEW k \in 0..m PROVE g[k] = IF k = 0 THEN c ELSE Jsep!Execute(g[k - 1], p[k])
    <3>1. CASE k = m
      <4>1. m \in 0..m /\ m - 1 \in 0..m /\ m - 1 # m /\ m # 0
        BY <2>2
      <4>2. g[m] = Jsep!Execute(f[m - 1], p[m]) /\ g[m - 1] = f[m - 1]
        BY <4>1
      <4> HIDE DEF g
      <4>3. QED
        BY <3>1, <4>1, <4>2
    <3>2. CASE k # m
      <4>1. k \in 0..m - 1 /\ (k # 0 => k - 1 \in 0..m /\ k - 1 # m)
        BY <3>2, <2>2
      <4>2. g[k] = f[k] /\ (k # 0 => g[k - 1] = f[k - 1])
        BY <3>2, <4>1
      <4> HIDE DEF g
      <4>3. QED
        BY <4>1, <4>2, <2>3
    <3>3. QED
      BY <3>1, <3>2
  <2>6. IsQueue(g, c, p, m)
    BY <2>5 DEF IsQueue
  <2> HIDE DEF g
  <2>7. QED
    BY <2>2, <2>4, <2>6 DEF T
<1>4. T = 0..Len(p)
  <2>1. T \subseteq 0..Len(p)
    OBVIOUS
  <2> HIDE DEF T
  <2>2. QED
    BY <1>1, <1>2, <1>3, <2>1, NumberInduction
<1>5. QED
  BY <1>4

\* The states of the queue, one by one.
LEMMA QueueSteps ==
    ASSUME NEW c \in Contents, NEW p \in Seq(Dispatch)
    PROVE  /\ Jsep!QueueStates(c, p)[0] = c
           /\ \A k \in 1..Len(p) : Jsep!QueueStates(c, p)[k] =
                Jsep!Execute(Jsep!QueueStates(c, p)[k - 1], p[k])
<1> DEFINE n == Len(p)
           state == CHOOSE h : h = [k \in 0..n |-> IF k = 0 THEN c
                                                   ELSE Jsep!Execute(h[k - 1], p[k])]
<1>1. Jsep!QueueStates(c, p) = state
  BY Zenon DEF Jsep!QueueStates
<1>2. n \in Nat /\ n \in 0..n
  OBVIOUS
<1>3. PICK h \in [0..n -> Contents] : IsQueue(h, c, p, n)
  BY <1>2, QueueExists
<1>4. IsQueue(state, c, p, n)
  BY <1>3, Zenon DEF IsQueue
<1> HIDE DEF state
<1>5. ASSUME NEW k \in 0..n
      PROVE  state[k] = IF k = 0 THEN c ELSE Jsep!Execute(state[k - 1], p[k])
  BY <1>4 DEF IsQueue
<1>6. state[0] = c
  BY <1>2, <1>5
<1>7. ASSUME NEW k \in 1..n PROVE state[k] = Jsep!Execute(state[k - 1], p[k])
  <2>1. k \in 0..n /\ k # 0
    BY <1>2
  <2>2. QED
    BY <1>5, <2>1
<1>8. QED
  BY <1>1, <1>6, <1>7

LEMMA StatesType ==
    ASSUME NEW c \in Contents, NEW p \in Seq(Dispatch)
    PROVE  \A k \in 0..Len(p) : Jsep!QueueStates(c, p)[k] \in Contents
<1> DEFINE q == Jsep!QueueStates(c, p)
           T == {k \in 0..Len(p) : q[k] \in Contents}
<1>1. Len(p) \in Nat /\ \A k \in 1..Len(p) : p[k] \in Dispatch
  OBVIOUS
<1>2. q[0] = c /\ \A k \in 1..Len(p) : q[k] = Jsep!Execute(q[k - 1], p[k])
  BY QueueSteps
<1> HIDE DEF q
<1>3. 0 \in T
  BY <1>1, <1>2
<1>4. ASSUME NEW k \in 1..Len(p), k - 1 \in T PROVE k \in T
  BY <1>1, <1>2, <1>4, ExecuteType
<1>5. T = 0..Len(p)
  <2>1. T \subseteq 0..Len(p)
    OBVIOUS
  <2> HIDE DEF T
  <2>2. QED
    BY <1>1, <1>3, <1>4, <2>1, NumberInduction
<1>6. QED
  BY <1>5 DEF q

LEMMA QueueNothing ==
    ASSUME NEW c \in Contents
    PROVE  Jsep!QueueStates(c, <<>>)[Len(<<>>)] = c
<1>1. <<>> \in Seq(Dispatch) /\ Len(<<>>) = 0
  OBVIOUS
<1>2. QED
  BY <1>1, QueueSteps

LEMMA AppendedBatch ==
    ASSUME NEW S, NEW p \in Seq(S), NEW d \in S
    PROVE  /\ Append(p, d) \in Seq(S) /\ Len(Append(p, d)) = Len(p) + 1
           /\ \A k \in 1..Len(p) : Append(p, d)[k] = p[k]
           /\ Append(p, d)[Len(p) + 1] = d
OBVIOUS

\* A batch with one more dispatch leaves what this one makes of the batch.
LEMMA QueueAppend ==
    ASSUME NEW c \in Contents, NEW p \in Seq(Dispatch), NEW d \in Dispatch
    PROVE  Jsep!QueueStates(c, Append(p, d))[Len(p) + 1]
                = Jsep!Execute(Jsep!QueueStates(c, p)[Len(p)], d)
<1> DEFINE a == Append(p, d)
           q == Jsep!QueueStates(c, p)
           r == Jsep!QueueStates(c, a)
           T == {k \in 0..Len(p) : r[k] = q[k]}
<1>1. /\ a \in Seq(Dispatch) /\ Len(a) = Len(p) + 1 /\ a[Len(p) + 1] = d
      /\ \A k \in 1..Len(p) : a[k] = p[k]
  BY AppendedBatch
<1>2. Len(p) \in Nat
  OBVIOUS
<1> HIDE DEF a
<1>3. q[0] = c /\ \A k \in 1..Len(p) : q[k] = Jsep!Execute(q[k - 1], p[k])
  BY QueueSteps
<1>4. r[0] = c /\ \A k \in 1..Len(p) + 1 : r[k] = Jsep!Execute(r[k - 1], a[k])
  BY <1>1, QueueSteps
<1> HIDE DEF q, r
<1>5. 0 \in T
  BY <1>2, <1>3, <1>4
<1>6. ASSUME NEW k \in 1..Len(p), k - 1 \in T PROVE k \in T
  <2>1. k \in 1..Len(p) + 1 /\ k \in 0..Len(p)
    BY <1>2
  <2>2. QED
    BY <1>1, <1>3, <1>4, <1>6, <2>1
<1>7. T = 0..Len(p)
  <2>1. T \subseteq 0..Len(p)
    OBVIOUS
  <2> HIDE DEF T
  <2>2. QED
    BY <1>2, <1>5, <1>6, <2>1, NumberInduction
<1>8. r[Len(p)] = q[Len(p)]
  <2>1. Len(p) \in 0..Len(p)
    BY <1>2
  <2>2. QED
    BY <1>7, <2>1
<1>9. r[Len(p) + 1] = Jsep!Execute(r[Len(p)], d)
  <2>1. Len(p) + 1 \in 1..Len(p) + 1 /\ (Len(p) + 1) - 1 = Len(p)
    BY <1>2
  <2>2. r[Len(p) + 1] = Jsep!Execute(r[(Len(p) + 1) - 1], a[Len(p) + 1])
    BY <1>4, <2>1
  <2>3. QED
    BY <1>1, <2>1, <2>2
<1>10. QED
  BY <1>8, <1>9 DEF a, q, r

\* A batch that does not use a buffer neither sees nor changes what it holds.
LEMMA QueueElsewhere ==
    ASSUME NEW c \in Contents, NEW e \in Contents, NEW x, LikeBut(c, e, x),
           NEW p \in Seq(Dispatch), \A k \in DOMAIN p : ~Jsep!Uses(p[k], x)
    PROVE  LikeBut(Jsep!QueueStates(c, p)[Len(p)], Jsep!QueueStates(e, p)[Len(p)], x)
<1> DEFINE q == Jsep!QueueStates(c, p)
           r == Jsep!QueueStates(e, p)
           T == {k \in 0..Len(p) : LikeBut(q[k], r[k], x)}
<1>1. Len(p) \in Nat /\ \A k \in 1..Len(p) : p[k] \in Dispatch /\ ~Jsep!Uses(p[k], x)
  OBVIOUS
<1>2. q[0] = c /\ \A k \in 1..Len(p) : q[k] = Jsep!Execute(q[k - 1], p[k])
  BY QueueSteps
<1>3. r[0] = e /\ \A k \in 1..Len(p) : r[k] = Jsep!Execute(r[k - 1], p[k])
  BY QueueSteps
<1>4. \A k \in 0..Len(p) : q[k] \in Contents /\ r[k] \in Contents
  BY StatesType
<1> HIDE DEF q, r
<1>5. 0 \in T
  BY <1>1, <1>2, <1>3
<1>6. ASSUME NEW k \in 1..Len(p), k - 1 \in T PROVE k \in T
  <2>1. k \in 0..Len(p) /\ k - 1 \in 0..Len(p) /\ LikeBut(q[k - 1], r[k - 1], x)
    BY <1>1, <1>6
  <2>2. LikeBut(Jsep!Execute(q[k - 1], p[k]), Jsep!Execute(r[k - 1], p[k]), x)
    BY <1>1, <1>4, <2>1, ExecuteElsewhere
  <2>3. QED
    BY <1>2, <1>3, <2>1, <2>2
<1>7. T = 0..Len(p)
  <2>1. T \subseteq 0..Len(p)
    OBVIOUS
  <2> HIDE DEF T
  <2>2. QED
    BY <1>1, <1>5, <1>6, <2>1, NumberInduction
<1>8. LikeBut(q[Len(p)], r[Len(p)], x)
  <2>1. Len(p) \in 0..Len(p)
    BY <1>1
  <2>2. QED
    BY <1>7, <2>1
<1>9. QED
  BY <1>8 DEF q, r

(***************************************************************************)
(* The tables of the buffers                                               *)
(***************************************************************************)

\* No buffer twice in a sequence.
Once(s) == \A i, j \in DOMAIN s : s[i] = s[j] => i = j

\* No two handles for a buffer.
OneToOne(f) == \A g, h \in DOMAIN f : f[g] = f[h] => g = h

\* Every buffer that is not destroyed has one owner, handle or bucket, and is older than
\* the next handle.
TablesRight(hs, living, sizes, free, next) ==
    /\ next \in 1..(MaxHandle + 1)
    /\ DOMAIN hs \subseteq 1..(next - 1)
    /\ living \subseteq 1..(next - 1)
    /\ sizes \in [Jsep!Buffers -> Buckets \cup {Oversized}]
    /\ free \in [Buckets -> Seq(Jsep!Buffers)]
    /\ \A b : b \in living
            <=> b \in Jsep!Range(hs) \/ \E k \in Buckets : b \in Jsep!Range(free[k])
    /\ OneToOne(hs)
    /\ \A k \in Buckets : \A b \in Jsep!Range(free[k]) : sizes[b] = k /\ b \notin Jsep!Range(hs)
    /\ \A k \in Buckets : Once(free[k])

TablesInv == TablesRight(handles, alive, bucket, freeBuckets, nextHandle)

LEMMA RangeIs ==
    ASSUME NEW f, NEW b
    PROVE  b \in Jsep!Range(f) <=> \E x \in DOMAIN f : f[x] = b
BY DEF Jsep!Range

LEMMA PooledIs ==
    ASSUME NEW b
    PROVE  b \in Jsep!Pooled <=> \E k \in Buckets : b \in Jsep!Range(freeBuckets[k])
BY DEF Jsep!Pooled

\* A sequence without repetitions is as long as its range is large.
LEMMA OnceCounted ==
    ASSUME NEW S, NEW s \in Seq(S), Once(s)
    PROVE  Len(s) = Cardinality(Jsep!Range(s))
<1>1. Len(s) \in Nat /\ DOMAIN s = 1..Len(s)
  OBVIOUS
<1> DEFINE f == [i \in 1..Len(s) |-> s[i]]
<1>2. f \in Bijection(1..Len(s), Jsep!Range(s))
  <2>1. f \in [1..Len(s) -> Jsep!Range(s)]
    BY <1>1, RangeIs
  <2>2. \A i, j \in 1..Len(s) : f[i] = f[j] => i = j
    BY <1>1 DEF Once
  <2>3. \A b \in Jsep!Range(s) : \E i \in 1..Len(s) : f[i] = b
    BY <1>1, RangeIs
  <2>4. QED
    BY <2>1, <2>2, <2>3, Fun_IsBij
<1>3. IsFiniteSet(1..Len(s)) /\ Cardinality(1..Len(s)) = Len(s)
  <2>1. Len(s) >= 1 => Cardinality(1..Len(s)) = Len(s) - 1 + 1
    BY <1>1, FS_Interval
  <2>2. Len(s) = 0 => 1..Len(s) = {}
    OBVIOUS
  <2>3. QED
    BY <1>1, <2>1, <2>2, FS_Interval, FS_EmptySet
<1> HIDE DEF f
<1>4. QED
  BY <1>2, <1>3, FS_Bijection DEF ExistsBijection

LEMMA TablesGiveOwners ==
    ASSUME TablesInv
    PROVE  Jsep!OneOwner
<1>1. \A k \in Buckets :
        Len(freeBuckets[k]) = Jsep!Cardinality(Jsep!Range(freeBuckets[k]))
  <2>1. SUFFICES ASSUME NEW k \in Buckets
        PROVE Len(freeBuckets[k]) = Cardinality(Jsep!Range(freeBuckets[k]))
    BY DEF Jsep!Cardinality, Cardinality
  <2>2. freeBuckets[k] \in Seq(Jsep!Buffers) /\ Once(freeBuckets[k])
    BY DEF TablesInv, TablesRight
  <2>3. QED
    BY <2>2, OnceCounted
<1>2. alive = Jsep!Pooled \cup Jsep!Range(handles) /\ Jsep!Pooled \cap Jsep!Range(handles) = {}
  BY PooledIs DEF TablesInv, TablesRight
<1>3. QED
  BY <1>1, <1>2 DEF TablesInv, TablesRight, OneToOne, Jsep!OneOwner

LEMMA FrontIs ==
    ASSUME NEW S, NEW s \in Seq(S), s # <<>>
    PROVE  /\ Jsep!Front(s) \in Seq(S)
           /\ Len(s) \in Nat \ {0} /\ DOMAIN s = 1..Len(s)
           /\ DOMAIN Jsep!Front(s) = 1..(Len(s) - 1)
           /\ \A i \in 1..(Len(s) - 1) : Jsep!Front(s)[i] = s[i]
           /\ Jsep!Last(s) = s[Len(s)] /\ Jsep!Last(s) \in S
<1>1. Len(s) \in Nat \ {0} /\ DOMAIN s = 1..Len(s)
  OBVIOUS
<1> DEFINE f == SubSeq(s, 1, Len(s) - 1)
<1>2. 1 \in 1..Len(s) + 1 /\ Len(s) - 1 \in (1 - 1)..Len(s)
  BY <1>1
<1>3. f \in Seq(S) /\ Len(f) = Len(s) - 1 /\ \A i \in 1..(Len(s) - 1) : f[i] = s[i]
  BY <1>1, <1>2, SubSeqProperties
<1>4. DOMAIN f = 1..(Len(s) - 1)
  BY <1>3
<1>5. f = Jsep!Front(s)
  BY DEF Jsep!Front
<1> HIDE DEF f
<1>6. s[Len(s)] \in S
  BY <1>1
<1>7. QED
  BY <1>1, <1>3, <1>4, <1>5, <1>6 DEF Jsep!Last

\* What the last element leaves behind.
LEMMA FrontRange ==
    ASSUME NEW S, NEW s \in Seq(S), s # <<>>, Once(s)
    PROVE  /\ Once(Jsep!Front(s))
           /\ Jsep!Last(s) \in Jsep!Range(s)
           /\ \A b : b \in Jsep!Range(Jsep!Front(s)) <=> b \in Jsep!Range(s) /\ b # Jsep!Last(s)
<1> DEFINE f == Jsep!Front(s)
           z == Jsep!Last(s)
<1>1. /\ Len(s) \in Nat \ {0} /\ DOMAIN s = 1..Len(s) /\ DOMAIN f = 1..(Len(s) - 1)
      /\ \A i \in 1..(Len(s) - 1) : f[i] = s[i]
      /\ z = s[Len(s)]
  BY FrontIs
<1> HIDE DEF f, z
<1>2. Once(f)
  <2>1. SUFFICES ASSUME NEW i \in DOMAIN f, NEW j \in DOMAIN f, f[i] = f[j] PROVE i = j
    BY DEF Once
  <2>2. i \in DOMAIN s /\ j \in DOMAIN s /\ s[i] = s[j]
    BY <1>1, <2>1
  <2>3. QED
    BY <2>2 DEF Once
<1>3. z \in Jsep!Range(s)
  <2>1. Len(s) \in DOMAIN s
    BY <1>1
  <2>2. QED
    BY <1>1, <2>1, RangeIs
<1>4. ASSUME NEW b PROVE b \in Jsep!Range(f) <=> b \in Jsep!Range(s) /\ b # z
  <2>1. ASSUME b \in Jsep!Range(f) PROVE b \in Jsep!Range(s) /\ b # z
    <3>1. PICK i \in DOMAIN f : f[i] = b
      BY <2>1, RangeIs
    <3>2. i \in DOMAIN s /\ s[i] = b /\ Len(s) \in DOMAIN s /\ i # Len(s)
      BY <1>1, <3>1
    <3>3. b # z
      BY <1>1, <3>2 DEF Once
    <3>4. QED
      BY <3>2, <3>3, RangeIs
  <2>2. ASSUME b \in Jsep!Range(s), b # z PROVE b \in Jsep!Range(f)
    <3>1. PICK i \in DOMAIN s : s[i] = b
      BY <2>2, RangeIs
    <3>2. i \in DOMAIN f /\ f[i] = b
      BY <1>1, <2>2, <3>1
    <3>3. QED
      BY <3>2, RangeIs
  <2>3. QED
    BY <2>1, <2>2
<1>5. QED
  BY <1>2, <1>3, <1>4 DEF f, z

LEMMA AppendRange ==
    ASSUME NEW S, NEW s \in Seq(S), NEW x \in S
    PROVE  /\ Append(s, x) \in Seq(S)
           /\ \A b : b \in Jsep!Range(Append(s, x)) <=> b \in Jsep!Range(s) \/ b = x
           /\ Once(s) /\ x \notin Jsep!Range(s) => Once(Append(s, x))
<1> DEFINE a == Append(s, x)
<1>1. /\ a \in Seq(S) /\ Len(s) \in Nat /\ DOMAIN s = 1..Len(s) /\ DOMAIN a = 1..(Len(s) + 1)
      /\ \A i \in 1..Len(s) : a[i] = s[i]
      /\ a[Len(s) + 1] = x
  OBVIOUS
<1> HIDE DEF a
<1>2. ASSUME NEW b PROVE b \in Jsep!Range(a) <=> b \in Jsep!Range(s) \/ b = x
  <2>1. ASSUME NEW i \in DOMAIN a, a[i] = b PROVE b \in Jsep!Range(s) \/ b = x
    <3>1. CASE i \in DOMAIN s
      BY <1>1, <2>1, <3>1, RangeIs
    <3>2. CASE i \notin DOMAIN s
      <4>1. i = Len(s) + 1
        BY <1>1, <3>2
      <4>2. QED
        BY <1>1, <2>1, <4>1
    <3>3. QED
      BY <3>1, <3>2
  <2>2. ASSUME NEW i \in DOMAIN s, s[i] = b PROVE b \in Jsep!Range(a)
    <3>1. i \in DOMAIN a /\ a[i] = b
      BY <1>1, <2>2
    <3>2. QED
      BY <3>1, RangeIs
  <2>3. x \in Jsep!Range(a)
    <3>1. Len(s) + 1 \in DOMAIN a
      BY <1>1
    <3>2. QED
      BY <1>1, <3>1, RangeIs
  <2>4. QED
    BY <2>1, <2>2, <2>3, RangeIs
<1>3. ASSUME Once(s), x \notin Jsep!Range(s) PROVE Once(a)
  <2>1. SUFFICES ASSUME NEW i \in DOMAIN a, NEW j \in DOMAIN a, a[i] = a[j] PROVE i = j
    BY DEF Once
  <2>2. ASSUME NEW k \in DOMAIN a PROVE (k \in DOMAIN s /\ a[k] = s[k]) \/ k = Len(s) + 1
    BY <1>1
  <2>3. \A k \in DOMAIN s : s[k] # x
    BY <1>3, RangeIs
  <2>4. QED
    BY <1>1, <1>3, <2>1, <2>2, <2>3 DEF Once
<1>4. QED
  BY <1>1, <1>2, <1>3 DEF a

\* A handle more, or one less.
With(f, n, x) == [h \in DOMAIN f \cup {n} |-> IF h = n THEN x ELSE f[h]]

Less(f, n) == [h \in DOMAIN f \ {n} |-> f[h]]

\* g is f with n for the buffer x besides.
Extends(g, f, n, x) ==
    /\ \A b : b \in Jsep!Range(g) <=> b \in Jsep!Range(f) \/ b = x
    /\ OneToOne(f) /\ x \notin Jsep!Range(f) => OneToOne(g)
    /\ DOMAIN g = DOMAIN f \cup {n}
    /\ \A h \in DOMAIN f : g[h] = f[h]

LEMMA HandleMore ==
    ASSUME NEW f, NEW n, n \notin DOMAIN f, NEW x
    PROVE  Extends(With(f, n, x), f, n, x)
<1> DEFINE g == With(f, n, x)
<1>1. DOMAIN g = DOMAIN f \cup {n} /\ g[n] = x /\ \A h \in DOMAIN f : g[h] = f[h]
  BY DEF With
<1> HIDE DEF g
<1>2. \A b : b \in Jsep!Range(g) <=> b \in Jsep!Range(f) \/ b = x
  BY <1>1 DEF Jsep!Range
<1>3. QED
  BY <1>1, <1>2, RangeIs DEF g, OneToOne, Extends

LEMMA HandleLess ==
    ASSUME NEW f, NEW n \in DOMAIN f, OneToOne(f)
    PROVE  /\ \A b : b \in Jsep!Range(Less(f, n)) <=> b \in Jsep!Range(f) /\ b # f[n]
           /\ OneToOne(Less(f, n))
           /\ DOMAIN Less(f, n) = DOMAIN f \ {n}
           /\ \A h \in DOMAIN f \ {n} : Less(f, n)[h] = f[h]
           /\ f[n] \in Jsep!Range(f)
<1> DEFINE g == Less(f, n)
<1>1. DOMAIN g = DOMAIN f \ {n} /\ \A h \in DOMAIN f \ {n} : g[h] = f[h]
  BY DEF Less
<1> HIDE DEF g
<1>2. \A b : b \in Jsep!Range(g) <=> b \in Jsep!Range(f) /\ b # f[n]
  BY <1>1 DEF Jsep!Range, OneToOne
<1>3. QED
  BY <1>1, <1>2, RangeIs DEF g, OneToOne

\* The steps, with a write and a clear as one.
LEMMA JsepSteps ==
    ASSUME Jsep!Next
    PROVE  \/ Jsep!Install \/ Jsep!Destroy \/ Jsep!jsepSync \/ Jsep!HeapGrows
           \/ \E size \in Sizes : Jsep!Alloc(size)
           \/ \E h \in Jsep!Handles : Jsep!Free(h)
           \/ \E h \in Jsep!Handles, cells \in SUBSET Cells, v \in Values :
                Jsep!Write(h, cells, v)
           \/ \E r \in Readers : Jsep!ReadMapped(r)
           \/ \E r \in Readers, h \in Jsep!Handles : Jsep!jsepRead(r, h)
           \/ \E shape \in Shapes : \E d \in DOMAIN handles :
                \E srcs \in [DOMAIN shape.srcs -> DOMAIN handles] : Jsep!jsepRunOp(shape, d, srcs)
<1>1. ASSUME NEW h \in Jsep!Handles, Jsep!jsepWrite(h) \/ Jsep!jsepClear(h)
      PROVE  \E cells \in SUBSET Cells, v \in Values : Jsep!Write(h, cells, v)
  <2>1. CASE Jsep!jsepWrite(h)
    <3>1. PICK c \in Cells, v \in Values : Jsep!Write(h, {c}, v)
      BY <2>1 DEF Jsep!jsepWrite
    <3>2. {c} \in SUBSET Cells
      OBVIOUS
    <3>3. QED
      BY <3>1, <3>2
  <2>2. CASE Jsep!jsepClear(h)
    <3>1. PICK v \in Values : Jsep!Write(h, Cells, v)
      BY <2>2 DEF Jsep!jsepClear
    <3>2. QED
      BY <3>1
  <2>3. QED
    BY <1>1, <2>1, <2>2
<1>2. QED
  BY <1>1, Zenon DEF Jsep!Next

tables == <<handles, bucket, alive, freeBuckets, nextHandle>>

LEMMA TablesKept ==
    ASSUME TablesInv, UNCHANGED tables
    PROVE  TablesInv'
BY DEF TablesInv, tables

LEMMA TablesAlloc ==
    ASSUME TablesInv, NEW size \in Sizes, Jsep!Alloc(size)
    PROVE  TablesInv'
<1>1. /\ nextHandle <= MaxHandle /\ nextHandle' = nextHandle + 1 /\ nextHandle \in Nat \ {0}
      /\ nextHandle \notin DOMAIN handles /\ nextHandle \notin alive
      /\ nextHandle' \in 1..(MaxHandle + 1) /\ nextHandle \in Jsep!Buffers
      /\ nextHandle \in 1..(nextHandle' - 1)
      /\ \A b \in 1..(nextHandle - 1) : b \in 1..(nextHandle' - 1)
  BY JsepFacts DEF TablesInv, TablesRight, Jsep!Alloc, Jsep!Buffers
<1>2. /\ OneToOne(handles)
      /\ \A b : b \in alive
            <=> b \in Jsep!Range(handles) \/ \E k \in Buckets : b \in Jsep!Range(freeBuckets[k])
      /\ \A k \in Buckets : \A b \in Jsep!Range(freeBuckets[k]) :
            bucket[b] = k /\ b \notin Jsep!Range(handles)
  BY DEF TablesInv, TablesRight
<1>3. CASE size # Oversized /\ freeBuckets[size] # <<>>
  <2> DEFINE p == Jsep!Last(freeBuckets[size])
  <2>1. size \in Buckets /\ freeBuckets[size] \in Seq(Jsep!Buffers) /\ Once(freeBuckets[size])
    BY <1>3, JsepFacts DEF TablesInv, TablesRight
  <2>2. /\ handles' = With(handles, nextHandle, p)
        /\ freeBuckets' = [freeBuckets EXCEPT ![size] = Jsep!Front(freeBuckets[size])]
        /\ bucket' = bucket /\ alive' = alive
    BY <1>3 DEF Jsep!Alloc, With
  <2>3. /\ Jsep!Front(freeBuckets[size]) \in Seq(Jsep!Buffers)
        /\ Once(Jsep!Front(freeBuckets[size]))
        /\ p \in Jsep!Range(freeBuckets[size])
        /\ \A b : b \in Jsep!Range(Jsep!Front(freeBuckets[size]))
                    <=> b \in Jsep!Range(freeBuckets[size]) /\ b # p
    BY <1>3, <2>1, FrontIs, FrontRange
  <2> HIDE DEF p
  <2>4. /\ freeBuckets' \in [Buckets -> Seq(Jsep!Buffers)]
        /\ \A k \in Buckets : Once(freeBuckets'[k])
        /\ \A k \in Buckets : \A b : b \in Jsep!Range(freeBuckets'[k])
                <=> b \in Jsep!Range(freeBuckets[k]) /\ (k = size => b # p)
    BY <2>1, <2>2, <2>3 DEF TablesInv, TablesRight
  <2>5. bucket[p] = size /\ p \notin Jsep!Range(handles)
    BY <2>1, <2>3 DEF TablesInv, TablesRight
  <2>6. \A k \in Buckets : p \in Jsep!Range(freeBuckets[k]) => k = size
    BY <2>5 DEF TablesInv, TablesRight
  <2>7. /\ \A b : b \in Jsep!Range(handles') <=> b \in Jsep!Range(handles) \/ b = p
        /\ OneToOne(handles')
        /\ DOMAIN handles' = DOMAIN handles \cup {nextHandle}
    <3>1. /\ nextHandle \notin DOMAIN handles /\ OneToOne(handles)
          /\ p \notin Jsep!Range(handles)
      BY <1>1, <1>2, <2>2, <2>5
    <3>2. Extends(handles', handles, nextHandle, p)
      BY <3>1, <2>2, HandleMore
    <3>3. QED
      BY <3>1, <3>2 DEF Extends
  <2>8. \A b : b \in alive'
            <=> b \in Jsep!Range(handles') \/ \E k \in Buckets : b \in Jsep!Range(freeBuckets'[k])
    BY <1>2, <2>1, <2>2, <2>3, <2>4, <2>6, <2>7
  <2>9. \A k \in Buckets : \A b \in Jsep!Range(freeBuckets'[k]) :
            bucket'[b] = k /\ b \notin Jsep!Range(handles')
    BY <1>2, <2>2, <2>4, <2>6, <2>7
  <2>10. DOMAIN handles' \subseteq 1..(nextHandle' - 1) /\ alive' \subseteq 1..(nextHandle' - 1)
    BY <1>1, <2>2, <2>7 DEF TablesInv, TablesRight
  <2>11. bucket' \in [Jsep!Buffers -> Buckets \cup {Oversized}]
    BY <2>2 DEF TablesInv, TablesRight
  <2>12. QED
    BY <1>1, <2>4, <2>7, <2>8, <2>9, <2>10, <2>11 DEF TablesInv, TablesRight
<1>4. CASE ~(size # Oversized /\ freeBuckets[size] # <<>>)
  <2>1. /\ handles' = With(handles, nextHandle, nextHandle)
        /\ bucket' = [bucket EXCEPT ![nextHandle] = size]
        /\ alive' = alive \cup {nextHandle}
        /\ freeBuckets' = freeBuckets
    BY <1>4 DEF Jsep!Alloc, Jsep!NewBuffer, With
  <2>2. /\ nextHandle \notin Jsep!Range(handles)
        /\ \A k \in Buckets : nextHandle \notin Jsep!Range(freeBuckets[k])
    BY <1>1 DEF TablesInv, TablesRight
  <2>3. /\ \A b : b \in Jsep!Range(handles') <=> b \in Jsep!Range(handles) \/ b = nextHandle
        /\ OneToOne(handles')
        /\ DOMAIN handles' = DOMAIN handles \cup {nextHandle}
    <3>1. /\ nextHandle \notin DOMAIN handles /\ OneToOne(handles)
          /\ nextHandle \notin Jsep!Range(handles)
      BY <1>1, <1>2, <2>1, <2>2
    <3>2. Extends(handles', handles, nextHandle, nextHandle)
      BY <3>1, <2>1, HandleMore
    <3>3. QED
      BY <3>1, <3>2 DEF Extends
  <2>4. \A b : b \in alive'
            <=> b \in Jsep!Range(handles') \/ \E k \in Buckets : b \in Jsep!Range(freeBuckets'[k])
    BY <1>2, <2>1, <2>3
  <2>5. bucket' \in [Jsep!Buffers -> Buckets \cup {Oversized}]
        /\ \A b : b # nextHandle => bucket'[b] = bucket[b]
    BY <1>1, <2>1, JsepFacts DEF TablesInv, TablesRight
  <2>6. \A k \in Buckets : \A b \in Jsep!Range(freeBuckets'[k]) :
            bucket'[b] = k /\ b \notin Jsep!Range(handles')
    BY <1>2, <2>1, <2>2, <2>3, <2>5
  <2>7. DOMAIN handles' \subseteq 1..(nextHandle' - 1) /\ alive' \subseteq 1..(nextHandle' - 1)
    BY <1>1, <2>1, <2>3 DEF TablesInv, TablesRight
  <2>8. freeBuckets' \in [Buckets -> Seq(Jsep!Buffers)] /\ \A k \in Buckets : Once(freeBuckets'[k])
    BY <2>1 DEF TablesInv, TablesRight
  <2>9. QED
    BY <1>1, <2>3, <2>4, <2>5, <2>6, <2>7, <2>8 DEF TablesInv, TablesRight
<1>5. QED
  BY <1>3, <1>4

LEMMA TablesFree ==
    ASSUME TablesInv, NEW h \in Jsep!Handles, Jsep!Free(h)
    PROVE  TablesInv'
<1> DEFINE b == handles[h]
<1>0. /\ OneToOne(handles)
      /\ \A x : x \in alive
            <=> x \in Jsep!Range(handles) \/ \E k \in Buckets : x \in Jsep!Range(freeBuckets[k])
      /\ \A k \in Buckets : \A x \in Jsep!Range(freeBuckets[k]) :
            bucket[x] = k /\ x \notin Jsep!Range(handles)
  BY DEF TablesInv, TablesRight
<1>1. /\ h \in DOMAIN handles
      /\ handles' = Less(handles, h)
      /\ bucket' = bucket /\ nextHandle' = nextHandle
  BY DEF Jsep!Free, Jsep!Without, Less
<1>2. /\ \A x : x \in Jsep!Range(handles') <=> x \in Jsep!Range(handles) /\ x # b
      /\ OneToOne(handles')
      /\ DOMAIN handles' = DOMAIN handles \ {h}
      /\ b \in Jsep!Range(handles)
  BY <1>0, <1>1, HandleLess
<1>3. /\ b \in Jsep!Buffers /\ b \in alive
      /\ \A k \in Buckets : b \notin Jsep!Range(freeBuckets[k])
      /\ bucket[b] \in Buckets \cup {Oversized}
  <2>1. b \in alive /\ \A k \in Buckets : b \notin Jsep!Range(freeBuckets[k])
    BY <1>0, <1>2
  <2>2. b \in Jsep!Buffers
    <3>1. /\ nextHandle \in 1..(MaxHandle + 1)
          /\ b \in 1..(nextHandle - 1)
      BY <2>1 DEF TablesInv, TablesRight
    <3> HIDE DEF b
    <3>2. QED
      BY <3>1, JsepFacts DEF Jsep!Buffers
  <2>3. QED
    BY <2>1, <2>2 DEF TablesInv, TablesRight
<1>4. DOMAIN handles' \subseteq 1..(nextHandle' - 1)
  BY <1>1, <1>2 DEF TablesInv, TablesRight
<1>5. nextHandle' \in 1..(MaxHandle + 1) /\ bucket' \in [Jsep!Buffers -> Buckets \cup {Oversized}]
  BY <1>1 DEF TablesInv, TablesRight
<1>6. CASE bucket[b] # Oversized
  <2> DEFINE k0 == bucket[b]
             longer == Append(freeBuckets[k0], b)
  <2>1. k0 \in Buckets /\ freeBuckets[k0] \in Seq(Jsep!Buffers) /\ Once(freeBuckets[k0])
    BY <1>3, <1>6 DEF TablesInv, TablesRight
  <2>2. freeBuckets' = [freeBuckets EXCEPT ![k0] = longer] /\ alive' = alive
    BY <1>6 DEF Jsep!Free
  <2>3. /\ longer \in Seq(Jsep!Buffers) /\ Once(longer)
        /\ \A x : x \in Jsep!Range(longer) <=> x \in Jsep!Range(freeBuckets[k0]) \/ x = b
    BY <1>3, <2>1, AppendRange
  <2>4. bucket[b] = k0
    OBVIOUS
  <2> HIDE DEF longer, b, k0
  <2>5. /\ freeBuckets' \in [Buckets -> Seq(Jsep!Buffers)]
        /\ \A k \in Buckets : Once(freeBuckets'[k])
        /\ \A k \in Buckets : \A x : x \in Jsep!Range(freeBuckets'[k])
                <=> x \in Jsep!Range(freeBuckets[k]) \/ (k = k0 /\ x = b)
    BY <2>1, <2>2, <2>3 DEF TablesInv, TablesRight
  <2>6. \A x : x \in alive'
            <=> x \in Jsep!Range(handles') \/ \E k \in Buckets : x \in Jsep!Range(freeBuckets'[k])
    BY <1>0, <1>2, <1>3, <2>1, <2>2, <2>5
  <2>7. \A k \in Buckets : \A x \in Jsep!Range(freeBuckets'[k]) :
            bucket'[x] = k /\ x \notin Jsep!Range(handles')
    BY <1>0, <1>1, <1>2, <2>4, <2>5
  <2>8. alive' \subseteq 1..(nextHandle' - 1)
    BY <1>1, <2>2 DEF TablesInv, TablesRight
  <2>9. QED
    BY <1>2, <1>4, <1>5, <2>5, <2>6, <2>7, <2>8 DEF TablesInv, TablesRight
<1>7. CASE bucket[b] = Oversized
  <2>1. freeBuckets' = freeBuckets /\ alive' = alive \ {b}
    BY <1>7 DEF Jsep!Free
  <2> HIDE DEF b
  <2>2. \A x : x \in alive'
            <=> x \in Jsep!Range(handles') \/ \E k \in Buckets : x \in Jsep!Range(freeBuckets'[k])
    BY <1>0, <1>2, <1>3, <2>1
  <2>3. \A k \in Buckets : \A x \in Jsep!Range(freeBuckets'[k]) :
            bucket'[x] = k /\ x \notin Jsep!Range(handles')
    BY <1>0, <1>1, <1>2, <2>1
  <2>4. alive' \subseteq 1..(nextHandle' - 1)
    BY <1>1, <2>1 DEF TablesInv, TablesRight
  <2>5. freeBuckets' \in [Buckets -> Seq(Jsep!Buffers)] /\ \A k \in Buckets : Once(freeBuckets'[k])
    BY <2>1 DEF TablesInv, TablesRight
  <2>6. QED
    BY <1>2, <1>4, <1>5, <2>2, <2>3, <2>4, <2>5 DEF TablesInv, TablesRight
<1>8. QED
  BY <1>6, <1>7

\* Nothing in any table.
LEMMA NoHandles ==
    ASSUME NEW f, f = <<>>
    PROVE  DOMAIN f = {} /\ Jsep!Range(f) = {} /\ Once(f)
BY DEF Jsep!Range, Once

LEMMA TablesDestroy ==
    ASSUME TablesInv, Jsep!Destroy
    PROVE  TablesInv'
<1>1. /\ handles' = <<>> /\ bucket' = bucket /\ nextHandle' = nextHandle
      /\ freeBuckets' = [k \in Buckets |-> <<>>]
      /\ alive' = alive \ (Jsep!Pooled \cup Jsep!Range(handles))
  BY DEF Jsep!Destroy
<1>2. DOMAIN handles' = {} /\ Jsep!Range(handles') = {}
  BY <1>1, NoHandles
<1>3. \A k \in Buckets : Jsep!Range(freeBuckets'[k]) = {} /\ Once(freeBuckets'[k])
  BY <1>1, NoHandles
<1>4. alive' = {}
  BY <1>1, PooledIs DEF TablesInv, TablesRight
<1>5. freeBuckets' \in [Buckets -> Seq(Jsep!Buffers)]
  BY <1>1
<1>6. QED
  BY <1>1, <1>2, <1>3, <1>4, <1>5 DEF TablesInv, TablesRight, OneToOne

LEMMA TablesInstall ==
    ASSUME Jsep!Install
    PROVE  TablesInv'
<1> DEFINE one(k) == IF k = SrcBucket THEN <<1>> ELSE <<>>
           two(k) == IF k = DstBucket THEN <<2>> ELSE <<>>
<1>1. /\ handles' = <<>> /\ nextHandle' = 3 /\ alive' = {1, 2}
      /\ bucket' = [b \in Jsep!Buffers |->
            CASE b = 1 -> SrcBucket [] b = 2 -> DstBucket [] OTHER -> Oversized]
      /\ freeBuckets' = [k \in Buckets |-> one(k) \o two(k)]
  BY DEF Jsep!Install
<1>2. 1 \in Jsep!Buffers /\ 2 \in Jsep!Buffers /\ 3 \in 1..(MaxHandle + 1)
      /\ alive' \subseteq 1..2
  BY <1>1, JsepFacts DEF Jsep!Buffers
<1>3. /\ bucket' \in [Jsep!Buffers -> Buckets \cup {Oversized}]
      /\ bucket'[1] = SrcBucket /\ bucket'[2] = DstBucket
  BY <1>1, <1>2, JsepFacts
<1>4. DOMAIN handles' = {} /\ Jsep!Range(handles') = {}
  BY <1>1, NoHandles
<1>5. ASSUME NEW k \in Buckets
      PROVE  /\ freeBuckets'[k] \in Seq(Jsep!Buffers)
             /\ Once(freeBuckets'[k])
             /\ \A b : b \in Jsep!Range(freeBuckets'[k])
                    <=> (b = 1 /\ k = SrcBucket) \/ (b = 2 /\ k = DstBucket)
  <2>1. freeBuckets'[k] = IF k = SrcBucket
                          THEN IF k = DstBucket THEN <<1, 2>> ELSE <<1>>
                          ELSE IF k = DstBucket THEN <<2>> ELSE <<>>
    BY <1>1
  <2>2. \A b : b \in Jsep!Range(<<1, 2>>) <=> b = 1 \/ b = 2
    BY DEF Jsep!Range
  <2>3. \A x, b : b \in Jsep!Range(<<x>>) <=> b = x
    BY DEF Jsep!Range
  <2>4. Jsep!Range(<<>>) = {}
    BY DEF Jsep!Range
  <2>5. Once(<<1, 2>>) /\ Once(<<>>) /\ \A x : Once(<<x>>)
    BY DEF Once
  <2>6. /\ <<1, 2>> \in Seq(Jsep!Buffers) /\ <<1>> \in Seq(Jsep!Buffers)
        /\ <<2>> \in Seq(Jsep!Buffers) /\ <<>> \in Seq(Jsep!Buffers)
    BY <1>2
  <2>7. QED
    BY <2>1, <2>2, <2>3, <2>4, <2>5, <2>6
<1>6. freeBuckets' \in [Buckets -> Seq(Jsep!Buffers)]
  BY <1>1, <1>5
<1> HIDE DEF one, two
<1>7. \A b : b \in alive'
            <=> b \in Jsep!Range(handles') \/ \E k \in Buckets : b \in Jsep!Range(freeBuckets'[k])
  BY <1>1, <1>4, <1>5, JsepFacts
<1>8. \A k \in Buckets : \A b \in Jsep!Range(freeBuckets'[k]) :
            bucket'[b] = k /\ b \notin Jsep!Range(handles')
  BY <1>3, <1>4, <1>5
<1>9. \A k \in Buckets : Once(freeBuckets'[k])
  BY <1>5
<1>10. QED
  BY <1>1, <1>2, <1>3, <1>4, <1>6, <1>7, <1>8, <1>9
     DEF TablesInv, TablesRight, OneToOne

LEMMA TablesInit ==
    ASSUME Jsep!Init
    PROVE  TablesInv
<1>1. /\ handles = <<>> /\ alive = {} /\ nextHandle = 1
      /\ freeBuckets = [k \in Buckets |-> <<>>]
      /\ bucket = [b \in Jsep!Buffers |-> Oversized]
  BY DEF Jsep!Init
<1>2. DOMAIN handles = {} /\ Jsep!Range(handles) = {}
  BY <1>1, NoHandles
<1>3. \A k \in Buckets : Jsep!Range(freeBuckets[k]) = {} /\ Once(freeBuckets[k])
  BY <1>1, NoHandles
<1>4. QED
  BY <1>1, <1>2, <1>3, JsepFacts DEF TablesInv, TablesRight, OneToOne

LEMMA TablesNext ==
    ASSUME TablesInv, [Jsep!Next]_Jsep!vars
    PROVE  TablesInv'
<1>1. ASSUME UNCHANGED tables PROVE TablesInv'
  BY <1>1, TablesKept
<1>2. CASE UNCHANGED Jsep!vars
  BY <1>1, <1>2 DEF Jsep!vars, tables
<1>3. CASE Jsep!Install
  BY <1>3, TablesInstall
<1>4. CASE Jsep!Destroy
  BY <1>4, TablesDestroy
<1>5. CASE Jsep!jsepSync \/ Jsep!HeapGrows
  BY <1>1, <1>5 DEF Jsep!jsepSync, Jsep!HeapGrows, tables
<1>6. ASSUME NEW size \in Sizes, Jsep!Alloc(size) PROVE TablesInv'
  BY <1>6, TablesAlloc
<1>7. ASSUME NEW h \in Jsep!Handles, Jsep!Free(h) PROVE TablesInv'
  BY <1>7, TablesFree
<1>8. ASSUME NEW h \in Jsep!Handles, NEW cells \in SUBSET Cells, NEW v \in Values,
             Jsep!Write(h, cells, v)
      PROVE  TablesInv'
  BY <1>1, <1>8 DEF Jsep!Write, tables
<1>9. ASSUME NEW r \in Readers, Jsep!ReadMapped(r) PROVE TablesInv'
  BY <1>1, <1>9 DEF Jsep!ReadMapped, tables
<1>10. ASSUME NEW r \in Readers, NEW h \in Jsep!Handles, Jsep!jsepRead(r, h) PROVE TablesInv'
  BY <1>1, <1>10 DEF Jsep!jsepRead, tables
<1>11. ASSUME NEW shape \in Shapes, NEW d \in DOMAIN handles,
              NEW srcs \in [DOMAIN shape.srcs -> DOMAIN handles], Jsep!jsepRunOp(shape, d, srcs)
       PROVE  TablesInv'
  BY <1>1, <1>11 DEF Jsep!jsepRunOp, tables
<1>12. QED
  BY <1>2, <1>3, <1>4, <1>5, <1>6, <1>7, <1>8, <1>9, <1>10, <1>11, JsepSteps

(***************************************************************************)
(* The batch                                                               *)
(***************************************************************************)

ReadState == [phase : {"idle", "waiting", "rejected"}, value : Values, detached : BOOLEAN]

\* Buffers c, a batch p, reads rs; unless a buffer was lost, the queue will accept the batch.
BatchRight(c, p, rs, living, broken) ==
    /\ c \in Contents
    /\ p \in Seq(Dispatch)
    /\ rs \in [Readers -> ReadState]
    /\ ~broken => Jsep!Accepted(p, living)

BatchInv == BatchRight(content, pending, reads, alive, lost)

\* What a batch leaves.
Left(c, p) == Jsep!QueueStates(c, p)[Len(p)]

LEMMA LeftType ==
    ASSUME NEW c \in Contents, NEW p \in Seq(Dispatch)
    PROVE  Left(c, p) \in Contents
<1>1. Len(p) \in 0..Len(p)
  OBVIOUS
<1>2. QED
  BY <1>1, StatesType DEF Left

LEMMA SubmittedIs ==
    ASSUME content \in Contents, NEW p \in Seq(Dispatch)
    PROVE  /\ Jsep!Submitted(p) \in Contents
           /\ Jsep!Accepted(p, alive) => Jsep!Submitted(p) = Left(content, p)
BY LeftType DEF Jsep!Submitted, Left

\* A dispatch that is diverted leaves what it would have left had no buffer been shared:
\* the cells that are copied back are those that the kernel wrote.
LEMMA DivertedIs ==
    ASSUME NEW c \in Contents, NEW d \in Dispatch
    PROVE  /\ Jsep!Diverted(c, d) \in Contents
           /\ Jsep!Bound(d) \cup {d.dst[1]} \subseteq alive
                => Jsep!Diverted(c, d) = Jsep!Execute(c, d)
<1> DEFINE r == c[d.dst[1]]
           temp == Jsep!Kernel(c, d, Jsep!TempDst(c, d))
           back == [k \in Cells |-> IF k \in Jsep!CopiedBack(d) THEN temp[k] ELSE r[k]]
           one == Jsep!Value(c, d.srcs[1])
           two == Jsep!Value(c, d.srcs[2])
<1>1. d.dst[1] \in Jsep!Buffers /\ d.dst[2] \in Cells /\ r \in CellMap
  BY DispatchParts DEF Contents
<1>2. Jsep!TempDst(c, d) \in CellMap
  BY <1>1, JsepFacts DEF Jsep!TempDst, Jsep!Zeros, CellMap
<1>3. temp \in CellMap /\ Jsep!Kernel(c, d, r) \in CellMap
  BY <1>1, <1>2, KernelType
<1>4. one \in Values /\ (d.op # "RMS_NORM" => two \in Values)
  BY DispatchParts, ValueType
<1>5. back = Jsep!Kernel(c, d, r)
  <2>1. CASE d.op = "MUL_MAT"
    <3>1. temp = [Jsep!TempDst(c, d) EXCEPT ![d.dst[2]] = Mul[one, two]]
      BY <2>1 DEF Jsep!Kernel
    <3>2. Jsep!Kernel(c, d, r) = [r EXCEPT ![d.dst[2]] = Mul[one, two]]
      BY <2>1 DEF Jsep!Kernel
    <3>3. Jsep!CopiedBack(d) = {d.dst[2]}
      BY <2>1 DEF Jsep!CopiedBack
    <3> HIDE DEF r, temp, one, two
    <3>4. QED
      BY <1>1, <1>2, <3>1, <3>2, <3>3 DEF CellMap
  <2>2. CASE d.op = "RMS_NORM"
    <3>1. temp = [Jsep!TempDst(c, d) EXCEPT ![d.dst[2]] = Norm[one]]
      BY <2>2 DEF Jsep!Kernel
    <3>2. Jsep!Kernel(c, d, r) = [r EXCEPT ![d.dst[2]] = Norm[one]]
      BY <2>2 DEF Jsep!Kernel
    <3>3. Jsep!CopiedBack(d) = {d.dst[2]}
      BY <2>2 DEF Jsep!CopiedBack
    <3> HIDE DEF r, temp, one, two
    <3>4. QED
      BY <1>1, <1>2, <3>1, <3>2, <3>3 DEF CellMap
  <2>3. CASE d.op = "SET_ROWS"
    <3>1. Jsep!TempDst(c, d) = r /\ Jsep!CopiedBack(d) = Cells
      BY <2>3 DEF Jsep!TempDst, Jsep!CopiedBack
    <3>2. temp = Jsep!Kernel(c, d, r)
      BY <3>1
    <3> HIDE DEF r, temp
    <3>3. QED
      BY <1>3, <3>1, <3>2 DEF CellMap
  <2>4. QED
    BY <2>1, <2>2, <2>3, DispatchParts
<1>6. Jsep!Diverted(c, d) = IF Jsep!Bound(d) \cup {d.dst[1]} \subseteq alive
                            THEN [c EXCEPT ![d.dst[1]] = back] ELSE c
  BY DEF Jsep!Diverted
<1>7. Jsep!Execute(c, d) = [c EXCEPT ![d.dst[1]] = back]
  <2> HIDE DEF back
  <2>1. QED
    BY <1>5 DEF Jsep!Execute
<1> HIDE DEF back
<1>8. Jsep!Execute(c, d) \in Contents
  BY ExecuteType
<1>9. CASE Jsep!Bound(d) \cup {d.dst[1]} \subseteq alive
  <2>1. Jsep!Diverted(c, d) = [c EXCEPT ![d.dst[1]] = back]
    BY <1>6, <1>9
  <2>2. QED
    BY <1>7, <1>8, <2>1
<1>10. CASE ~(Jsep!Bound(d) \cup {d.dst[1]} \subseteq alive)
  <2>1. Jsep!Diverted(c, d) = c
    BY <1>6, <1>10
  <2>2. QED
    BY <1>10, <2>1
<1>11. QED
  BY <1>9, <1>10

\* Each dispatch is looked at by itself.
LEMMA AcceptedIs ==
    \A p, living : Jsep!Accepted(p, living) <=>
        \A i \in DOMAIN p :
            /\ Jsep!Bound(p[i]) \cup {p[i].dst[1]} \subseteq living
            /\ p[i].dst[1] \notin Jsep!Bound(p[i])
BY DispatchScope DEF Jsep!Accepted

LEMMA NothingAccepted == \A living : Jsep!Accepted(<<>>, living)
<1>1. DOMAIN <<>> = {}
  OBVIOUS
<1>2. QED
  BY <1>1, AcceptedIs

LEMMA AcceptedMore ==
    ASSUME NEW p \in Seq(Dispatch), NEW d \in Dispatch, NEW living, Jsep!Accepted(p, living),
           Jsep!Bound(d) \cup {d.dst[1]} \subseteq living, d.dst[1] \notin Jsep!Bound(d)
    PROVE  Jsep!Accepted(Append(p, d), living)
<1> DEFINE a == Append(p, d)
<1>1. /\ Len(p) \in Nat /\ DOMAIN p = 1..Len(p) /\ DOMAIN a = 1..(Len(p) + 1)
      /\ \A i \in 1..Len(p) : a[i] = p[i]
      /\ a[Len(p) + 1] = d
  OBVIOUS
<1> HIDE DEF a
<1>2. SUFFICES ASSUME NEW i \in DOMAIN a
      PROVE  /\ Jsep!Bound(a[i]) \cup {a[i].dst[1]} \subseteq living
             /\ a[i].dst[1] \notin Jsep!Bound(a[i])
  BY AcceptedIs DEF a
<1>3. CASE i \in 1..Len(p)
  BY <1>1, <1>3, AcceptedIs
<1>4. CASE i = Len(p) + 1
  BY <1>1, <1>4
<1>5. QED
  BY <1>1, <1>3, <1>4

LEMMA LeftNothing ==
    ASSUME NEW c \in Contents
    PROVE  Left(c, <<>>) = c
BY QueueNothing DEF Left

LEMMA LeftMore ==
    ASSUME NEW c \in Contents, NEW p \in Seq(Dispatch), NEW d \in Dispatch
    PROVE  Left(c, Append(p, d)) = Jsep!Execute(Left(c, p), d)
BY QueueAppend, AppendedBatch DEF Left

\* The dispatch of an operator that is run.
DispatchOf(shape, d, srcs) ==
    [op |-> shape.op, dst |-> <<handles[d], shape.dst>>,
     srcs |-> [i \in DOMAIN shape.srcs |-> <<handles[srcs[i]], shape.srcs[i]>>]]

LEMMA HandlesAlive ==
    ASSUME TablesInv
    PROVE  \A h \in DOMAIN handles : handles[h] \in alive /\ handles[h] \in Jsep!Buffers
<1>1. SUFFICES ASSUME NEW h \in DOMAIN handles
      PROVE handles[h] \in alive /\ handles[h] \in Jsep!Buffers
  OBVIOUS
<1>2. handles[h] \in alive
  BY DEF TablesInv, TablesRight, Jsep!Range
<1>3. nextHandle \in 1..(MaxHandle + 1) /\ handles[h] \in 1..(nextHandle - 1)
  BY <1>2 DEF TablesInv, TablesRight
<1>4. QED
  BY <1>2, <1>3, JsepFacts DEF Jsep!Buffers

LEMMA DispatchOfType ==
    ASSUME TablesInv, NEW shape \in Shapes, NEW d \in DOMAIN handles,
           NEW srcs \in [DOMAIN shape.srcs -> DOMAIN handles]
    PROVE  /\ DispatchOf(shape, d, srcs) \in Dispatch
           /\ Jsep!Bound(DispatchOf(shape, d, srcs)) \cup {handles[d]} \subseteq alive
<1> DEFINE x == DispatchOf(shape, d, srcs)
           n == Len(shape.srcs)
<1>1. /\ shape.op \in Jsep!Ops /\ shape.dst \in Cells /\ shape.srcs \in Seq(Cells)
      /\ n = Jsep!Arity[shape.op]
  BY JsepFacts
<1>2. n \in Nat /\ DOMAIN shape.srcs = 1..n /\ \A i \in 1..n : shape.srcs[i] \in Cells
  BY <1>1
<1>3. \A i \in 1..n : handles[srcs[i]] \in alive /\ handles[srcs[i]] \in Jsep!Buffers
  BY <1>2, HandlesAlive
<1>4. /\ x.op = shape.op /\ x.dst = <<handles[d], shape.dst>>
      /\ x.srcs = [i \in 1..n |-> <<handles[srcs[i]], shape.srcs[i]>>]
      /\ x = [op |-> x.op, dst |-> x.dst, srcs |-> x.srcs]
  BY <1>2 DEF DispatchOf
<1> HIDE DEF x, n
<1>5. x.srcs \in Seq(Jsep!Buffers \X Cells) /\ Len(x.srcs) = n
  <2>1. x.srcs \in [1..n -> Jsep!Buffers \X Cells]
    BY <1>2, <1>3, <1>4
  <2>2. QED
    BY <1>2, <2>1
<1>6. x.dst \in Jsep!Buffers \X Cells
  BY <1>1, <1>4, HandlesAlive
<1>7. x \in Dispatch
  BY <1>1, <1>4, <1>5, <1>6 DEF Dispatch, Jsep!Dispatches
<1>8. Jsep!Bound(x) \subseteq alive
  <2>1. \A i \in DOMAIN x.srcs : x.srcs[i][1] \in alive
    BY <1>3, <1>4
  <2>2. Jsep!Bound(x) \subseteq {x.srcs[i][1] : i \in DOMAIN x.srcs}
    BY <1>7, BoundIs
  <2>3. QED
    BY <2>1, <2>2
<1>9. QED
  BY <1>7, <1>8, HandlesAlive DEF x

\* Recorded or diverted, an operator leaves what its kernel makes of what was left before.
LEMMA RunEffect ==
    ASSUME TablesInv, BatchInv, NEW shape \in Shapes, NEW d \in DOMAIN handles,
           NEW srcs \in [DOMAIN shape.srcs -> DOMAIN handles], Jsep!jsepRunOp(shape, d, srcs)
    PROVE  /\ content' \in Contents /\ pending' \in Seq(Dispatch)
           /\ ~lost => /\ Jsep!Accepted(pending', alive)
                       /\ Left(content', pending')
                            = Jsep!Execute(Left(content, pending), DispatchOf(shape, d, srcs))
<1> DEFINE x == DispatchOf(shape, d, srcs)
           f == Left(content, pending)
<1>1. /\ content \in Contents /\ pending \in Seq(Dispatch)
      /\ ~lost => Jsep!Accepted(pending, alive)
  BY DEF BatchInv, BatchRight
<1>2. x \in Dispatch /\ Jsep!Bound(x) \cup {x.dst[1]} \subseteq alive
  <2>1. x.dst[1] = handles[d]
    BY DEF DispatchOf
  <2>2. QED
    BY <2>1, DispatchOfType
<1>3. IF Jsep!Aliases(x) THEN Jsep!Divert(x) ELSE Jsep!Record(x)
  BY Zenon DEF Jsep!jsepRunOp, DispatchOf
<1> HIDE DEF x
<1>4. f \in Contents /\ Jsep!Flushed \in Contents /\ (~lost => Jsep!Flushed = f)
  BY <1>1, LeftType, SubmittedIs DEF Jsep!Flushed
<1> HIDE DEF f
<1>5. CASE Jsep!Aliases(x)
  <2>1. content' = Jsep!Diverted(Jsep!Flushed, x) /\ pending' = <<>>
    BY <1>3, <1>5 DEF Jsep!Divert
  <2>2. content' \in Contents /\ content' = Jsep!Execute(Jsep!Flushed, x)
    BY <1>2, <1>4, <2>1, DivertedIs
  <2>3. Left(content', pending') = content' /\ Jsep!Accepted(pending', alive)
    BY <2>1, <2>2, LeftNothing, NothingAccepted
  <2>4. pending' \in Seq(Dispatch)
    BY <2>1
  <2>5. QED
    BY <1>4, <2>2, <2>3, <2>4 DEF x, f
<1>6. CASE ~Jsep!Aliases(x)
  <2> DEFINE a == Append(pending, x)
  <2>1. a \in Seq(Dispatch)
    BY <1>1, <1>2, AppendedBatch
  <2>2. ~lost => Jsep!Accepted(a, alive)
    <3>1. x.dst[1] \notin Jsep!Bound(x)
      BY <1>2, <1>6, BoundIs DEF Jsep!Aliases
    <3>2. QED
      BY <1>1, <1>2, <3>1, AcceptedMore
  <2>3. Left(content, a) = Jsep!Execute(f, x)
    BY <1>1, <1>2, LeftMore DEF f
  <2>4. Jsep!Submitted(a) \in Contents /\ (~lost => Jsep!Submitted(a) = Left(content, a))
    BY <1>1, <2>1, <2>2, SubmittedIs
  <2> HIDE DEF a
  <2>5. \/ content' = Jsep!Submitted(a) /\ pending' = <<>>
        \/ content' = content /\ pending' = a
    BY <1>3, <1>6 DEF Jsep!Record, a
  <2>6. CASE content' = Jsep!Submitted(a) /\ pending' = <<>>
    <3>1. Left(content', pending') = content' /\ Jsep!Accepted(pending', alive)
      BY <2>4, <2>6, LeftNothing, NothingAccepted
    <3>2. pending' \in Seq(Dispatch)
      BY <2>6
    <3>3. QED
      BY <2>3, <2>4, <2>6, <3>1, <3>2 DEF x, f
  <2>7. CASE content' = content /\ pending' = a
    BY <1>1, <2>1, <2>2, <2>3, <2>7 DEF x, f
  <2>8. QED
    BY <2>5, <2>6, <2>7
<1>7. QED
  BY <1>5, <1>6

\* A write.
LEMMA WriteEffect ==
    ASSUME BatchInv, TablesInv, NEW h, NEW cells \in SUBSET Cells, NEW v \in Values,
           Jsep!Write(h, cells, v)
    PROVE  /\ h \in DOMAIN handles /\ handles[h] \in Jsep!Buffers
           /\ content' \in Contents /\ pending' = <<>>
           /\ content' = [Jsep!Flushed EXCEPT ![handles[h]] =
                [c \in Cells |-> IF c \in cells THEN v ELSE Jsep!Flushed[handles[h]][c]]]
<1>1. Jsep!Flushed \in Contents
  BY SubmittedIs DEF BatchInv, BatchRight, Jsep!Flushed
<1>2. /\ h \in DOMAIN handles /\ pending' = <<>>
      /\ content' = [Jsep!Flushed EXCEPT ![handles[h]] =
                [c \in Cells |-> IF c \in cells THEN v ELSE Jsep!Flushed[handles[h]][c]]]
  BY DEF Jsep!Write
<1>3. handles[h] \in Jsep!Buffers
  BY <1>2, HandlesAlive
<1>4. [c \in Cells |-> IF c \in cells THEN v ELSE Jsep!Flushed[handles[h]][c]] \in CellMap
  BY <1>1, <1>3 DEF Contents, CellMap
<1>5. content' \in Contents
  BY <1>1, <1>2, <1>3, <1>4 DEF Contents
<1>6. QED
  BY <1>2, <1>3, <1>5

LEMMA FlushedIs ==
    ASSUME BatchInv
    PROVE  /\ Jsep!Flushed \in Contents
           /\ ~lost => Jsep!Flushed = Left(content, pending)
           /\ Left(Jsep!Flushed, <<>>) = Jsep!Flushed
           /\ <<>> \in Seq(Dispatch)
BY SubmittedIs, LeftNothing DEF BatchInv, BatchRight, Jsep!Flushed

LEMMA ReadsStep ==
    ASSUME BatchInv, TablesInv, NEW r \in Readers
    PROVE  /\ Jsep!ReadMapped(r) => reads' \in [Readers -> ReadState]
           /\ Jsep!HeapGrows => reads' \in [Readers -> ReadState]
           /\ \A h : Jsep!jsepRead(r, h) => reads' \in [Readers -> ReadState]
<1>1. reads \in [Readers -> ReadState]
  BY DEF BatchInv, BatchRight
<1>2. ASSUME Jsep!ReadMapped(r) PROVE reads' \in [Readers -> ReadState]
  BY <1>1, <1>2, JsepFacts DEF Jsep!ReadMapped, ReadState
<1>3. ASSUME Jsep!HeapGrows PROVE reads' \in [Readers -> ReadState]
  BY <1>1, <1>3 DEF Jsep!HeapGrows, ReadState
<1>4. ASSUME NEW h, Jsep!jsepRead(r, h) PROVE reads' \in [Readers -> ReadState]
  <2>1. PICK c \in Cells : reads' = [reads EXCEPT ![r] =
            [phase |-> "waiting", value |-> Jsep!Flushed[handles[h]][c], detached |-> FALSE]]
    BY <1>4 DEF Jsep!jsepRead
  <2>2. handles[h] \in Jsep!Buffers
    BY <1>4, HandlesAlive DEF Jsep!jsepRead
  <2>3. Jsep!Flushed[handles[h]][c] \in Values
    BY <2>2, FlushedIs DEF Contents, CellMap
  <2>4. QED
    BY <1>1, <2>1, <2>3 DEF ReadState
<1>5. QED
  BY <1>2, <1>3, <1>4

LEMMA AllocEffect ==
    ASSUME TablesInv, BatchInv, NEW size, Jsep!Alloc(size)
    PROVE  /\ content' \in Contents /\ pending' = pending /\ reads' = reads /\ lost' = lost
           /\ alive \subseteq alive'
           /\ LikeBut(content', content, nextHandle)
           /\ nextHandle \notin alive \/ content' = content
           /\ nextHandle \notin DOMAIN handles
           /\ DOMAIN handles' = DOMAIN handles \cup {nextHandle}
           /\ \A h \in DOMAIN handles : handles'[h] = handles[h]
<1>1. /\ nextHandle \in Jsep!Buffers /\ nextHandle \notin alive
      /\ nextHandle \notin DOMAIN handles
  BY JsepFacts DEF TablesInv, TablesRight, Jsep!Alloc, Jsep!Buffers
<1>2. content \in Contents
  BY DEF BatchInv, BatchRight
<1>3. pending' = pending /\ reads' = reads /\ lost' = lost
  BY DEF Jsep!Alloc
<1>4. PICK x : handles' = With(handles, nextHandle, x)
  BY DEF Jsep!Alloc, With
<1>5. /\ DOMAIN handles' = DOMAIN handles \cup {nextHandle}
      /\ \A h \in DOMAIN handles : handles'[h] = handles[h]
  <2> DEFINE w == With(handles, nextHandle, x)
  <2>1. DOMAIN w = DOMAIN handles \cup {nextHandle} /\ \A h \in DOMAIN handles : w[h] = handles[h]
    <3>1. nextHandle \notin DOMAIN handles
      BY <1>1
    <3>2. QED
      BY <3>1 DEF With
  <2> HIDE DEF w
  <2>2. handles' = w
    BY <1>4 DEF w
  <2>3. QED
    BY <2>1, <2>2
<1>6. \/ content' = content /\ alive' = alive
      \/ content' = [content EXCEPT ![nextHandle] = Jsep!Zeros] /\ alive' = alive \cup {nextHandle}
  BY DEF Jsep!Alloc, Jsep!NewBuffer
<1>7. Jsep!Zeros \in CellMap
  BY JsepFacts DEF Jsep!Zeros, CellMap
<1>8. content' \in Contents /\ LikeBut(content', content, nextHandle)
  BY <1>1, <1>2, <1>6, <1>7 DEF Contents, LikeBut
<1>9. QED
  BY <1>1, <1>3, <1>5, <1>6, <1>8

LEMMA FreeEffect ==
    ASSUME TablesInv, BatchInv, NEW h, Jsep!Free(h)
    PROVE  /\ content' = content /\ pending' = pending /\ reads' = reads
           /\ lost => lost'
           /\ ~lost' => Jsep!Accepted(pending, alive')
           /\ h \in DOMAIN handles /\ handles' = Less(handles, h)
<1> DEFINE b == handles[h]
<1>1. /\ content' = content /\ pending' = pending /\ reads' = reads
      /\ h \in DOMAIN handles /\ handles' = Less(handles, h)
  BY DEF Jsep!Free, Jsep!Without, Less
<1>2. \/ alive' = alive /\ lost' = lost
      \/ /\ alive' = alive \ {b}
         /\ lost' = (lost \/ \E i \in DOMAIN pending : Jsep!Uses(pending[i], b))
  BY DEF Jsep!Free
<1> HIDE DEF b
<1>3. lost => lost'
  BY <1>2
<1>4. ASSUME ~lost' PROVE Jsep!Accepted(pending, alive')
  <2>1. Jsep!Accepted(pending, alive)
    BY <1>3, <1>4 DEF BatchInv, BatchRight
  <2>2. CASE alive' = alive
    BY <2>1, <2>2
  <2>3. CASE alive' # alive
    <3>1. alive' = alive \ {b} /\ \A i \in DOMAIN pending : ~Jsep!Uses(pending[i], b)
      BY <1>2, <1>4, <2>3
    <3>2. \A i \in DOMAIN pending :
            b \notin Jsep!Bound(pending[i]) \cup {pending[i].dst[1]}
      BY <3>1 DEF Jsep!Uses
    <3>3. QED
      BY <2>1, <3>1, <3>2, AcceptedIs
  <2>4. QED
    BY <2>2, <2>3
<1>5. QED
  BY <1>1, <1>3, <1>4

LEMMA BatchInit ==
    ASSUME Jsep!Init
    PROVE  BatchInv
<1>1. /\ content = [b \in Jsep!Buffers |-> Jsep!Zeros] /\ pending = <<>>
      /\ reads = [r \in Readers |-> [phase |-> "idle", value |-> 0, detached |-> FALSE]]
  BY DEF Jsep!Init
<1>2. content \in Contents
  BY <1>1, JsepFacts DEF Contents, CellMap, Jsep!Zeros
<1>3. reads \in [Readers -> ReadState]
  BY <1>1, JsepFacts DEF ReadState
<1>4. pending \in Seq(Dispatch) /\ Jsep!Accepted(pending, alive)
  BY <1>1, NothingAccepted
<1>5. QED
  BY <1>2, <1>3, <1>4 DEF BatchInv, BatchRight

LEMMA BatchNext ==
    ASSUME TablesInv, BatchInv, [Jsep!Next]_Jsep!vars
    PROVE  BatchInv' /\ (lost => lost')
<1>1. /\ content \in Contents /\ pending \in Seq(Dispatch) /\ reads \in [Readers -> ReadState]
      /\ ~lost => Jsep!Accepted(pending, alive)
  BY DEF BatchInv, BatchRight
<1>2. ASSUME content' \in Contents, pending' = <<>>, reads' \in [Readers -> ReadState]
      PROVE  BatchInv'
  <2>1. pending' \in Seq(Dispatch) /\ Jsep!Accepted(pending', alive')
    BY <1>2, NothingAccepted
  <2>2. QED
    BY <1>2, <2>1 DEF BatchInv, BatchRight
<1>3. CASE UNCHANGED Jsep!vars
  BY <1>3 DEF Jsep!vars, BatchInv
<1>4. CASE Jsep!Install
  <2>1. content' = [b \in Jsep!Buffers |-> Jsep!Zeros] /\ pending' = <<>> /\ reads' = reads
        /\ lost' = lost
    BY <1>4 DEF Jsep!Install
  <2>2. content' \in Contents
    BY <2>1, JsepFacts DEF Contents, CellMap, Jsep!Zeros
  <2>3. QED
    BY <1>1, <1>2, <2>1, <2>2
<1>5. CASE Jsep!Destroy
  BY <1>1, <1>2, <1>5 DEF Jsep!Destroy
<1>6. CASE Jsep!jsepSync
  <2>1. content' = Jsep!Flushed /\ pending' = <<>> /\ reads' = reads /\ lost' = lost
    BY <1>6 DEF Jsep!jsepSync
  <2>2. QED
    BY <1>1, <1>2, <2>1, FlushedIs
<1>7. CASE Jsep!HeapGrows
  <2>1. PICK r \in Readers : TRUE
    BY <1>7 DEF Jsep!HeapGrows
  <2>2. reads' \in [Readers -> ReadState]
    BY <1>7, ReadsStep
  <2>3. content' = content /\ pending' = pending /\ alive' = alive /\ lost' = lost
    BY <1>7 DEF Jsep!HeapGrows
  <2>4. QED
    BY <1>1, <2>2, <2>3 DEF BatchInv, BatchRight
<1>8. ASSUME NEW size \in Sizes, Jsep!Alloc(size) PROVE BatchInv' /\ (lost => lost')
  <2>1. /\ content' \in Contents /\ pending' = pending /\ reads' = reads /\ lost' = lost
        /\ alive \subseteq alive'
    BY <1>8, AllocEffect
  <2>2. Jsep!Accepted(pending, alive) => Jsep!Accepted(pending, alive')
    BY <2>1, AcceptedIs
  <2>3. QED
    BY <1>1, <2>1, <2>2 DEF BatchInv, BatchRight
<1>9. ASSUME NEW h \in Jsep!Handles, Jsep!Free(h) PROVE BatchInv' /\ (lost => lost')
  BY <1>1, <1>9, FreeEffect DEF BatchInv, BatchRight
<1>10. ASSUME NEW h \in Jsep!Handles, NEW cells \in SUBSET Cells, NEW v \in Values,
              Jsep!Write(h, cells, v)
       PROVE  BatchInv' /\ (lost => lost')
  <2>1. content' \in Contents /\ pending' = <<>>
    BY <1>10, WriteEffect
  <2>2. reads' = reads /\ lost' = lost
    BY <1>10 DEF Jsep!Write
  <2>3. QED
    BY <1>1, <1>2, <2>1, <2>2
<1>11. ASSUME NEW r \in Readers, Jsep!ReadMapped(r) PROVE BatchInv' /\ (lost => lost')
  <2>1. reads' \in [Readers -> ReadState]
    BY <1>11, ReadsStep
  <2>2. content' = content /\ pending' = pending /\ alive' = alive /\ lost' = lost
    BY <1>11 DEF Jsep!ReadMapped
  <2>3. QED
    BY <1>1, <2>1, <2>2 DEF BatchInv, BatchRight
<1>12. ASSUME NEW r \in Readers, NEW h \in Jsep!Handles, Jsep!jsepRead(r, h)
       PROVE  BatchInv' /\ (lost => lost')
  <2>1. reads' \in [Readers -> ReadState]
    BY <1>12, ReadsStep
  <2>2. content' = Jsep!Flushed /\ pending' = <<>> /\ lost' = lost
    BY <1>12 DEF Jsep!jsepRead
  <2>3. QED
    BY <1>2, <2>1, <2>2, FlushedIs
<1>13. ASSUME NEW shape \in Shapes, NEW d \in DOMAIN handles,
              NEW srcs \in [DOMAIN shape.srcs -> DOMAIN handles], Jsep!jsepRunOp(shape, d, srcs)
       PROVE  BatchInv' /\ (lost => lost')
  <2>1. reads' = reads /\ lost' = lost /\ alive' = alive
    BY <1>13 DEF Jsep!jsepRunOp
  <2>2. /\ content' \in Contents /\ pending' \in Seq(Dispatch)
        /\ ~lost => Jsep!Accepted(pending', alive)
    BY <1>13, RunEffect
  <2>3. QED
    BY <1>1, <2>1, <2>2 DEF BatchInv, BatchRight
<1>14. lost => lost'
  <2>1. CASE Jsep!Install \/ Jsep!Destroy \/ Jsep!jsepSync \/ Jsep!HeapGrows
    BY <2>1 DEF Jsep!Install, Jsep!Destroy, Jsep!jsepSync, Jsep!HeapGrows
  <2>2. CASE UNCHANGED Jsep!vars
    BY <2>2 DEF Jsep!vars
  <2>3. QED
    BY <1>8, <1>9, <1>10, <1>11, <1>12, <1>13, <2>1, <2>2, JsepSteps
<1>15. QED
  BY <1>3, <1>4, <1>5, <1>6, <1>7, <1>8, <1>9, <1>10, <1>11, <1>12, <1>13, <1>14, JsepSteps

(***************************************************************************)
(* The memory that the callers see                                         *)
(***************************************************************************)

MemoryOf(hs, c) == [h \in DOMAIN hs |-> c[hs[h]]]

LEMMA MemoryIs ==
    ASSUME BatchInv, ~lost
    PROVE  Jsep!Memory = MemoryOf(handles, Left(content, pending))
BY DEF BatchInv, BatchRight, Jsep!Memory, Jsep!Submitted, MemoryOf, Left

LEMMA MemoryThen ==
    ASSUME BatchInv', ~lost'
    PROVE  Jsep!Memory' = MemoryOf(handles', Left(content', pending'))
BY DEF BatchInv, BatchRight, Jsep!Memory, Jsep!Submitted, MemoryOf, Left

\* A buffer changes, and with it the memory of the one handle that it has.
LEMMA MemoryChanged ==
    ASSUME NEW hs, OneToOne(hs), NEW h \in DOMAIN hs, NEW c, NEW e, NEW x,
           \A g \in DOMAIN hs : hs[g] \in Jsep!Buffers,
           \A b \in Jsep!Buffers : e[b] = IF b = hs[h] THEN x ELSE c[b]
    PROVE  MemoryOf(hs, e) = [MemoryOf(hs, c) EXCEPT ![h] = x]
<1>1. \A g \in DOMAIN hs : e[hs[g]] = IF g = h THEN x ELSE c[hs[g]]
  BY DEF OneToOne
<1>2. QED
  BY <1>1 DEF MemoryOf

\* The state of a step that breaks nothing, as the promise sees it.
Shown ==
    /\ TablesInv /\ BatchInv /\ BatchInv'
    /\ lost = FALSE /\ lost' = FALSE

LEMMA ShownIs ==
    ASSUME Shown
    PROVE  /\ Jsep!Memory = MemoryOf(handles, Left(content, pending))
           /\ Jsep!Memory' = MemoryOf(handles', Left(content', pending'))
           /\ Sequential!Live = DOMAIN handles
           /\ \A h \in DOMAIN handles : Jsep!Memory[h] = Left(content, pending)[handles[h]]
           /\ \A h \in DOMAIN handles : handles[h] \in alive /\ handles[h] \in Jsep!Buffers
           /\ OneToOne(handles)
           /\ Left(content, pending) \in Contents
           /\ Jsep!Flushed = Left(content, pending)
           /\ pending \in Seq(Dispatch) /\ content \in Contents
           /\ reads \in [Readers -> ReadState]
<1>1. TablesInv /\ BatchInv /\ BatchInv' /\ ~lost /\ ~lost'
  BY DEF Shown
<1>2. /\ Jsep!Memory = MemoryOf(handles, Left(content, pending))
      /\ Jsep!Memory' = MemoryOf(handles', Left(content', pending'))
  BY <1>1, MemoryIs, MemoryThen
<1>3. /\ Sequential!Live = DOMAIN handles
      /\ \A h \in DOMAIN handles : Jsep!Memory[h] = Left(content, pending)[handles[h]]
  BY <1>2 DEF Sequential!Live, MemoryOf
<1>4. OneToOne(handles)
  BY <1>1 DEF TablesInv, TablesRight
<1>5. content \in Contents /\ pending \in Seq(Dispatch) /\ reads \in [Readers -> ReadState]
  BY <1>1 DEF BatchInv, BatchRight
<1>6. QED
  BY <1>1, <1>2, <1>3, <1>4, <1>5, HandlesAlive, LeftType, FlushedIs

LEMMA AnswersKept ==
    ASSUME reads' = reads
    PROVE  Jsep!Answers' = Jsep!Answers
BY DEF Jsep!Answers

LEMMA ShowForget ==
    ASSUME Shown, Jsep!Install \/ Jsep!Destroy
    PROVE  Sequential!Next
<1>1. handles' = <<>> /\ reads' = reads /\ runOps' = runOps /\ lost' = lost
  BY DEF Jsep!Install, Jsep!Destroy
<1>2. Jsep!Memory' = <<>>
  <2>1. Jsep!Memory' = MemoryOf(handles', Left(content', pending'))
    BY ShownIs
  <2>2. \A c : MemoryOf(<<>>, c) = <<>>
    BY DEF MemoryOf
  <2>3. QED
    BY <1>1, <2>1, <2>2
<1>3. Jsep!Answers' = Jsep!Answers
  BY <1>1, AnswersKept
<1>4. QED
  BY <1>1, <1>2, <1>3 DEF Shown, Sequential!Next, Sequential!Forget

LEMMA ShowAlloc ==
    ASSUME Shown, NEW size \in Sizes, Jsep!Alloc(size)
    PROVE  Sequential!Next
<1> DEFINE old == Left(content, pending)
           new == Left(content', pending')
<1>1. /\ content' \in Contents /\ pending' = pending /\ reads' = reads /\ lost' = lost
      /\ LikeBut(content', content, nextHandle)
      /\ nextHandle \notin alive \/ content' = content
      /\ nextHandle \notin DOMAIN handles
      /\ DOMAIN handles' = DOMAIN handles \cup {nextHandle}
      /\ \A h \in DOMAIN handles : handles'[h] = handles[h]
  BY AllocEffect DEF Shown
<1>2. runOps' = runOps
  BY DEF Jsep!Alloc
<1>3. Jsep!Accepted(pending, alive)
  BY DEF Shown, BatchInv, BatchRight
<1>4. \A h \in DOMAIN handles : new[handles[h]] = old[handles[h]]
  <2>1. CASE content' = content
    BY <1>1, <2>1
  <2>2. CASE nextHandle \notin alive
    <3>1. \A k \in DOMAIN pending : ~Jsep!Uses(pending[k], nextHandle)
      BY <1>3, <2>2, AcceptedIs DEF Jsep!Uses
    <3>2. LikeBut(new, old, nextHandle)
      <4>1. pending \in Seq(Dispatch) /\ content \in Contents
        BY ShownIs
      <4>2. QED
        BY <1>1, <3>1, <4>1, QueueElsewhere DEF Left
    <3>3. \A h \in DOMAIN handles : handles[h] \in Jsep!Buffers \ {nextHandle}
      BY <2>2, ShownIs
    <3> HIDE DEF new, old
    <3>4. QED
      BY <3>2, <3>3 DEF LikeBut
  <2>3. QED
    BY <1>1, <2>1, <2>2
<1> HIDE DEF new, old
<1>5. /\ Jsep!Memory = MemoryOf(handles, old) /\ Jsep!Memory' = MemoryOf(handles', new)
      /\ Sequential!Live = DOMAIN handles
  BY ShownIs DEF old, new
<1>6. Sequential!Grow
  <2>1. DOMAIN Jsep!Memory' = Sequential!Live \cup {nextHandle}
    BY <1>1, <1>5 DEF MemoryOf
  <2>2. \A g \in Sequential!Live : Jsep!Memory'[g] = Jsep!Memory[g]
    BY <1>1, <1>4, <1>5 DEF MemoryOf
  <2>3. nextHandle \in DOMAIN Jsep!Memory' \ Sequential!Live
    BY <1>1, <1>5, <2>1
  <2>4. QED
    BY <2>1, <2>2, <2>3 DEF Sequential!Grow
<1>7. Jsep!Answers' = Jsep!Answers
  BY <1>1, AnswersKept
<1>8. QED
  BY <1>1, <1>2, <1>6, <1>7 DEF Shown, Sequential!Next

LEMMA ShowFree ==
    ASSUME Shown, NEW h, Jsep!Free(h)
    PROVE  Sequential!Next
<1>1. /\ content' = content /\ pending' = pending /\ reads' = reads
      /\ h \in DOMAIN handles /\ handles' = Less(handles, h)
  BY FreeEffect DEF Shown
<1>2. runOps' = runOps /\ lost' = lost
  BY DEF Jsep!Free, Shown
<1> DEFINE old == Left(content, pending)
<1>3. /\ Jsep!Memory = MemoryOf(handles, old) /\ Jsep!Memory' = MemoryOf(handles', old)
      /\ Sequential!Live = DOMAIN handles
  BY <1>1, ShownIs
<1> HIDE DEF old
<1>4. Jsep!Memory' = [g \in Sequential!Live \ {h} |-> Jsep!Memory[g]]
  <2>1. /\ DOMAIN handles' = DOMAIN handles \ {h}
        /\ \A g \in DOMAIN handles \ {h} : handles'[g] = handles[g]
    BY <1>1 DEF Less
  <2>2. QED
    BY <1>3, <2>1 DEF MemoryOf
<1>5. Sequential!Free
  BY <1>1, <1>3, <1>4 DEF Sequential!Free
<1>6. Jsep!Answers' = Jsep!Answers
  BY <1>1, AnswersKept
<1>7. QED
  BY <1>2, <1>5, <1>6 DEF Shown, Sequential!Next

LEMMA ShowWrite ==
    ASSUME Shown, NEW h, NEW cells \in SUBSET Cells, NEW v \in Values, Jsep!Write(h, cells, v)
    PROVE  Sequential!Next
<1> DEFINE old == Left(content, pending)
           new == Left(content', pending')
           x == [c \in Cells |-> IF c \in cells THEN v ELSE old[handles[h]][c]]
<1>1. /\ h \in DOMAIN handles /\ handles[h] \in Jsep!Buffers
      /\ content' \in Contents /\ pending' = <<>>
      /\ content' = [old EXCEPT ![handles[h]] = x]
  <2>1. /\ h \in DOMAIN handles /\ handles[h] \in Jsep!Buffers
        /\ content' \in Contents /\ pending' = <<>>
        /\ content' = [Jsep!Flushed EXCEPT ![handles[h]] =
                [c \in Cells |-> IF c \in cells THEN v ELSE Jsep!Flushed[handles[h]][c]]]
    BY WriteEffect DEF Shown
  <2>2. Jsep!Flushed = old
    BY ShownIs
  <2>3. QED
    BY <2>1, <2>2
<1>2. reads' = reads /\ runOps' = runOps /\ lost' = lost /\ handles' = handles
  BY DEF Jsep!Write
<1>3. new = content'
  BY <1>1, LeftNothing
<1>4. \A h2 \in DOMAIN handles : handles[h2] \in Jsep!Buffers
  BY ShownIs
<1>5. /\ Jsep!Memory = MemoryOf(handles, old) /\ Jsep!Memory' = MemoryOf(handles, new)
      /\ Sequential!Live = DOMAIN handles /\ OneToOne(handles)
      /\ Jsep!Memory[h] = old[handles[h]] /\ old \in Contents
  BY <1>1, <1>2, ShownIs
<1>6. x = [c \in Cells |-> IF c \in cells THEN v ELSE Jsep!Memory[h][c]]
  BY <1>5
<1> HIDE DEF old, new, x
<1>7. \A b \in Jsep!Buffers : new[b] = IF b = handles[h] THEN x ELSE old[b]
  BY <1>1, <1>3, <1>5 DEF Contents
<1>8. Jsep!Memory' = [Jsep!Memory EXCEPT ![h] = x]
  <2>1. MemoryOf(handles, new) = [MemoryOf(handles, old) EXCEPT ![h] = x]
    <3>1. \A g \in DOMAIN handles :
            new[handles[g]] = IF g = h THEN x ELSE old[handles[g]]
      BY <1>1, <1>4, <1>5, <1>7 DEF OneToOne
    <3>2. QED
      BY <1>1, <3>1 DEF MemoryOf
  <2>2. QED
    BY <1>5, <2>1
<1>9. Sequential!Write
  <2>1. Sequential!Become(h, x)
    BY <1>8 DEF Sequential!Become
  <2>2. h \in Sequential!Live
    BY <1>1, <1>5
  <2>3. QED
    BY <1>6, <2>1, <2>2 DEF Sequential!Write
<1>10. Jsep!Answers' = Jsep!Answers
  BY <1>2, AnswersKept
<1>11. QED
  BY <1>2, <1>9, <1>10 DEF Shown, Sequential!Next

\* A flush is not seen.
LEMMA FlushHidden ==
    ASSUME Shown, content' = Jsep!Flushed, pending' = <<>>, handles' = handles
    PROVE  Jsep!Memory' = Jsep!Memory
<1>1. Left(content', pending') = Left(content, pending)
  BY ShownIs, LeftNothing
<1>2. QED
  BY <1>1, ShownIs

LEMMA ShowRead ==
    ASSUME Shown, NEW r \in Readers, NEW h, Jsep!jsepRead(r, h)
    PROVE  Sequential!Next
<1>1. PICK c \in Cells :
        reads' = [reads EXCEPT ![r] = [phase |-> "waiting",
                                       value |-> Jsep!Flushed[handles[h]][c], detached |-> FALSE]]
  BY DEF Jsep!jsepRead
<1>2. /\ h \in DOMAIN handles /\ reads[r].phase # "waiting" /\ runOps' = runOps /\ lost' = lost
      /\ content' = Jsep!Flushed /\ pending' = <<>> /\ handles' = handles
  BY DEF Jsep!jsepRead
<1>3. Jsep!Memory' = Jsep!Memory
  BY <1>2, FlushHidden
<1> DEFINE t == <<h, c>>
<1>4. t \in Sequential!Tensors /\ Sequential!At(t) = Jsep!Flushed[handles[h]][c]
  <2>1. h \in Sequential!Live /\ Jsep!Memory[h] = Jsep!Flushed[handles[h]]
    BY <1>2, ShownIs
  <2>2. QED
    BY <2>1 DEF Sequential!Tensors, Sequential!At
<1>5. Jsep!Answers[r].phase # "waiting"
  BY <1>2 DEF Jsep!Answers
<1>6. Jsep!Answers' = [Jsep!Answers EXCEPT ![r] =
                            [phase |-> "waiting", value |-> Sequential!At(t)]]
  <2>1. reads \in [Readers -> ReadState]
    BY ShownIs
  <2>2. QED
    BY <1>1, <1>4, <2>1 DEF Jsep!Answers
<1> HIDE DEF t
<1>7. Sequential!BeginRead
  BY <1>4, <1>5, <1>6 DEF Sequential!BeginRead
<1>8. QED
  BY <1>2, <1>3, <1>7 DEF Shown, Sequential!Next

LEMMA ShowMapped ==
    ASSUME Shown, NEW r \in Readers, Jsep!ReadMapped(r)
    PROVE  Sequential!Next
<1> DEFINE ph == IF reads[r].detached THEN "rejected" ELSE "idle"
<1>1. /\ reads[r].phase = "waiting" /\ runOps' = runOps /\ lost' = lost
      /\ reads' = [reads EXCEPT ![r] = [phase |-> ph, value |-> 0, detached |-> FALSE]]
      /\ content' = content /\ pending' = pending /\ handles' = handles
  BY DEF Jsep!ReadMapped
<1>2. ph \in {"idle", "rejected"}
  OBVIOUS
<1> HIDE DEF ph
<1>3. Jsep!Memory' = Jsep!Memory
  BY <1>1, ShownIs
<1>4. Jsep!Answers[r].phase = "waiting"
  BY <1>1 DEF Jsep!Answers
<1>5. Jsep!Answers' = [Jsep!Answers EXCEPT ![r] = [phase |-> ph, value |-> 0]]
  <2>1. reads \in [Readers -> ReadState]
    BY ShownIs
  <2>2. QED
    BY <1>1, <2>1 DEF Jsep!Answers
<1>6. Sequential!EndRead
  BY <1>2, <1>4, <1>5 DEF Sequential!EndRead
<1>7. QED
  BY <1>1, <1>3, <1>6 DEF Shown, Sequential!Next

LEMMA ShowRun ==
    ASSUME Shown, NEW shape \in Shapes, NEW d \in DOMAIN handles,
           NEW srcs \in [DOMAIN shape.srcs -> DOMAIN handles], Jsep!jsepRunOp(shape, d, srcs)
    PROVE  Sequential!Next
<1> DEFINE old == Left(content, pending)
           new == Left(content', pending')
           x == DispatchOf(shape, d, srcs)
           k == Jsep!Kernel(old, x, old[handles[d]])
           t == <<d, shape.dst>>
           one == <<srcs[1], shape.srcs[1]>>
           two == <<srcs[2], shape.srcs[2]>>
<1>1. reads' = reads /\ runOps' = 1 - runOps /\ lost' = lost /\ handles' = handles
  BY DEF Jsep!jsepRunOp
<1>2. /\ shape.op \in {"MUL_MAT", "RMS_NORM", "SET_ROWS"} /\ shape.dst \in Cells
      /\ shape.srcs \in Seq(Cells) /\ Len(shape.srcs) = Jsep!Arity[shape.op]
  BY JsepFacts DEF Jsep!Ops
<1>3. /\ Len(shape.srcs) \in Nat /\ DOMAIN shape.srcs = 1..Len(shape.srcs)
      /\ Len(shape.srcs) >= 1 /\ (shape.op # "RMS_NORM" => Len(shape.srcs) >= 2)
  BY <1>2, ArityIs
<1>4. /\ 1 \in DOMAIN shape.srcs
      /\ shape.op # "RMS_NORM" => 2 \in DOMAIN shape.srcs
  BY <1>3
<1>5. /\ srcs[1] \in DOMAIN handles /\ shape.srcs[1] \in Cells
      /\ shape.op # "RMS_NORM" => srcs[2] \in DOMAIN handles /\ shape.srcs[2] \in Cells
  BY <1>2, <1>4
<1>6. /\ Jsep!Memory = MemoryOf(handles, old) /\ Jsep!Memory' = MemoryOf(handles, new)
      /\ Sequential!Live = DOMAIN handles /\ OneToOne(handles)
      /\ \A h \in DOMAIN handles : Jsep!Memory[h] = old[handles[h]]
      /\ \A h \in DOMAIN handles : handles[h] \in Jsep!Buffers
      /\ old \in Contents
  BY <1>1, ShownIs
<1>7. /\ x.op = shape.op /\ x.dst = <<handles[d], shape.dst>>
      /\ x.srcs[1] = <<handles[srcs[1]], shape.srcs[1]>>
      /\ shape.op # "RMS_NORM" => x.srcs[2] = <<handles[srcs[2]], shape.srcs[2]>>
  BY <1>4 DEF DispatchOf
<1>8. /\ x \in Dispatch
      /\ new = Jsep!Execute(old, x)
  BY RunEffect, DispatchOfType DEF Shown
<1> HIDE DEF old, new, x
<1>9. Jsep!Memory' = [Jsep!Memory EXCEPT ![d] = k]
  <2>1. x.dst[1] = handles[d]
    BY <1>7
  <2>2. \A b \in Jsep!Buffers : new[b] = IF b = handles[d] THEN k ELSE old[b]
    BY <1>6, <1>8, <2>1, ExecuteType
  <2> HIDE DEF k
  <2>3. QED
    BY <1>6, <2>2, MemoryChanged
<1>10. /\ t \in Sequential!Tensors /\ t[1] = d /\ t[2] = shape.dst
       /\ one \in Sequential!Tensors
       /\ shape.op # "RMS_NORM" => two \in Sequential!Tensors
  BY <1>2, <1>5, <1>6 DEF Sequential!Tensors
<1>11. Jsep!Value(old, x.srcs[1]) = Sequential!At(one)
  BY <1>5, <1>6, <1>7 DEF Jsep!Value, Sequential!At
<1>12. shape.op # "RMS_NORM" => Jsep!Value(old, x.srcs[2]) = Sequential!At(two)
  BY <1>5, <1>6, <1>7 DEF Jsep!Value, Sequential!At
<1>13. x.dst[2] = shape.dst /\ Jsep!Memory[d] = old[handles[d]]
  BY <1>6, <1>7
<1> HIDE DEF t, one, two
<1>14. Sequential!RunOp
  <2>1. CASE shape.op = "MUL_MAT"
    <3>1. k = [Jsep!Memory[t[1]] EXCEPT ![t[2]] = Mul[Sequential!At(one), Sequential!At(two)]]
      BY <1>7, <1>10, <1>11, <1>12, <1>13, <2>1 DEF Jsep!Kernel
    <3> HIDE DEF k
    <3>2. Sequential!Become(t[1], k)
      BY <1>9, <1>10 DEF Sequential!Become
    <3>3. QED
      BY <1>1, <1>10, <2>1, <3>1, <3>2 DEF Sequential!RunOp
  <2>2. CASE shape.op = "RMS_NORM"
    <3>1. k = [Jsep!Memory[t[1]] EXCEPT ![t[2]] = Norm[Sequential!At(one)]]
      BY <1>7, <1>10, <1>11, <1>13, <2>2 DEF Jsep!Kernel
    <3> HIDE DEF k
    <3>2. Sequential!Become(t[1], k)
      BY <1>9, <1>10 DEF Sequential!Become
    <3>3. QED
      BY <1>1, <1>10, <3>1, <3>2 DEF Sequential!RunOp
  <2>3. CASE shape.op = "SET_ROWS"
    <3>1. k = [Jsep!Memory[t[1]] EXCEPT ![Row[Sequential!At(two)]] = Sequential!At(one)]
      BY <1>7, <1>10, <1>11, <1>12, <1>13, <2>3 DEF Jsep!Kernel
    <3> HIDE DEF k
    <3>2. Sequential!Become(t[1], k)
      BY <1>9, <1>10 DEF Sequential!Become
    <3>3. QED
      BY <1>1, <1>10, <2>3, <3>1, <3>2 DEF Sequential!RunOp
  <2>4. QED
    BY <1>2, <2>1, <2>2, <2>3
<1>15. Jsep!Answers' = Jsep!Answers
  BY <1>1, AnswersKept
<1>16. QED
  BY <1>1, <1>14, <1>15 DEF Shown, Sequential!Next

LEMMA ShowNothing ==
    ASSUME Shown, Jsep!jsepSync \/ Jsep!HeapGrows \/ UNCHANGED Jsep!vars
    PROVE  UNCHANGED Sequential!vars
<1>1. CASE Jsep!jsepSync
  <2>1. /\ content' = Jsep!Flushed /\ pending' = <<>> /\ handles' = handles
        /\ reads' = reads /\ runOps' = runOps /\ lost' = lost
    BY <1>1 DEF Jsep!jsepSync
  <2>2. QED
    BY <2>1, FlushHidden, AnswersKept DEF Sequential!vars
<1>2. CASE Jsep!HeapGrows
  <2>1. /\ content' = content /\ pending' = pending /\ handles' = handles
        /\ runOps' = runOps /\ lost' = lost
        /\ reads' = [r \in Readers |->
                        [reads[r] EXCEPT !.detached = (reads[r].phase = "waiting")]]
    BY <1>2 DEF Jsep!HeapGrows
  <2>2. Jsep!Answers' = Jsep!Answers
    <3>1. reads \in [Readers -> ReadState]
      BY ShownIs
    <3>2. \A r \in Readers : reads'[r].phase = reads[r].phase /\ reads'[r].value = reads[r].value
      BY <2>1, <3>1 DEF ReadState
    <3>3. QED
      BY <3>2 DEF Jsep!Answers
  <2>3. Jsep!Memory' = Jsep!Memory
    BY <2>1, ShownIs
  <2>4. QED
    BY <2>1, <2>2, <2>3 DEF Sequential!vars
<1>3. CASE UNCHANGED Jsep!vars
  <2>1. /\ content' = content /\ pending' = pending /\ handles' = handles
        /\ runOps' = runOps /\ lost' = lost /\ reads' = reads
    BY <1>3 DEF Jsep!vars
  <2>2. QED
    BY <2>1, ShownIs, AnswersKept DEF Sequential!vars
<1>4. QED
  BY <1>1, <1>2, <1>3

\* A step of the runtime is one of the memory, or is not seen.
LEMMA JsepStep ==
    ASSUME TablesInv, BatchInv, [Jsep!Next]_Jsep!vars
    PROVE  [Sequential!Next]_Sequential!vars
<1>1. BatchInv' /\ (lost => lost')
  BY BatchNext
<1>2. CASE lost'
  BY <1>2 DEF Sequential!Next
<1>3. CASE ~lost'
  <2>1. Shown
    BY <1>1, <1>3 DEF Shown
  <2>2. CASE Jsep!jsepSync \/ Jsep!HeapGrows \/ UNCHANGED Jsep!vars
    BY <2>1, <2>2, ShowNothing
  <2>3. CASE Jsep!Install \/ Jsep!Destroy
    BY <2>1, <2>3, ShowForget
  <2>4. ASSUME NEW size \in Sizes, Jsep!Alloc(size) PROVE Sequential!Next
    BY <2>1, <2>4, ShowAlloc
  <2>5. ASSUME NEW h \in Jsep!Handles, Jsep!Free(h) PROVE Sequential!Next
    BY <2>1, <2>5, ShowFree
  <2>6. ASSUME NEW h \in Jsep!Handles, NEW cells \in SUBSET Cells, NEW v \in Values,
               Jsep!Write(h, cells, v)
        PROVE  Sequential!Next
    BY <2>1, <2>6, ShowWrite
  <2>7. ASSUME NEW r \in Readers, Jsep!ReadMapped(r) PROVE Sequential!Next
    BY <2>1, <2>7, ShowMapped
  <2>8. ASSUME NEW r \in Readers, NEW h \in Jsep!Handles, Jsep!jsepRead(r, h)
        PROVE  Sequential!Next
    BY <2>1, <2>8, ShowRead
  <2>9. ASSUME NEW shape \in Shapes, NEW d \in DOMAIN handles,
               NEW srcs \in [DOMAIN shape.srcs -> DOMAIN handles],
               Jsep!jsepRunOp(shape, d, srcs)
        PROVE  Sequential!Next
    BY <2>1, <2>9, ShowRun
  <2>10. QED
    BY <2>2, <2>3, <2>4, <2>5, <2>6, <2>7, <2>8, <2>9, JsepSteps
<1>4. QED
  BY <1>2, <1>3

LEMMA JsepStart ==
    ASSUME Jsep!Init
    PROVE  Sequential!Init
<1>1. /\ handles = <<>> /\ runOps = 0 /\ lost = FALSE
      /\ reads = [r \in Readers |-> [phase |-> "idle", value |-> 0, detached |-> FALSE]]
  BY DEF Jsep!Init
<1>2. Jsep!Memory = <<>>
  BY <1>1 DEF Jsep!Memory
<1>3. Jsep!Answers = [r \in Readers |-> [phase |-> "idle", value |-> 0]]
  BY <1>1 DEF Jsep!Answers
<1>4. QED
  BY <1>1, <1>2, <1>3 DEF Sequential!Init

\* Every buffer that has not been destroyed has one owner, and handles are memory that the
\* calls use in the order in which they are made (HandlesAreMemory), for any number of
\* buffers, cells and readers, any kernels and any length of the batch.
THEOREM HandlesHold == Jsep!Spec => HandlesAreMemory
<1>1. Jsep!Init => TablesInv /\ BatchInv /\ Sequential!Init
  BY TablesInit, BatchInit, JsepStart
<1>2. TablesInv /\ BatchInv /\ [Jsep!Next]_Jsep!vars => TablesInv' /\ BatchInv'
  BY TablesNext, BatchNext
<1>3. TablesInv => Jsep!OneOwner
  BY TablesGiveOwners
<1>4. TablesInv /\ BatchInv /\ [Jsep!Next]_Jsep!vars => [Sequential!Next]_Sequential!vars
  BY JsepStep
<1>5. QED
  BY <1>1, <1>2, <1>3, <1>4, PTL
     DEF Jsep!Spec, HandlesAreMemory, ImplementsSequential, Sequential!Spec

(***************************************************************************)
(* Types                                                                   *)
(***************************************************************************)

\* What neither the tables nor the batch say.
FlagsInv ==
    /\ installed \in BOOLEAN /\ runOps \in {0, 1} /\ lost \in BOOLEAN
    /\ Len(pending) < MaxDispatch

LEMMA FlagsNext ==
    ASSUME TablesInv, BatchInv, FlagsInv, [Jsep!Next]_Jsep!vars
    PROVE  FlagsInv'
<1>1. /\ installed \in BOOLEAN /\ runOps \in {0, 1} /\ lost \in BOOLEAN
      /\ Len(pending) < MaxDispatch /\ Len(<<>>) = 0 /\ 0 < MaxDispatch
  BY JsepFacts DEF FlagsInv
<1>2. CASE UNCHANGED Jsep!vars
  BY <1>1, <1>2 DEF Jsep!vars, FlagsInv
<1>3. CASE Jsep!Install \/ Jsep!Destroy \/ Jsep!jsepSync \/ Jsep!HeapGrows
  BY <1>1, <1>3 DEF Jsep!Install, Jsep!Destroy, Jsep!jsepSync, Jsep!HeapGrows, FlagsInv
<1>4. ASSUME NEW size \in Sizes, Jsep!Alloc(size) PROVE FlagsInv'
  BY <1>1, <1>4 DEF Jsep!Alloc, FlagsInv
<1>5. ASSUME NEW h \in Jsep!Handles, Jsep!Free(h) PROVE FlagsInv'
  <2>1. installed' = installed /\ runOps' = runOps /\ pending' = pending
    BY <1>5 DEF Jsep!Free
  <2>2. lost' \in BOOLEAN
    BY <1>1, <1>5 DEF Jsep!Free
  <2>3. QED
    BY <1>1, <2>1, <2>2 DEF FlagsInv
<1>6. ASSUME NEW h \in Jsep!Handles, NEW cells \in SUBSET Cells, NEW v \in Values,
             Jsep!Write(h, cells, v)
      PROVE  FlagsInv'
  BY <1>1, <1>6 DEF Jsep!Write, FlagsInv
<1>7. ASSUME NEW r \in Readers, Jsep!ReadMapped(r) PROVE FlagsInv'
  BY <1>1, <1>7 DEF Jsep!ReadMapped, FlagsInv
<1>8. ASSUME NEW r \in Readers, NEW h \in Jsep!Handles, Jsep!jsepRead(r, h) PROVE FlagsInv'
  BY <1>1, <1>8 DEF Jsep!jsepRead, FlagsInv
<1>9. ASSUME NEW shape \in Shapes, NEW d \in DOMAIN handles,
             NEW srcs \in [DOMAIN shape.srcs -> DOMAIN handles], Jsep!jsepRunOp(shape, d, srcs)
      PROVE  FlagsInv'
  <2> DEFINE x == DispatchOf(shape, d, srcs)
  <2>1. /\ installed' = installed /\ lost' = lost /\ runOps' = 1 - runOps
        /\ IF Jsep!Aliases(x) THEN Jsep!Divert(x) ELSE Jsep!Record(x)
    BY <1>9, Zenon DEF Jsep!jsepRunOp, DispatchOf
  <2>2. pending \in Seq(Dispatch) /\ x \in Dispatch
    BY DispatchOfType DEF BatchInv, BatchRight
  <2> HIDE DEF x
  <2>3. Len(Append(pending, x)) = Len(pending) + 1 /\ Len(pending) \in Nat
    BY <2>2
  <2>4. \/ pending' = <<>>
        \/ pending' = Append(pending, x) /\ ~(Len(pending) + 1 >= MaxDispatch)
    BY <2>1 DEF Jsep!Divert, Jsep!Record
  <2>5. Len(pending') < MaxDispatch
    BY <1>1, <2>3, <2>4, JsepFacts
  <2>6. QED
    BY <1>1, <2>1, <2>5 DEF FlagsInv
<1>10. QED
  BY <1>2, <1>3, <1>4, <1>5, <1>6, <1>7, <1>8, <1>9, JsepSteps

LEMMA TypesGiven ==
    ASSUME TablesInv, BatchInv, FlagsInv
    PROVE  Jsep!TypeOK
<1>1. /\ DOMAIN handles \subseteq 1..(nextHandle - 1)
      /\ nextHandle \in 1..(MaxHandle + 1)
      /\ alive \subseteq 1..(nextHandle - 1)
      /\ bucket \in [Jsep!Buffers -> Buckets \cup {Oversized}]
      /\ freeBuckets \in [Buckets -> Seq(Jsep!Buffers)]
  BY DEF TablesInv, TablesRight
<1>2. alive \subseteq Jsep!Buffers
  BY <1>1, JsepFacts DEF Jsep!Buffers
<1>3. \A h \in DOMAIN handles : handles[h] \in alive
  BY HandlesAlive
<1>4. content \in [Jsep!Buffers -> [Cells -> Values]]
  BY DEF BatchInv, BatchRight, Contents, CellMap
<1>5. pending \in Seq(Jsep!Dispatches)
  <2>1. pending \in Seq(Dispatch) /\ Dispatch \subseteq Jsep!Dispatches
    BY DEF BatchInv, BatchRight, Dispatch
  <2>2. QED
    BY <2>1, SeqMonotonic
<1>6. reads \in [Readers -> ReadState]
  BY DEF BatchInv, BatchRight
<1>7. QED
  BY <1>1, <1>2, <1>3, <1>4, <1>5, <1>6 DEF FlagsInv, ReadState, Jsep!TypeOK

\* The variables of the runtime keep their types; a batch is flushed before it is over-full
\* (command-encoder.ts).
THEOREM RuntimeTypes == Jsep!Spec => []Jsep!TypeOK
<1>1. Jsep!Init => TablesInv /\ BatchInv /\ FlagsInv
  <2>1. Jsep!Init => FlagsInv
    <3>1. Len(<<>>) = 0 /\ 0 < MaxDispatch
      BY JsepFacts
    <3>2. ASSUME Jsep!Init PROVE FlagsInv
      <4>1. installed = FALSE /\ runOps = 0 /\ lost = FALSE /\ pending = <<>>
        BY <3>2 DEF Jsep!Init
      <4>2. QED
        BY <3>1, <4>1 DEF FlagsInv
    <3>3. QED
      BY <3>2
  <2>2. QED
    BY <2>1, TablesInit, BatchInit
<1>2. TablesInv /\ BatchInv /\ FlagsInv /\ [Jsep!Next]_Jsep!vars
        => TablesInv' /\ BatchInv' /\ FlagsInv'
  BY TablesNext, BatchNext, FlagsNext
<1>3. TablesInv /\ BatchInv /\ FlagsInv => Jsep!TypeOK
  BY TypesGiven
<1>4. QED
  BY <1>1, <1>2, <1>3, PTL DEF Jsep!Spec
================================================================================
