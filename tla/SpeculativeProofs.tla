--------------------------- MODULE SpeculativeProofs ---------------------------
(***************************************************************************)
(* Theorems about Speculative, for any vocabulary, prompt, burst length    *)
(* and budget.  Between steps the caches are equal because during a step   *)
(* the drafter's is the target's followed by exactly what the verify will  *)
(* add to the target's, so that one truncation length fits both.  The      *)
(* tokens are a token stream because a verdict never reaches past a stop   *)
(* token or the budget, whatever it accepts.                               *)
(***************************************************************************)
EXTENDS Speculative, SequenceTheorems, TLAPS

USE SpeculativeAssumption

(***************************************************************************)
(* Caches.                                                                 *)
(***************************************************************************)

LEMMA ForwardedProperties ==
    ASSUME NEW cache \in Seq(Slot), NEW tokens \in Seq(Tokens), NEW pos \in Nat
    PROVE  /\ Forwarded(cache, tokens, pos) \in Seq(Slot)
           /\ Len(Forwarded(cache, tokens, pos)) = Len(cache) + Len(tokens)
<1> DEFINE new == [i \in 1 .. Len(tokens) |-> <<tokens[i], pos + i - 1>>]
<1>1. new \in Seq(Slot) /\ Len(new) = Len(tokens)
  <2>1. \A i \in 1 .. Len(tokens) : <<tokens[i], pos + i - 1>> \in Slot
    BY DEF Slot
  <2>2. QED
    BY <2>1
<1> HIDE DEF new
<1>2. QED
  BY <1>1, ConcatProperties DEF Forwarded, new

LEMMA TruncatedProperties ==
    ASSUME NEW cache \in Seq(Slot), NEW n \in Nat
    PROVE  Truncated(cache, n) \in Seq(Slot)
<1> DEFINE m == IF n < Len(cache) THEN n ELSE Len(cache)
<1>1. m \in 0 .. Len(cache)
  OBVIOUS
<1>2. \A i \in 1 .. m : cache[i] \in Slot
  BY <1>1
<1> HIDE DEF m
<1>3. QED
  BY <1>1, <1>2, SubSeqProperties DEF Truncated, m

\* What was added to a cache is taken off by truncating it to its old length.
LEMMA TruncatedBack ==
    ASSUME NEW S, NEW s \in Seq(S), NEW t \in Seq(S)
    PROVE  Truncated(s \o t, Len(s)) = s
<1>1. Len(s \o t) = Len(s) + Len(t) /\ s \o t \in Seq(S)
  BY ConcatProperties
<1>2. Truncated(s \o t, Len(s)) = SubSeq(s \o t, 1, Len(s))
  BY <1>1 DEF Truncated
<1>3. \A i \in 1 .. Len(s) : (s \o t)[i] = s[i] /\ s[i] \in S
  BY ConcatProperties
<1>4. /\ SubSeq(s \o t, 1, Len(s)) \in Seq(S)
      /\ Len(SubSeq(s \o t, 1, Len(s))) = Len(s)
      /\ \A i \in 1 .. Len(s) : SubSeq(s \o t, 1, Len(s))[i] = (s \o t)[i]
  BY <1>1, <1>3, SubSeqProperties
<1>5. QED
  BY <1>2, <1>3, <1>4

(***************************************************************************)
(* What acceptPrefix returns.                                              *)
(***************************************************************************)

\* Tokens still to be handed out may follow the count already handed out: none
\* but the last stops, they fit the budget, and the reason is that of the last.
Fits(v, count) ==
    LET last == v.rest[Len(v.rest)]
    IN  /\ v.rest # <<>>
        /\ \A k \in 1 .. Len(v.rest) - 1 : v.rest[k] \notin Stop
        /\ count + Len(v.rest) <= MaxTokens
        /\ v.reason \in {"", "stop-token", "max-tokens"}
        /\ v.reason = "stop-token" <=> last \in Stop
        /\ v.reason = "max-tokens" => count + Len(v.rest) = MaxTokens

LEMMA FitsWhen ==
    ASSUME NEW v, NEW count \in Nat, NEW n \in Nat \ {0}, v.rest \in Seq(Tokens), Len(v.rest) = n,
           \A k \in 1 .. n - 1 : v.rest[k] \notin Stop, count + n <= MaxTokens,
           v.reason \in {"", "stop-token", "max-tokens"},
           v.reason = "stop-token" <=> v.rest[n] \in Stop,
           v.reason = "max-tokens" => count + n >= MaxTokens
    PROVE  Fits(v, count)
<1>1. v.rest # <<>>
  OBVIOUS
<1>2. v.reason = "max-tokens" => count + n = MaxTokens
  OBVIOUS
<1>3. QED
  BY <1>1, <1>2 DEF Fits

LEMMA DraftPrefix ==
    ASSUME draft \in Seq(Tokens), NEW n \in 0 .. Len(draft)
    PROVE  /\ SubSeq(draft, 1, n) \in Seq(Tokens)
           /\ Len(SubSeq(draft, 1, n)) = n
           /\ \A k \in 1 .. n : SubSeq(draft, 1, n)[k] = draft[k] /\ draft[k] \in Tokens
<1>1. \A k \in 1 .. n : draft[k] \in Tokens
  OBVIOUS
<1>2. QED
  BY <1>1, SubSeqProperties

\* Accepted tokens do not stop and leave room for one more.
LEMMA AcceptedRoom ==
    ASSUME NEW n \in 0 .. K, NEW count \in Nat, count < MaxTokens, Accepted(n, count)
    PROVE  /\ \A k \in 1 .. n : draft[k] \notin Stop
           /\ count + n < MaxTokens
<1>1. \A k \in 1 .. n : draft[k] \notin Stop /\ ~(count + k >= MaxTokens)
  BY DEF Accepted, Reason
<1>2. n = 0 \/ n \in 1 .. n
  OBVIOUS
<1>3. QED
  BY <1>1, <1>2

LEMMA VerdictFits ==
    ASSUME draft \in Seq(Tokens), Len(draft) = K, NEW count \in Nat, count < MaxTokens,
           NEW v \in AcceptPrefix(count)
    PROVE  v \in Verdict /\ Fits(v, count)
<1>1. CASE v \in EndedByDraft(count)
  <2>1. PICK n \in 1 .. K :
            /\ Accepted(n - 1, count) /\ Reason(draft[n], count + n) # ""
            /\ v = [rest |-> SubSeq(draft, 1, n), advance |-> n, reason |-> Reason(draft[n], count + n)]
    BY <1>1 DEF EndedByDraft
  <2>2. /\ v.rest = SubSeq(draft, 1, n) /\ v.advance = n /\ v.reason = Reason(draft[n], count + n)
        /\ v.rest \in Seq(Tokens) /\ Len(v.rest) = n /\ \A k \in 1 .. n : v.rest[k] = draft[k]
    <3>1. /\ SubSeq(draft, 1, n) \in Seq(Tokens) /\ Len(SubSeq(draft, 1, n)) = n
          /\ \A k \in 1 .. n : SubSeq(draft, 1, n)[k] = draft[k]
      BY DraftPrefix
    <3>2. v.rest = SubSeq(draft, 1, n) /\ v.advance = n /\ v.reason = Reason(draft[n], count + n)
      BY <2>1
    <3>3. QED
      BY <3>1, <3>2
  <2>3. /\ \A k \in 1 .. n - 1 : draft[k] \notin Stop
        /\ count + (n - 1) < MaxTokens
    <3>1. n - 1 \in 0 .. K
      OBVIOUS
    <3>2. QED
      BY <2>1, <3>1, AcceptedRoom
  <2>4. /\ v.reason \in {"stop-token", "max-tokens"}
        /\ v.reason = "stop-token" <=> draft[n] \in Stop
        /\ v.reason = "max-tokens" => count + n >= MaxTokens
    BY <2>1, <2>2 DEF Reason
  <2>5. v \in Verdict
    <3>1. v = [rest |-> v.rest, advance |-> v.advance, reason |-> v.reason]
      BY <2>1
    <3>2. v.advance \in 0 .. (K + 1)
      BY <2>2
    <3>3. v.reason \in Reasons \cup {""}
      BY <2>2, <2>4 DEF Reasons
    <3>4. QED
      BY <2>2, <3>1, <3>2, <3>3 DEF Verdict
  <2>6. Fits(v, count)
    <3>1. \A k \in 1 .. n - 1 : v.rest[k] \notin Stop
      BY <2>2, <2>3
    <3>2. count + n <= MaxTokens /\ n \in Nat \ {0}
      BY <2>3
    <3>3. v.reason = "stop-token" <=> v.rest[n] \in Stop
      BY <2>2, <2>4
    <3>4. QED
      BY <2>2, <2>4, <3>1, <3>2, <3>3, FitsWhen
  <2>7. QED
    BY <2>5, <2>6
<1>2. CASE v \in EndedBySample(count)
  <2>1. PICK n \in 0 .. K, t \in Tokens :
            /\ Accepted(n, count)
            /\ v = [rest |-> Append(SubSeq(draft, 1, n), t), advance |-> n + 1,
                    reason |-> Reason(t, count + n + 1)]
    BY <1>2 DEF EndedBySample
  <2>2. /\ SubSeq(draft, 1, n) \in Seq(Tokens) /\ Len(SubSeq(draft, 1, n)) = n
        /\ \A k \in 1 .. n : SubSeq(draft, 1, n)[k] = draft[k]
    BY DraftPrefix
  <2>3. /\ v.rest \in Seq(Tokens) /\ Len(v.rest) = n + 1 /\ v.rest[n + 1] = t
        /\ \A k \in 1 .. n : v.rest[k] = draft[k]
        /\ v.advance = n + 1 /\ v.reason = Reason(t, count + n + 1)
    BY <2>1, <2>2
  <2>4. /\ \A k \in 1 .. n : draft[k] \notin Stop
        /\ count + n < MaxTokens
    BY <2>1, AcceptedRoom
  <2>5. /\ v.reason \in {"", "stop-token", "max-tokens"}
        /\ v.reason = "stop-token" <=> t \in Stop
        /\ v.reason = "max-tokens" => count + n + 1 >= MaxTokens
    BY <2>3 DEF Reason
  <2>6. v \in Verdict
    <3>1. v = [rest |-> v.rest, advance |-> v.advance, reason |-> v.reason]
      BY <2>1
    <3>2. v.advance \in 0 .. (K + 1)
      BY <2>3
    <3>3. v.reason \in Reasons \cup {""}
      BY <2>3, <2>5 DEF Reasons
    <3>4. QED
      BY <2>3, <3>1, <3>2, <3>3 DEF Verdict
  <2>7. Fits(v, count)
    <3>1. \A k \in 1 .. (n + 1) - 1 : v.rest[k] \notin Stop
      BY <2>3, <2>4
    <3>2. n + 1 \in Nat \ {0} /\ count + (n + 1) <= MaxTokens
      BY <2>4
    <3>3. v.reason = "max-tokens" => count + (n + 1) >= MaxTokens
      BY <2>5
    <3>4. QED
      BY <2>3, <2>5, <3>1, <3>2, <3>3, FitsWhen
  <2>8. QED
    BY <2>6, <2>7
<1>3. CASE v \in EndedUnsampled(count)
  BY <1>3, AcceptedRoom DEF EndedUnsampled
<1>4. QED
  BY <1>1, <1>2, <1>3 DEF AcceptPrefix

LEMMA VerdictFields ==
    ASSUME NEW v \in Verdict
    PROVE  /\ v.rest \in Seq(Tokens) /\ v.reason \in Reasons \cup {""}
           /\ v.advance \in 0 .. (K + 1) /\ v.advance \in Nat
<1>1. v.rest \in Seq(Tokens) /\ v.reason \in Reasons \cup {""} /\ v.advance \in 0 .. (K + 1)
  BY DEF Verdict
<1>2. \A n \in 0 .. (K + 1) : n \in Nat
  OBVIOUS
<1>3. QED
  BY <1>1, <1>2

LEMMA FirstAndRest ==
    ASSUME NEW S, NEW q \in Seq(S), q # <<>>
    PROVE  /\ Tail(q) \in Seq(S) /\ Len(Tail(q)) = Len(q) - 1 /\ Len(q) \in Nat \ {0}
           /\ Head(q) \in S /\ Head(q) = q[1]
           /\ \A k \in 1 .. Len(q) - 1 : Tail(q)[k] = q[k + 1]
OBVIOUS

(***************************************************************************)
(* The invariant.                                                          *)
(***************************************************************************)

\* What is left to hand out fits what has been handed out.
Outlook ==
    /\ yielding.rest # <<>> => Last \notin Stop /\ Fits(yielding, Len(emitted))
    /\ yielding.rest = <<>> => /\ Len(emitted) <= MaxTokens
                               /\ yielding.reason \in {"", "stop-token", "max-tokens"}
                               /\ yielding.reason = "stop-token" <=> Last \in Stop
                               /\ yielding.reason = "max-tokens" => Len(emitted) = MaxTokens

TextInv ==
    /\ pc = "prefill" => emitted = <<>>
    /\ pc \notin {"prefill", "left"} => emitted # <<>>
    /\ pc # "finished" => finishReason = ""
    /\ pc \in {"top", "draft"} => Last \notin Stop
    /\ pc \in {"first", "top"} => Len(emitted) <= MaxTokens
    /\ pc = "draft" => Len(emitted) < MaxTokens
    /\ pc = "emit" => Outlook

\* What the drafter has computed and the target has not: one slot per draft,
\* computed from the token before it.
Ahead == [i \in 1 .. Len(draft) |-> <<IF i = 1 THEN Last ELSE draft[i - 1], pastLen + i - 1>>]

CacheInv ==
    /\ pc = "prefill" => target = <<>> /\ drafter = <<>>
    /\ pc = "first" => target = Forwarded(<<>>, Prompt, 0) /\ drafter = <<>>
    /\ pc \in {"top", "emit", "finished"} => drafter = target
    /\ pc = "draft" => drafter = target \o Ahead

Inv == TypeOK /\ TextInv /\ CacheInv

LEMMA LastToken ==
    ASSUME TypeOK, emitted # <<>>
    PROVE  Last \in Tokens
<1>1. emitted \in Seq(Tokens)
  BY DEF TypeOK
<1>2. Len(emitted) \in 1 .. Len(emitted)
  BY <1>1
<1>3. QED
  BY <1>1, <1>2 DEF Last

LEMMA AheadType ==
    ASSUME TypeOK, emitted # <<>>
    PROVE  Ahead \in Seq(Slot) /\ Len(Ahead) = Len(draft)
<1>1. draft \in Seq(Tokens) /\ pastLen \in Nat
  BY DEF TypeOK
<1>2. ASSUME NEW i \in 1 .. Len(draft)
      PROVE  <<IF i = 1 THEN Last ELSE draft[i - 1], pastLen + i - 1>> \in Slot
  <2>1. Last \in Tokens /\ (i # 1 => draft[i - 1] \in Tokens)
    BY <1>1, LastToken
  <2>2. QED
    BY <1>1, <2>1 DEF Slot
<1>3. QED
  BY <1>1, <1>2 DEF Ahead

LEMMA PrefillInv == Inv /\ Prefill => Inv'
<1>1. SUFFICES ASSUME Inv, Prefill PROVE Inv'
  OBVIOUS
<1>2. PICK t \in Tokens : emitted' = <<t>>
  BY <1>1 DEF Prefill
<1>3. pc = "prefill" /\ pc' = "first" /\ target = <<>> /\ drafter = <<>> /\ emitted = <<>>
  BY <1>1 DEF Prefill, Inv, TextInv, CacheInv
<1>4. target' = Forwarded(<<>>, Prompt, 0) /\ target' \in Seq(Slot) /\ drafter' = <<>>
  <2>1. <<>> \in Seq(Slot) /\ Prompt \in Seq(Tokens) /\ 0 \in Nat
    OBVIOUS
  <2>2. QED
    BY <1>1, <1>3, <2>1, ForwardedProperties DEF Prefill
<1>5. UNCHANGED <<aborted, pastLen, draft, yielding, finishReason, bonuses>>
  BY <1>1 DEF Prefill
<1>6. emitted' \in Seq(Tokens) /\ Len(emitted') = 1 /\ emitted' # <<>>
  BY <1>2
<1>7. TypeOK'
  BY <1>1, <1>3, <1>4, <1>5, <1>6 DEF Inv, TypeOK
<1>8. TextInv'
  <2>1. finishReason' = ""
    BY <1>1, <1>3, <1>5 DEF Inv, TextInv
  <2>2. Len(emitted') <= MaxTokens
    BY <1>6
  <2>3. QED
    BY <1>3, <1>6, <2>1, <2>2 DEF TextInv
<1>9. CacheInv'
  BY <1>3, <1>4 DEF CacheInv
<1>10. QED
  BY <1>7, <1>8, <1>9 DEF Inv

LEMMA DrafterPrefillInv == Inv /\ DrafterPrefill => Inv'
<1>1. SUFFICES ASSUME Inv, DrafterPrefill PROVE Inv'
  OBVIOUS
<1>2. /\ pc = "first" /\ target = Forwarded(<<>>, Prompt, 0) /\ drafter = <<>>
      /\ emitted # <<>> /\ finishReason = "" /\ Len(emitted) <= MaxTokens
  BY <1>1 DEF DrafterPrefill, Inv, TextInv, CacheInv
<1>3. drafter' = target /\ UNCHANGED <<aborted, target, draft, yielding, emitted, bonuses>>
  BY <1>1, <1>2 DEF DrafterPrefill
<1>4. \/ pc' = "finished" /\ finishReason' = "stop-token"
      \/ pc' = "top" /\ finishReason' = "" /\ Last \notin Stop
  BY <1>1, <1>2 DEF DrafterPrefill, Finishes
<1>5. TypeOK'
  <2>1. pastLen' \in Nat
    BY <1>1 DEF DrafterPrefill
  <2>2. pc' \in {"finished", "top"} /\ finishReason' \in Reasons \cup {""}
    BY <1>4 DEF Reasons
  <2>3. QED
    BY <1>1, <1>3, <2>1, <2>2 DEF Inv, TypeOK
<1>6. TextInv'
  BY <1>2, <1>3, <1>4 DEF TextInv, Last
<1>7. CacheInv'
  BY <1>3, <1>4 DEF CacheInv
<1>8. QED
  BY <1>5, <1>6, <1>7 DEF Inv

LEMMA BeginStepInv == Inv /\ BeginStep => Inv'
<1>1. SUFFICES ASSUME Inv, BeginStep PROVE Inv'
  OBVIOUS
<1>2. /\ pc = "top" /\ drafter = target /\ emitted # <<>> /\ finishReason = ""
      /\ Last \notin Stop /\ Len(emitted) <= MaxTokens
  BY <1>1 DEF BeginStep, Inv, TextInv, CacheInv
<1>3. /\ UNCHANGED <<aborted, target, drafter, pastLen, yielding, emitted, bonuses>>
      /\ draft' = <<>>
      /\ \/ pc' = "finished" /\ finishReason' \in {"aborted", "max-tokens"}
         \/ pc' = "draft" /\ finishReason' = "" /\ ~(Len(emitted) >= MaxTokens)
  BY <1>1, <1>2 DEF BeginStep, Finishes
<1>4. TypeOK'
  <2>1. pc' \in {"finished", "draft"} /\ finishReason' \in Reasons \cup {""}
    BY <1>3 DEF Reasons
  <2>2. draft' \in Seq(Tokens) /\ Len(draft') <= K
    <3>1. <<>> \in Seq(Tokens) /\ Len(<<>>) <= K
      OBVIOUS
    <3>2. QED
      BY <1>3, <3>1
  <2>3. QED
    BY <1>1, <1>3, <2>1, <2>2 DEF Inv, TypeOK
<1>5. TextInv'
  <2>1. Len(emitted) \in Nat /\ Last' = Last
    <3>1. emitted \in Seq(Tokens)
      BY <1>1 DEF Inv, TypeOK
    <3>2. emitted' = emitted
      BY <1>3
    <3>3. QED
      BY <3>1, <3>2 DEF Last
  <2>2. pc' = "draft" => Len(emitted) < MaxTokens
    <3>1. pc' = "draft" => ~(Len(emitted) >= MaxTokens)
      BY <1>3
    <3>2. QED
      BY <2>1, <3>1
  <2>3. QED
    BY <1>2, <1>3, <2>1, <2>2 DEF TextInv
<1>6. CacheInv'
  <2>1. Ahead' = <<>>
    <3>1. Len(draft') = 0
      BY <1>3
    <3>2. QED
      BY <3>1, Z3 DEF Ahead
  <2>2. target \o <<>> = target
    BY <1>1, ConcatEmptySeq DEF Inv, TypeOK
  <2>3. QED
    BY <1>2, <1>3, <2>1, <2>2 DEF CacheInv
<1>7. QED
  BY <1>4, <1>5, <1>6 DEF Inv

\* One more forward of the drafter keeps it ahead by what the verify will forward.
LEMMA DraftForwardInv == Inv /\ DraftForward => Inv'
<1>1. SUFFICES ASSUME Inv, DraftForward PROVE Inv'
  OBVIOUS
<1> DEFINE prev == IF draft = <<>> THEN Last ELSE draft[Len(draft)]
           slot == <<prev, pastLen + Len(draft)>>
<1>2. /\ pc = "draft" /\ drafter = target \o Ahead /\ emitted # <<>>
      /\ target \in Seq(Slot) /\ drafter \in Seq(Slot) /\ draft \in Seq(Tokens) /\ pastLen \in Nat
      /\ Len(draft) <= K
  BY <1>1 DEF DraftForward, Inv, TypeOK, TextInv, CacheInv
<1>3. /\ UNCHANGED <<pc, aborted, target, pastLen, yielding, emitted, finishReason, bonuses>>
      /\ drafter' = Forwarded(drafter, <<prev>>, pastLen + Len(draft))
      /\ Len(draft) # K
  BY <1>1 DEF DraftForward, BurstOver
<1>4. PICK t \in Tokens : draft' = Append(draft, t)
  BY <1>1 DEF DraftForward
<1>5. prev \in Tokens
  BY <1>1, <1>2, LastToken DEF Inv
<1>6. slot \in Slot
  BY <1>2, <1>5 DEF Slot
<1>7. drafter' = Append(drafter, slot)
  <2>1. [i \in 1 .. Len(<<prev>>) |-> <<(<<prev>>)[i], pastLen + Len(draft) + i - 1>>] = <<slot>>
    BY <1>2
  <2>2. drafter' = drafter \o <<slot>>
    BY <1>3, <2>1 DEF Forwarded
  <2>3. QED
    BY <1>2, <1>6, <2>2
<1>8. Ahead \in Seq(Slot) /\ Len(Ahead) = Len(draft)
  BY <1>1, <1>2, AheadType DEF Inv
<1>9. Ahead' = Append(Ahead, slot)
  <2>1. Ahead' = [i \in 1 .. Len(draft) + 1 |->
                     <<IF i = 1 THEN Last ELSE Append(draft, t)[i - 1], pastLen + i - 1>>]
    BY <1>2, <1>3, <1>4 DEF Ahead, Last
  <2>2. \A i \in 1 .. Len(draft) : Append(draft, t)[i] = draft[i]
    BY <1>2
  <2>3. \A i \in 1 .. Len(draft) + 1 :
            Ahead'[i] = IF i = Len(draft) + 1 THEN slot ELSE Ahead[i]
    <3>1. SUFFICES ASSUME NEW i \in 1 .. Len(draft) + 1
                   PROVE  Ahead'[i] = IF i = Len(draft) + 1 THEN slot ELSE Ahead[i]
      OBVIOUS
    <3>2. Ahead'[i] = <<IF i = 1 THEN Last ELSE Append(draft, t)[i - 1], pastLen + i - 1>>
      BY <2>1
    <3>3. i # 1 => Append(draft, t)[i - 1] = draft[i - 1]
      BY <1>2, <2>2
    <3>4. CASE i = Len(draft) + 1
      <4>1. i = 1 <=> draft = <<>>
        BY <1>2, <3>4
      <4>2. pastLen + i - 1 = pastLen + Len(draft) /\ i - 1 = Len(draft)
        BY <1>2, <3>4
      <4>3. QED
        BY <3>2, <3>3, <3>4, <4>1, <4>2
    <3>5. CASE i # Len(draft) + 1
      <4>1. i \in 1 .. Len(draft)
        BY <1>2, <3>5
      <4>2. Ahead[i] = <<IF i = 1 THEN Last ELSE draft[i - 1], pastLen + i - 1>>
        BY <4>1 DEF Ahead
      <4>3. QED
        BY <3>2, <3>3, <3>5, <4>2
    <3>6. QED
      BY <3>4, <3>5
  <2>4. /\ Append(Ahead, slot) = [i \in 1 .. Len(draft) + 1 |->
                                     IF i = Len(draft) + 1 THEN slot ELSE Ahead[i]]
    BY <1>6, <1>8
  <2>5. QED
    BY <2>1, <2>3, <2>4
<1> HIDE DEF slot, prev
<1>10. drafter' = target \o Ahead'
  <2>1. Append(target \o Ahead, slot) = target \o Append(Ahead, slot)
    <3>1. <<slot>> \in Seq(Slot)
      BY <1>6
    <3>2. (target \o Ahead) \o <<slot>> = target \o (Ahead \o <<slot>>)
      BY <1>2, <1>8, <3>1, ConcatAssociative
    <3>3. Ahead \o <<slot>> = Append(Ahead, slot)
      BY <1>6, <1>8
    <3>4. drafter \o <<slot>> = Append(drafter, slot)
      BY <1>2, <1>6
    <3>5. QED
      BY <1>2, <3>2, <3>3, <3>4
  <2>2. QED
    BY <1>2, <1>7, <1>9, <2>1
<1>11. TypeOK'
  <2>1. drafter' \in Seq(Slot)
    BY <1>2, <1>6, <1>7
  <2>2. draft' \in Seq(Tokens) /\ Len(draft') <= K
    BY <1>2, <1>3, <1>4
  <2>3. QED
    BY <1>1, <1>3, <2>1, <2>2 DEF Inv, TypeOK
<1>12. TextInv'
  BY <1>1, <1>2, <1>3 DEF Inv, TextInv, Last
<1>13. CacheInv'
  BY <1>2, <1>3, <1>10 DEF CacheInv
<1>14. QED
  BY <1>11, <1>12, <1>13 DEF Inv

\* The drafts that are given up are exactly what the drafter has too much.
LEMMA DraftAbortedInv == Inv /\ DraftAborted => Inv'
<1>1. SUFFICES ASSUME Inv, DraftAborted PROVE Inv'
  OBVIOUS
<1>2. /\ pc = "draft" /\ drafter = target \o Ahead /\ emitted # <<>>
      /\ pc' = "finished" /\ finishReason' = "aborted"
      /\ UNCHANGED <<aborted, target, pastLen, draft, yielding, emitted, bonuses>>
      /\ drafter' = Truncated(drafter, Len(target))
  BY <1>1 DEF DraftAborted, Finishes, DraftUndone, Inv, TextInv, CacheInv
<1>3. drafter' = target
  BY <1>1, <1>2, AheadType, TruncatedBack DEF Inv, TypeOK
<1>4. TypeOK'
  <2>1. finishReason' \in Reasons \cup {""}
    BY <1>2 DEF Reasons
  <2>2. QED
    BY <1>1, <1>2, <1>3, <2>1 DEF Inv, TypeOK
<1>5. TextInv'
  BY <1>2 DEF TextInv
<1>6. CacheInv'
  BY <1>2, <1>3 DEF CacheInv
<1>7. QED
  BY <1>4, <1>5, <1>6 DEF Inv

\* The verify forwards what the drafter was ahead by.
LEMMA VerifiedIsAhead ==
    ASSUME Inv, Verify
    PROVE  target' = target \o Ahead
<1>1. Inv /\ Verify
  OBVIOUS
<1>2. /\ emitted # <<>> /\ Len(draft) = K /\ draft \in Seq(Tokens)
      /\ target' = Forwarded(target, VerifyInputs, pastLen)
  BY <1>1 DEF Verify, BurstOver, Inv, TypeOK, TextInv
<1>3. /\ VerifyInputs \in Seq(Tokens) /\ Len(VerifyInputs) = K
      /\ \A i \in 1 .. K : VerifyInputs[i] = IF i = 1 THEN Last ELSE draft[i - 1]
  <2>1. /\ SubSeq(draft, 1, K - 1) \in Seq(Tokens) /\ Len(SubSeq(draft, 1, K - 1)) = K - 1
        /\ \A k \in 1 .. K - 1 : SubSeq(draft, 1, K - 1)[k] = draft[k]
    <3>1. Len(draft) = K
      BY <1>2
    <3>2. K - 1 \in 0 .. Len(draft)
      BY <3>1
    <3>3. QED
      BY <1>2, <3>2, DraftPrefix
  <2>2. <<Last>> \in Seq(Tokens) /\ Len(<<Last>>) = 1 /\ (<<Last>>)[1] = Last
    <3>1. Last \in Tokens
      BY <1>1, <1>2, LastToken DEF Inv
    <3>2. QED
      BY <3>1
  <2>3. /\ VerifyInputs \in Seq(Tokens) /\ Len(VerifyInputs) = 1 + (K - 1)
        /\ \A i \in 1 .. 1 + (K - 1) :
               VerifyInputs[i] = IF i <= 1 THEN (<<Last>>)[i] ELSE SubSeq(draft, 1, K - 1)[i - 1]
    BY <2>1, <2>2, ConcatProperties DEF VerifyInputs
  <2>4. QED
    BY <2>1, <2>2, <2>3
<1>4. QED
  <2>1. [i \in 1 .. Len(VerifyInputs) |-> <<VerifyInputs[i], pastLen + i - 1>>] = Ahead
    BY <1>2, <1>3 DEF Ahead
  <2>2. QED
    BY <1>2, <2>1 DEF Forwarded

\* The verify makes the caches equal, and its verdict fits.
LEMMA VerifyInv == Inv /\ Verify => Inv'
<1>1. SUFFICES ASSUME Inv, Verify PROVE Inv'
  OBVIOUS
<1>2. /\ pc = "draft" /\ drafter = target \o Ahead /\ emitted # <<>> /\ Last \notin Stop
      /\ Len(emitted) < MaxTokens /\ finishReason = "" /\ Len(draft) = K
      /\ pc' = "emit" /\ target' = Forwarded(target, VerifyInputs, pastLen)
      /\ yielding' \in AcceptPrefix(Len(emitted))
      /\ UNCHANGED <<aborted, drafter, pastLen, draft, emitted, finishReason>>
  BY <1>1 DEF Verify, BurstOver, Inv, TextInv, CacheInv
<1>3. /\ draft \in Seq(Tokens) /\ target \in Seq(Slot) /\ pastLen \in Nat
      /\ emitted \in Seq(Tokens) /\ drafter \in Seq(Slot)
  BY <1>1 DEF Inv, TypeOK
<1>4. yielding' \in Verdict /\ Fits(yielding', Len(emitted))
  <2>1. Len(emitted) \in Nat
    BY <1>3
  <2>2. QED
    BY <1>2, <1>3, <2>1, VerdictFits
<1>5. target' = target \o Ahead
  BY <1>1, VerifiedIsAhead
<1>6. TypeOK'
  <2>1. target' \in Seq(Slot)
    BY <1>2, <1>3, <1>5
  <2>2. bonuses' \in Nat
    <3>1. bonuses \in Nat
      BY <1>1 DEF Inv, TypeOK
    <3>2. bonuses' = bonuses + 1 \/ bonuses' = bonuses
      BY <1>1 DEF Verify
    <3>3. QED
      BY <3>1, <3>2
  <2>3. QED
    BY <1>1, <1>2, <1>4, <2>1, <2>2 DEF Inv, TypeOK
<1>7. TextInv'
  <2>1. Last' = Last /\ yielding'.rest # <<>>
    BY <1>2, <1>4 DEF Last, Fits
  <2>2. Outlook'
    BY <1>2, <1>4, <2>1 DEF Outlook
  <2>3. QED
    BY <1>2, <2>2 DEF TextInv
<1>8. CacheInv'
  BY <1>2, <1>5 DEF CacheInv
<1>9. QED
  BY <1>6, <1>7, <1>8 DEF Inv

\* The tokens of a verdict are handed out one by one.
LEMMA EmitTokenInv == Inv /\ EmitToken => Inv'
<1>1. SUFFICES ASSUME Inv, EmitToken PROVE Inv'
  OBVIOUS
<1> DEFINE rest == yielding.rest
           count == Len(emitted)
<1>2. /\ pc = "emit" /\ rest # <<>> /\ drafter = target /\ finishReason = ""
      /\ Fits(yielding, count)
      /\ emitted' = Append(emitted, Head(rest)) /\ yielding' = [yielding EXCEPT !.rest = Tail(rest)]
      /\ UNCHANGED <<pc, aborted, target, drafter, pastLen, draft, finishReason, bonuses>>
  BY <1>1 DEF EmitToken, Inv, TextInv, CacheInv, Outlook
<1>3. /\ emitted \in Seq(Tokens) /\ rest \in Seq(Tokens) /\ count \in Nat
      /\ yielding \in Verdict
  <2>1. yielding \in Verdict /\ emitted \in Seq(Tokens)
    BY <1>1 DEF Inv, TypeOK
  <2>2. count \in Nat
    BY <2>1
  <2>3. QED
    BY <2>1, <2>2, VerdictFields
<1>4. /\ Tail(rest) \in Seq(Tokens) /\ Len(Tail(rest)) = Len(rest) - 1 /\ Len(rest) \in Nat \ {0}
      /\ Head(rest) \in Tokens /\ Head(rest) = rest[1]
      /\ \A k \in 1 .. Len(rest) - 1 : Tail(rest)[k] = rest[k + 1]
  BY <1>2, <1>3, FirstAndRest
<1>5. yielding'.rest = Tail(rest) /\ yielding'.reason = yielding.reason /\ yielding' \in Verdict
  BY <1>2, <1>3, <1>4 DEF Verdict
<1>6. /\ emitted' \in Seq(Tokens) /\ Len(emitted') = count + 1 /\ Last' = rest[1] /\ emitted' # <<>>
  <2>1. emitted' = Append(emitted, rest[1]) /\ rest[1] \in Tokens
    BY <1>2, <1>4
  <2>2. emitted' \in Seq(Tokens) /\ Len(emitted') = count + 1 /\ emitted'[count + 1] = rest[1]
    BY <1>3, <2>1
  <2>3. QED
    BY <1>3, <2>2 DEF Last
<1>7. /\ \A k \in 1 .. Len(rest) - 1 : rest[k] \notin Stop
      /\ count + Len(rest) <= MaxTokens
      /\ yielding.reason \in {"", "stop-token", "max-tokens"}
      /\ yielding.reason = "stop-token" <=> rest[Len(rest)] \in Stop
      /\ yielding.reason = "max-tokens" => count + Len(rest) = MaxTokens
  BY <1>2 DEF Fits
<1> HIDE DEF rest, count
<1>8. Outlook'
  <2>1. CASE Len(rest) = 1
    <3>1. yielding'.rest = <<>>
      BY <1>4, <1>5, <2>1
    <3>2. QED
      BY <1>3, <1>5, <1>6, <1>7, <2>1, <3>1 DEF Outlook
  <2>2. CASE Len(rest) # 1
    <3>1. /\ Len(yielding'.rest) = Len(rest) - 1 /\ Len(rest) - 1 \in Nat \ {0}
          /\ yielding'.rest \in Seq(Tokens)
      BY <1>4, <1>5, <2>2
    <3>2. ASSUME NEW k \in 1 .. (Len(rest) - 1) - 1
          PROVE  yielding'.rest[k] \notin Stop
      <4>1. k \in 1 .. Len(rest) - 1 /\ k + 1 \in 1 .. Len(rest) - 1
        BY <1>4
      <4>2. yielding'.rest[k] = rest[k + 1]
        BY <1>4, <1>5, <4>1
      <4>3. QED
        BY <1>7, <4>1, <4>2
    <3>3. yielding'.rest[Len(rest) - 1] = rest[Len(rest)]
      BY <1>4, <1>5, <2>2
    <3>4. count + 1 \in Nat /\ (count + 1) + (Len(rest) - 1) = count + Len(rest)
      BY <1>3, <1>4
    <3>5. Fits(yielding', count + 1)
      BY <1>5, <1>7, <3>1, <3>2, <3>3, <3>4, FitsWhen
    <3>6. Last' \notin Stop
      <4>1. 1 \in 1 .. Len(rest) - 1
        BY <1>4, <2>2
      <4>2. QED
        BY <1>6, <1>7, <4>1
    <3>7. yielding'.rest # <<>>
      BY <3>1
    <3>8. QED
      BY <1>6, <3>5, <3>6, <3>7 DEF Outlook
  <2>3. QED
    BY <2>1, <2>2
<1>9. TypeOK'
  BY <1>1, <1>2, <1>5, <1>6 DEF Inv, TypeOK
<1>10. TextInv'
  BY <1>2, <1>6, <1>8 DEF TextInv
<1>11. CacheInv'
  BY <1>2 DEF CacheInv
<1>12. QED
  BY <1>9, <1>10, <1>11 DEF Inv

\* Equal caches stay equal when they are truncated to one length.
LEMMA RollbackInv == Inv /\ Rollback => Inv'
<1>1. SUFFICES ASSUME Inv, Rollback PROVE Inv'
  OBVIOUS
<1>2. /\ pc = "emit" /\ yielding.rest = <<>> /\ drafter = target /\ finishReason = ""
      /\ emitted # <<>> /\ Outlook
  BY <1>1 DEF Rollback, Inv, TextInv, CacheInv
<1>3. /\ pastLen' = pastLen + yielding.advance
      /\ target' = Truncated(target, Kept(pastLen + yielding.advance))
      /\ drafter' = Truncated(drafter, Kept(pastLen + yielding.advance))
      /\ yielding' = Nothing /\ draft' = <<>>
      /\ UNCHANGED <<aborted, emitted, bonuses>>
      /\ \/ yielding.reason # "" /\ pc' = "finished" /\ finishReason' = yielding.reason
         \/ yielding.reason = "" /\ pc' = "finished" /\ finishReason' = "max-tokens"
         \/ yielding.reason = "" /\ pc' = "top" /\ finishReason' = ""
  BY <1>1, <1>2 DEF Rollback, Finishes
<1>4. yielding.advance \in Nat /\ yielding.reason \in Reasons \cup {""}
  <2>1. yielding \in Verdict
    BY <1>1 DEF Inv, TypeOK
  <2>2. QED
    BY <2>1, VerdictFields
<1>5. drafter' = target' /\ target' \in Seq(Slot) /\ pastLen' \in Nat
  <2>1. pastLen \in Nat /\ target \in Seq(Slot)
    BY <1>1 DEF Inv, TypeOK
  <2>2. pastLen + yielding.advance \in Nat
    <3>1. \A m, n \in Nat : m + n \in Nat
      OBVIOUS
    <3>2. QED
      BY <1>4, <2>1, <3>1
  <2>3. target' = Truncated(target, pastLen + yielding.advance) /\ drafter' = target'
    BY <1>2, <1>3 DEF Kept
  <2>4. QED
    BY <1>3, <2>1, <2>2, <2>3, TruncatedProperties
<1>6. TypeOK'
  <2>1. yielding' \in Verdict
    <3>1. <<>> \in Seq(Tokens) /\ 0 \in 0 .. (K + 1)
      OBVIOUS
    <3>2. QED
      BY <1>3, <3>1 DEF Nothing, Verdict
  <2>2. draft' \in Seq(Tokens) /\ Len(draft') <= K
    <3>1. <<>> \in Seq(Tokens) /\ Len(<<>>) <= K
      OBVIOUS
    <3>2. QED
      BY <1>3, <3>1
  <2>3. pc' \in {"finished", "top"} /\ finishReason' \in Reasons \cup {""}
    BY <1>3, <1>4 DEF Reasons
  <2>4. QED
    BY <1>1, <1>3, <1>5, <2>1, <2>2, <2>3 DEF Inv, TypeOK
<1>7. TextInv'
  <2>1. Last' = Last
    BY <1>3 DEF Last
  <2>2. yielding.reason = "" => Last \notin Stop
    BY <1>2 DEF Outlook
  <2>3. Len(emitted) <= MaxTokens
    BY <1>2 DEF Outlook
  <2>4. QED
    BY <1>2, <1>3, <2>1, <2>2, <2>3 DEF TextInv
<1>8. CacheInv'
  BY <1>3, <1>5 DEF CacheInv
<1>9. QED
  BY <1>6, <1>7, <1>8 DEF Inv

\* The consumer, an abort or a failing forward touch neither text nor caches.
LEMMA OutsideInv == Inv /\ (Abort \/ Leave \/ ForwardFails \/ UNCHANGED vars) => Inv'
<1>1. SUFFICES ASSUME Inv, Abort \/ Leave \/ ForwardFails \/ UNCHANGED vars PROVE Inv'
  OBVIOUS
<1>2. UNCHANGED <<target, drafter, pastLen, draft, yielding, emitted, finishReason, bonuses>>
  BY <1>1 DEF Abort, Leave, ForwardFails, vars
<1>3. /\ pc' = pc \/ (pc' = "left" /\ pc # "finished")
      /\ aborted' \in BOOLEAN
  BY <1>1 DEF Abort, Leave, ForwardFails, vars, Inv, TypeOK
<1>4. TypeOK'
  BY <1>1, <1>2, <1>3 DEF Inv, TypeOK
<1>5. Last' = Last /\ Ahead' = Ahead /\ (Outlook' <=> Outlook)
  BY <1>2 DEF Last, Ahead, Outlook
<1>6. TextInv'
  BY <1>1, <1>2, <1>3, <1>5 DEF Inv, TextInv
<1>7. CacheInv'
  BY <1>1, <1>2, <1>3, <1>5 DEF Inv, CacheInv
<1>8. QED
  BY <1>4, <1>6, <1>7 DEF Inv

LEMMA InitInv == Init => Inv
<1>1. SUFFICES ASSUME Init PROVE Inv
  OBVIOUS
<1>2. Nothing \in Verdict
  <2>1. <<>> \in Seq(Tokens) /\ 0 \in 0 .. (K + 1)
    OBVIOUS
  <2>2. QED
    BY <2>1 DEF Nothing, Verdict
<1>3. TypeOK
  <2>1. /\ <<>> \in Seq(Slot) /\ <<>> \in Seq(Tokens) /\ Len(<<>>) <= K
        /\ 0 \in Nat /\ FALSE \in BOOLEAN
    OBVIOUS
  <2>2. QED
    BY <1>1, <1>2, <2>1 DEF Init, TypeOK
<1>4. TextInv /\ CacheInv
  BY <1>1 DEF Init, TextInv, CacheInv
<1>5. QED
  BY <1>3, <1>4 DEF Inv

LEMMA NextInv == Inv /\ [Next]_vars => Inv'
BY PrefillInv, DrafterPrefillInv, BeginStepInv, DraftForwardInv, DraftAbortedInv, VerifyInv,
   EmitTokenInv, RollbackInv, OutsideInv DEF Next

LEMMA InvHolds == Spec => []Inv
<1>1. QED
  BY InitInv, NextInv, PTL DEF Spec

\* The variables of the generator keep their types.
THEOREM TypeCorrect == Spec => []TypeOK
<1>1. Inv => TypeOK
  BY DEF Inv
<1>2. QED
  BY <1>1, InvHolds, PTL

\* Whatever was accepted, refused or aborted, the drafter's cache equals the
\* target's between steps and at the end.
THEOREM CachesAgreeHolds == Spec => []CachesAgree
<1>1. Inv => CachesAgree
  BY DEF Inv, CacheInv, CachesAgree, AtRest
<1>2. QED
  BY <1>1, InvHolds, PTL

(***************************************************************************)
(* Whose text the cache holds.  Without a bonus a verdict hands out as     *)
(* many tokens as it advances, and all but the last of them are drafted    *)
(* ones, which the verify has put in the cache at their positions.         *)
(***************************************************************************)

\* The first n slots of the cache are those of the first n tokens of the text.
Placed(cache, text, n) == n <= Len(cache) /\ \A i \in 1 .. n : cache[i] = <<text[i], i - 1>>

\* The text with the tokens that are found and not handed out yet.
Found == Own \o yielding.rest

OwnInv ==
    /\ pc = "first" => Len(emitted) = 1
    /\ bonuses = 0 /\ pc \in {"top", "draft", "finished"} =>
           /\ pastLen = Len(Own) - 1 /\ Len(target) = pastLen
           /\ Placed(target, Own, pastLen)
    /\ bonuses = 0 /\ pc = "emit" =>
           /\ pastLen + yielding.advance = Len(Found) - 1
           /\ Placed(target, Found, pastLen + yielding.advance)

LEMMA OwnProperties ==
    ASSUME TypeOK
    PROVE  /\ emitted \in Seq(Tokens) /\ Own \in Seq(Tokens)
           /\ Len(Prompt) \in Nat \ {0} /\ Len(emitted) \in Nat
           /\ Len(Own) = Len(Prompt) + Len(emitted) /\ Len(Own) \in Nat \ {0}
           /\ \A i \in 1 .. Len(Prompt) : Own[i] = Prompt[i]
           /\ emitted # <<>> => Own[Len(Own)] = Last
<1>1. emitted \in Seq(Tokens) /\ Prompt \in Seq(Tokens) /\ Prompt # <<>>
  BY DEF TypeOK
<1>2. Len(Prompt) \in Nat \ {0} /\ Len(emitted) \in Nat /\ (emitted # <<>> => Len(emitted) # 0)
  BY <1>1
<1>3. /\ Own \in Seq(Tokens) /\ Len(Own) = Len(Prompt) + Len(emitted)
      /\ \A i \in 1 .. Len(Prompt) + Len(emitted) :
             Own[i] = IF i <= Len(Prompt) THEN Prompt[i] ELSE emitted[i - Len(Prompt)]
  BY <1>1, ConcatProperties DEF Own
<1>4. \A i \in 1 .. Len(Prompt) : Own[i] = Prompt[i]
  BY <1>2, <1>3
<1>5. ASSUME emitted # <<>> PROVE Own[Len(Own)] = Last
  <2>1. Len(Own) \in 1 .. Len(Own) /\ ~(Len(Own) <= Len(Prompt)) /\ Len(Own) - Len(Prompt) = Len(emitted)
    BY <1>2, <1>3, <1>5
  <2>2. QED
    BY <1>3, <2>1 DEF Last
<1>6. QED
  BY <1>1, <1>2, <1>3, <1>4, <1>5

\* A verdict advances by what it hands out, and only the last token is not drafted.
LEMMA VerdictOfDraft ==
    ASSUME draft \in Seq(Tokens), Len(draft) = K, NEW count \in Nat, count < MaxTokens,
           NEW v \in AcceptPrefix(count)
    PROVE  /\ v.rest \in Seq(Tokens) /\ v.advance = Len(v.rest) /\ Len(v.rest) \in Nat \ {0}
           /\ \A k \in 1 .. Len(v.rest) - 1 : v.rest[k] = draft[k]
<1>1. CASE v \in EndedByDraft(count)
  <2>1. PICK n \in 1 .. K :
            v = [rest |-> SubSeq(draft, 1, n), advance |-> n, reason |-> Reason(draft[n], count + n)]
    BY <1>1 DEF EndedByDraft
  <2>2. /\ SubSeq(draft, 1, n) \in Seq(Tokens) /\ Len(SubSeq(draft, 1, n)) = n
        /\ \A k \in 1 .. n : SubSeq(draft, 1, n)[k] = draft[k]
    BY DraftPrefix
  <2>3. QED
    BY <2>1, <2>2
<1>2. CASE v \in EndedBySample(count)
  <2>1. PICK n \in 0 .. K, t \in Tokens :
            v = [rest |-> Append(SubSeq(draft, 1, n), t), advance |-> n + 1,
                 reason |-> Reason(t, count + n + 1)]
    BY <1>2 DEF EndedBySample
  <2>2. /\ SubSeq(draft, 1, n) \in Seq(Tokens) /\ Len(SubSeq(draft, 1, n)) = n
        /\ \A k \in 1 .. n : SubSeq(draft, 1, n)[k] = draft[k]
    BY DraftPrefix
  <2>3. /\ v.rest \in Seq(Tokens) /\ Len(v.rest) = n + 1
        /\ \A k \in 1 .. n : v.rest[k] = draft[k]
    BY <2>1, <2>2
  <2>4. QED
    BY <2>1, <2>3
<1>3. CASE v \in EndedUnsampled(count)
  BY <1>3, AcceptedRoom DEF EndedUnsampled
<1>4. QED
  BY <1>1, <1>2, <1>3 DEF AcceptPrefix

\* A cache that holds a text slot by slot and no more is that text's.
LEMMA PlacedWhole ==
    ASSUME NEW cache \in Seq(Slot), NEW text, NEW n \in Nat, Placed(cache, text, n), Len(cache) = n
    PROVE  cache = [i \in 1 .. n |-> <<text[i], i - 1>>]
<1>1. \A i \in 1 .. n : cache[i] = <<text[i], i - 1>>
  BY DEF Placed
<1>2. cache = [i \in 1 .. n |-> cache[i]]
  OBVIOUS
<1>3. QED
  BY <1>1, <1>2

\* Truncating a cache to what is placed leaves just that.
LEMMA PlacedTruncated ==
    ASSUME NEW cache \in Seq(Slot), NEW text, NEW n \in Nat, Placed(cache, text, n)
    PROVE  Len(Truncated(cache, n)) = n /\ Placed(Truncated(cache, n), text, n)
<1>1. n <= Len(cache) /\ \A i \in 1 .. n : cache[i] = <<text[i], i - 1>>
  BY DEF Placed
<1>2. Truncated(cache, n) = SubSeq(cache, 1, n)
  BY <1>1 DEF Truncated
<1>3. \A i \in 1 .. n : cache[i] \in Slot
  BY <1>1
<1>4. Len(SubSeq(cache, 1, n)) = n /\ \A i \in 1 .. n : SubSeq(cache, 1, n)[i] = cache[i]
  BY <1>1, <1>3, SubSeqProperties
<1>5. QED
  BY <1>1, <1>2, <1>4 DEF Placed

LEMMA DrafterPrefillOwn == Inv /\ OwnInv /\ DrafterPrefill => OwnInv'
<1>1. SUFFICES ASSUME Inv, OwnInv, DrafterPrefill PROVE OwnInv'
  OBVIOUS
<1>2. /\ target = Forwarded(<<>>, Prompt, 0) /\ Len(emitted) = 1 /\ pastLen' = Len(Prompt)
      /\ UNCHANGED <<target, emitted>> /\ pc' \in {"top", "finished"}
  BY <1>1 DEF Inv, CacheInv, OwnInv, DrafterPrefill, Finishes
<1>3. TypeOK /\ Own' = Own
  BY <1>1, <1>2 DEF Inv, Own
<1>4. /\ Len(Own) = Len(Prompt) + 1 /\ Len(Prompt) \in Nat
      /\ \A i \in 1 .. Len(Prompt) : Own[i] = Prompt[i]
  BY <1>2, <1>3, OwnProperties
<1>5. target = [i \in 1 .. Len(Prompt) |-> <<Prompt[i], 0 + i - 1>>]
  <2>1. [i \in 1 .. Len(Prompt) |-> <<Prompt[i], 0 + i - 1>>] \in Seq(Tokens \X Int)
    <3>1. \A i \in 1 .. Len(Prompt) : <<Prompt[i], 0 + i - 1>> \in Tokens \X Int
      OBVIOUS
    <3>2. QED
      BY <1>4, <3>1
  <2>2. QED
    BY <1>2, <2>1, ConcatEmptySeq DEF Forwarded
<1>6. Len(target) = Len(Prompt) /\ \A i \in 1 .. Len(Prompt) : target[i] = <<Own[i], i - 1>>
  BY <1>4, <1>5
<1>7. Placed(target', Own', pastLen') /\ Len(target') = pastLen' /\ pastLen' = Len(Own') - 1
  BY <1>2, <1>3, <1>4, <1>6 DEF Placed
<1>8. QED
  BY <1>2, <1>7 DEF OwnInv

\* What the verify adds is placed as far as the verdict goes, unless it is a full
\* accept.
LEMMA VerifyOwn == Inv /\ OwnInv /\ Verify => OwnInv'
<1>1. SUFFICES ASSUME Inv, OwnInv, Verify, bonuses' = 0 PROVE OwnInv'
  BY DEF OwnInv, Verify
<1> DEFINE rest == yielding'.rest
           past == pastLen + yielding'.advance
<1>2. /\ pc = "draft" /\ pc' = "emit" /\ Len(draft) = K /\ yielding' \in AcceptPrefix(Len(emitted))
      /\ UNCHANGED <<pastLen, draft, emitted>>
      /\ emitted # <<>> /\ Len(emitted) < MaxTokens
      /\ draft \in Seq(Tokens) /\ target \in Seq(Slot) /\ pastLen \in Nat /\ TypeOK
  BY <1>1 DEF Verify, BurstOver, Inv, TypeOK, TextInv
<1>3. bonuses = 0 /\ yielding'.advance # K + 1
  <2>1. bonuses \in Nat
    BY <1>1 DEF Inv, TypeOK
  <2>2. bonuses' = IF yielding'.advance = K + 1 THEN bonuses + 1 ELSE bonuses
    BY <1>1 DEF Verify
  <2>3. QED
    BY <1>1, <2>1, <2>2
<1>4. pastLen = Len(Own) - 1 /\ Len(target) = pastLen /\ Placed(target, Own, pastLen)
  BY <1>1, <1>2, <1>3 DEF OwnInv
<1>5. /\ Own \in Seq(Tokens) /\ Len(Own) \in Nat \ {0} /\ Own[Len(Own)] = Last /\ Own' = Own
      /\ Len(emitted) \in Nat
  BY <1>2, OwnProperties DEF Own
<1>6. /\ rest \in Seq(Tokens) /\ yielding'.advance = Len(rest) /\ Len(rest) \in Nat \ {0}
      /\ \A k \in 1 .. Len(rest) - 1 : rest[k] = draft[k]
  BY <1>2, <1>5, VerdictOfDraft
<1>7. Len(rest) <= K
  <2>1. yielding'.advance \in 0 .. (K + 1)
    BY <1>2, <1>5, VerdictFits, VerdictFields
  <2>2. QED
    BY <1>3, <1>6, <2>1
<1>8. /\ Ahead \in Seq(Slot) /\ Len(Ahead) = K
      /\ \A i \in 1 .. K : Ahead[i] = <<IF i = 1 THEN Last ELSE draft[i - 1], pastLen + i - 1>>
  BY <1>2, AheadType DEF Ahead
<1>9. /\ Len(target') = pastLen + K
      /\ \A i \in 1 .. pastLen + K : target'[i] = IF i <= pastLen THEN target[i] ELSE Ahead[i - pastLen]
  <2>1. target' = target \o Ahead
    BY <1>1, VerifiedIsAhead
  <2>2. /\ Len(target \o Ahead) = Len(target) + Len(Ahead)
        /\ \A i \in 1 .. Len(target) + Len(Ahead) :
               (target \o Ahead)[i] = IF i <= Len(target) THEN target[i] ELSE Ahead[i - Len(target)]
    BY <1>2, <1>8, ConcatProperties
  <2>3. Len(target) = pastLen /\ Len(Ahead) = K
    BY <1>4, <1>8
  <2>4. QED
    BY <2>1, <2>2, <2>3
<1> HIDE DEF rest
<1>10. /\ Len(Found') = Len(Own) + Len(rest)
       /\ \A i \in 1 .. Len(Own) + Len(rest) :
              Found'[i] = IF i <= Len(Own) THEN Own[i] ELSE rest[i - Len(Own)]
  <2>1. Found' = Own \o rest
    BY <1>5 DEF Found, rest
  <2>2. QED
    BY <1>5, <1>6, <2>1, ConcatProperties
<1>11. past = pastLen + Len(rest) /\ past = Len(Found') - 1 /\ past <= Len(target') /\ past \in Nat
  BY <1>2, <1>4, <1>5, <1>6, <1>7, <1>9, <1>10
<1> HIDE DEF past
<1>12. ASSUME NEW i \in 1 .. past PROVE target'[i] = <<Found'[i], i - 1>>
  <2>1. i \in 1 .. pastLen + K /\ i \in 1 .. Len(Own) + Len(rest) /\ Len(Own) = pastLen + 1
    BY <1>2, <1>4, <1>5, <1>6, <1>7, <1>11
  <2>2. CASE i <= pastLen
    <3>1. i \in 1 .. pastLen /\ i <= Len(Own)
      BY <1>2, <2>1, <2>2
    <3>2. QED
      BY <1>4, <1>9, <1>10, <2>1, <2>2, <3>1 DEF Placed
  <2>3. CASE i = pastLen + 1
    <3>1. ~(i <= pastLen) /\ i - pastLen = 1 /\ 1 \in 1 .. K /\ i = Len(Own) /\ pastLen + 1 - 1 = i - 1
      BY <1>2, <2>1, <2>3
    <3>2. Ahead[1] = <<Last, i - 1>>
      BY <1>8, <3>1
    <3>3. Found'[i] = Last
      BY <1>5, <1>10, <2>1, <3>1
    <3>4. QED
      BY <1>9, <2>1, <3>1, <3>2, <3>3
  <2>4. CASE i > pastLen + 1
    <3>1. /\ ~(i <= pastLen) /\ i - pastLen \in 1 .. K /\ i - pastLen # 1 /\ pastLen + (i - pastLen) - 1 = i - 1
          /\ (i - pastLen) - 1 = i - Len(Own) /\ ~(i <= Len(Own)) /\ i - Len(Own) \in 1 .. Len(rest) - 1
      BY <1>2, <1>6, <1>7, <1>11, <2>1, <2>4
    <3>2. Ahead[i - pastLen] = <<draft[i - Len(Own)], i - 1>>
      BY <1>8, <3>1
    <3>3. Found'[i] = draft[i - Len(Own)]
      BY <1>6, <1>10, <2>1, <3>1
    <3>4. QED
      BY <1>9, <2>1, <3>1, <3>2, <3>3
  <2>5. QED
    BY <1>2, <2>1, <2>2, <2>3, <2>4
<1>13. Placed(target', Found', past)
  BY <1>11, <1>12 DEF Placed
<1>14. pastLen' + yielding'.advance = past
  BY <1>2 DEF past
<1>15. QED
  BY <1>2, <1>11, <1>13, <1>14 DEF OwnInv

\* Handing a token out does not change the text that is found.
LEMMA EmitTokenOwn == Inv /\ OwnInv /\ EmitToken => OwnInv'
<1>1. SUFFICES ASSUME Inv, OwnInv, EmitToken PROVE OwnInv'
  OBVIOUS
<1> DEFINE rest == yielding.rest
<1>2. /\ pc = "emit" /\ rest # <<>> /\ emitted' = Append(emitted, Head(rest))
      /\ yielding' = [yielding EXCEPT !.rest = Tail(rest)]
      /\ UNCHANGED <<pc, target, pastLen, bonuses>>
      /\ emitted \in Seq(Tokens) /\ yielding \in Verdict
  BY <1>1 DEF EmitToken, Inv, TypeOK
<1>3. rest \in Seq(Tokens)
  BY <1>2, VerdictFields
<1>4. /\ Tail(rest) \in Seq(Tokens) /\ Head(rest) \in Tokens
      /\ <<Head(rest)>> \in Seq(Tokens)
      /\ rest = <<Head(rest)>> \o Tail(rest)
  BY <1>2, <1>3
<1>5. yielding'.rest = Tail(rest) /\ yielding'.advance = yielding.advance
  BY <1>2 DEF Verdict
<1> HIDE DEF rest
<1>6. Found' = Found
  <2>1. emitted' = emitted \o <<Head(rest)>> /\ Prompt \in Seq(Tokens)
    BY <1>2, <1>4
  <2>2. Own' = Own \o <<Head(rest)>> /\ Own \in Seq(Tokens)
    BY <1>2, <1>4, <2>1, ConcatAssociative, ConcatProperties DEF Own
  <2>3. Found' = (Own \o <<Head(rest)>>) \o Tail(rest)
    BY <1>5, <2>2 DEF Found
  <2>4. Found' = Own \o (<<Head(rest)>> \o Tail(rest))
    <3>1. <<Head(rest)>> \in Seq(Tokens) /\ Tail(rest) \in Seq(Tokens) /\ Own \in Seq(Tokens)
      BY <1>4, <2>2
    <3>2. QED
      BY <2>3, <3>1, ConcatAssociative
  <2>5. QED
    BY <1>4, <2>4 DEF Found, rest
<1>7. QED
  BY <1>1, <1>2, <1>5, <1>6 DEF OwnInv

LEMMA RollbackOwn == Inv /\ OwnInv /\ Rollback => OwnInv'
<1>1. SUFFICES ASSUME Inv, OwnInv, Rollback, bonuses' = 0 PROVE OwnInv'
  BY DEF OwnInv, Rollback, Finishes
<1> DEFINE past == pastLen + yielding.advance
<1>2. /\ pc = "emit" /\ yielding.rest = <<>> /\ pastLen' = past
      /\ target' = Truncated(target, past) /\ pc' \in {"top", "finished"}
      /\ UNCHANGED <<emitted, bonuses>> /\ target \in Seq(Slot) /\ TypeOK
  BY <1>1 DEF Rollback, Kept, Finishes, Inv, TypeOK
<1>3. past \in Nat
  <2>1. yielding.advance \in Nat /\ pastLen \in Nat
    BY <1>2, VerdictFields DEF TypeOK
  <2>2. QED
    BY <2>1
<1>4. Found = Own /\ Own' = Own
  <2>1. Own \in Seq(Tokens)
    BY <1>2, OwnProperties
  <2>2. QED
    BY <1>2, <2>1, ConcatEmptySeq DEF Found, Own
<1>5. past = Len(Own) - 1 /\ Placed(target, Own, past)
  BY <1>1, <1>2, <1>4 DEF OwnInv
<1> HIDE DEF past
<1>6. Len(target') = past /\ Placed(target', Own', past)
  BY <1>2, <1>3, <1>4, <1>5, PlacedTruncated
<1>7. QED
  BY <1>2, <1>4, <1>5, <1>6 DEF OwnInv

LEMMA OwnNext == Inv /\ OwnInv /\ [Next]_vars => OwnInv'
<1>1. SUFFICES ASSUME Inv, OwnInv, [Next]_vars PROVE OwnInv'
  OBVIOUS
<1>2. CASE Prefill
  <2>1. PICK t \in Tokens : emitted' = <<t>>
    BY <1>2 DEF Prefill
  <2>2. Len(emitted') = 1
    BY <2>1
  <2>3. QED
    BY <1>2, <2>2 DEF Prefill, OwnInv
<1>3. CASE DrafterPrefill
  BY <1>1, <1>3, DrafterPrefillOwn
<1>4. CASE BeginStep \/ DraftForward \/ DraftAborted
  BY <1>1, <1>4 DEF BeginStep, DraftForward, DraftAborted, Finishes, OwnInv, Own
<1>5. CASE Verify
  BY <1>1, <1>5, VerifyOwn
<1>6. CASE EmitToken
  BY <1>1, <1>6, EmitTokenOwn
<1>7. CASE Rollback
  BY <1>1, <1>7, RollbackOwn
<1>8. CASE Abort \/ Leave \/ ForwardFails \/ UNCHANGED vars
  BY <1>1, <1>8 DEF Abort, Leave, ForwardFails, vars, OwnInv, Own, Found
<1>9. QED
  BY <1>1, <1>2, <1>3, <1>4, <1>5, <1>6, <1>7, <1>8 DEF Next

\* Until a bonus has been added the target's cache holds between steps the prompt and the
\* tokens handed out but the last, each at its position.  Once one has been added the
\* cache may keep a refused token, and the theorem says nothing.
THEOREM CacheIsOwnTextHolds == Spec => []CacheIsOwnText
<1>1. Init => OwnInv
  BY DEF Init, OwnInv
<1>2. Inv /\ OwnInv => CacheIsOwnText
  <2>1. SUFFICES ASSUME Inv, OwnInv, AtRest, bonuses = 0
                 PROVE  target = [i \in 1 .. Len(Own) - 1 |-> <<Own[i], i - 1>>]
    BY DEF CacheIsOwnText
  <2>2. /\ pastLen = Len(Own) - 1 /\ Len(target) = pastLen /\ Placed(target, Own, pastLen)
        /\ target \in Seq(Slot) /\ pastLen \in Nat
    BY <2>1 DEF OwnInv, AtRest, Inv, TypeOK
  <2>3. QED
    BY <2>2, PlacedWhole
<1>3. QED
  BY <1>1, <1>2, OwnNext, InvHolds, PTL DEF Spec

(***************************************************************************)
(* The token stream.                                                       *)
(***************************************************************************)

\* A step of the generator hands out a token that may follow, gives a reason
\* that is true, or does nothing its consumer can see.
LEMMA StreamStep ==
    ASSUME Inv, [Next]_vars
    PROVE  [Stream!Emit \/ Stream!Finish]_(Stream!streamVars)
<1>0. Inv
  OBVIOUS
<1>t. emitted \in Seq(Tokens) /\ Len(emitted) \in Nat
  <2>1. emitted \in Seq(Tokens)
    BY <1>0 DEF Inv, TypeOK
  <2>2. QED
    BY <2>1
<1>s. emitted # <<>> => (Stream!Stopped <=> Last \in Stop)
  BY DEF Stream!Stopped, Last
<1>f. Stream!Full <=> Len(emitted) >= MaxTokens
  BY DEF Stream!Full
<1>1. CASE Prefill
  <2>1. emitted = <<>> /\ finishReason = "" /\ finishReason' = ""
    BY <1>0, <1>1 DEF Inv, TextInv, Prefill
  <2>2. PICK t \in Tokens : emitted' = <<t>>
    BY <1>1 DEF Prefill
  <2>3. emitted' = Append(emitted, t) /\ ~Stream!Stopped /\ Len(emitted) = 0
    <3>1. Append(<<>>, t) = <<t>> /\ Len(<<>>) = 0
      OBVIOUS
    <3>2. QED
      BY <2>1, <2>2, <3>1 DEF Stream!Stopped
  <2>4. ~Stream!Full
    BY <2>3, <1>f
  <2>5. Stream!Emit
    BY <2>1, <2>3, <2>4 DEF Stream!Emit
  <2>6. QED
    BY <2>5
<1>2. CASE DrafterPrefill
  <2>1. emitted # <<>> /\ finishReason = "" /\ emitted' = emitted
    BY <1>0, <1>2 DEF Inv, TextInv, DrafterPrefill
  <2>2. finishReason' = finishReason \/ (finishReason' = "stop-token" /\ Last \in Stop)
    BY <1>2 DEF DrafterPrefill, Finishes
  <2>3. QED
    BY <1>s, <2>1, <2>2 DEF Stream!Finish, Stream!streamVars
<1>3. CASE BeginStep
  <2>1. emitted # <<>> /\ finishReason = "" /\ emitted' = emitted /\ Last \notin Stop
    BY <1>0, <1>3 DEF Inv, TextInv, BeginStep
  <2>2. \/ finishReason' = finishReason
        \/ finishReason' = "aborted"
        \/ finishReason' = "max-tokens" /\ Len(emitted) >= MaxTokens
    BY <1>3 DEF BeginStep, Finishes
  <2>3. QED
    BY <1>s, <1>f, <2>1, <2>2 DEF Stream!Finish, Stream!streamVars
<1>4. CASE DraftAborted
  <2>1. emitted # <<>> /\ finishReason = "" /\ emitted' = emitted /\ Last \notin Stop
    BY <1>0, <1>4 DEF Inv, TextInv, DraftAborted
  <2>2. finishReason' = "aborted"
    BY <1>4 DEF DraftAborted, Finishes
  <2>3. QED
    BY <1>s, <2>1, <2>2 DEF Stream!Finish
<1>5. CASE EmitToken
  <2>1. /\ emitted # <<>> /\ finishReason = "" /\ finishReason' = "" /\ Last \notin Stop
        /\ yielding.rest # <<>> /\ Fits(yielding, Len(emitted))
        /\ emitted' = Append(emitted, Head(yielding.rest))
    BY <1>0, <1>5 DEF Inv, TextInv, EmitToken, Outlook
  <2>2. yielding.rest \in Seq(Tokens)
    BY <1>0, VerdictFields DEF Inv, TypeOK
  <2>3. Head(yielding.rest) \in Tokens /\ Len(yielding.rest) \in Nat \ {0}
    BY <2>1, <2>2, FirstAndRest
  <2>4. Len(emitted) + Len(yielding.rest) <= MaxTokens
    BY <2>1 DEF Fits
  <2>5. ~(Len(emitted) >= MaxTokens)
    BY <1>t, <2>3, <2>4
  <2>6. Stream!Emit
    BY <1>s, <1>f, <2>1, <2>3, <2>5 DEF Stream!Emit
  <2>7. QED
    BY <2>6
<1>6. CASE Rollback
  <2>1. /\ emitted # <<>> /\ finishReason = "" /\ emitted' = emitted
        /\ yielding.reason \in {"", "stop-token", "max-tokens"}
        /\ yielding.reason = "stop-token" <=> Last \in Stop
        /\ yielding.reason = "max-tokens" => Len(emitted) = MaxTokens
    BY <1>0, <1>6 DEF Inv, TextInv, Rollback, Outlook
  <2>2. \/ finishReason' = finishReason
        \/ yielding.reason # "" /\ finishReason' = yielding.reason
        \/ yielding.reason = "" /\ finishReason' = "max-tokens" /\ Len(emitted) >= MaxTokens
    BY <1>6 DEF Rollback, Finishes
  <2>3. yielding.reason = "max-tokens" => Len(emitted) >= MaxTokens
    <3>1. Len(emitted) = MaxTokens => Len(emitted) >= MaxTokens
      BY <1>t
    <3>2. QED
      BY <2>1, <3>1
  <2>4. QED
    BY <1>s, <1>f, <2>1, <2>2, <2>3 DEF Stream!Finish, Stream!streamVars
<1>7. CASE DraftForward \/ Verify \/ Abort \/ Leave \/ ForwardFails \/ UNCHANGED vars
  BY <1>7 DEF DraftForward, Verify, Abort, Leave, ForwardFails, vars, Stream!streamVars
<1>8. QED
  BY <1>1, <1>2, <1>3, <1>4, <1>5, <1>6, <1>7 DEF Next

\* The generator implements the token stream: nothing follows a stop token, the
\* budget holds over any number of bursts, and the reason given is the true one.
THEOREM ImplementsTokenStreamHolds == Spec => ImplementsTokenStream
<1>1. Init => Stream!StreamInit
  BY DEF Init, Stream!StreamInit
<1>2. Inv /\ [Next]_vars => [Stream!Emit \/ Stream!Finish]_(Stream!streamVars)
  BY StreamStep
<1>3. QED
  BY <1>1, <1>2, InvHolds, PTL DEF Spec, ImplementsTokenStream, Stream!Spec

=============================================================================
