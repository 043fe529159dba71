--------------------------- MODULE EnginePartsProofs ---------------------------
(***************************************************************************)
(* Theorems about parts that share no state with one another: the          *)
(* generation of one text, for every budget of tokens (Generation); the    *)
(* loads that bring models up and give them up, for any models, sizes and  *)
(* budget (ModelLoad); the ring of cells, of any size, for any sequences   *)
(* (KvRing); and the live dashboards of the benchmarks that run on the     *)
(* engine, for any jobs, dashboards and size of the buffer (LiveDashboard).*)
(*                                                                         *)
(* What is said of the text that was handed over follows from what the     *)
(* flags of the loop know about it: the depth is that of the text, an      *)
(* answer is awaited exactly while a block has none, and what is masked    *)
(* then keeps it so.  What is said of the loads holds of one load at a     *)
(* time, and the pool by one allocation more or less.  In the ring, the    *)
(* positions of a sequence are told off from 0 on by its cells.  What is   *)
(* on the way to a dashboard, told after what it shows, ends in what the   *)
(* server holds.                                                           *)
(***************************************************************************)
EXTENDS Generation, EngineParts, LiveInstance, Integers, FiniteSets, FunctionTheorems,
        FiniteSetTheorems, SequenceTheorems, TLAPS

USE GenerationAssumption, LoadAssumption, RingAssumption

(***************************************************************************)
(* Steps                                                                   *)
(***************************************************************************)

\* What is sampled after the prompt, or after a decode.
Sampling(t) ==
    \/ pc = "prefill" /\ t \in FirstCandidates
    \/ pc = "decoding" /\ t \in Candidates

\* The loop samples nothing.
Quiet ==
    /\ UNCHANGED <<sampledId, steering, output>>
    /\ \/ pc' = pc /\ finishReason' = finishReason
       \/ pc # "returned" /\ pc' \in {"left", "thrown"} /\ finishReason' = finishReason
       \/ /\ pc \in {"prefill", "decoding"} /\ aborted
          /\ pc' = "returned" /\ finishReason' = "aborted"
       \/ /\ pc = "yielded" /\ ~(sampledId = "eos" \/ aborted \/ BudgetUsed)
          /\ pc' = "decoding" /\ finishReason' = finishReason
       \/ /\ pc = "yielded" /\ (sampledId = "eos" \/ aborted \/ BudgetUsed)
          /\ pc' = "returned" /\ finishReason' = ReasonAtTop

\* It samples a tag out of place, a token that ends it, or one that it hands over.
Stray(t) ==
    /\ Sampling(t) /\ StrayTag(t)
    /\ sampledId' = t
    /\ UNCHANGED <<thinkDepth, thinkClosed, hasVisibleAnswerText, waitingForVisibleAnswer, output>>
    /\ requireLeadingWhitespaceForNextStep' \in BOOLEAN
    /\ pc' = "returned" /\ finishReason' = "stop-token"

Breaks(t) ==
    /\ pc = "decoding" /\ t \in Candidates /\ ~StrayTag(t)
    /\ BreakReason(t) # ""
    /\ Steer(t, GuardUsed)
    /\ UNCHANGED output
    /\ pc' = "returned" /\ finishReason' = BreakReason(t)

Emits(t) ==
    /\ Sampling(t) /\ ~StrayTag(t)
    /\ pc = "decoding" => BreakReason(t) = ""
    /\ \E used \in BOOLEAN : Steer(t, used)
    /\ EmitAndYield(t)

\* Whatever is masked or asked for, a token of the vocabulary is sampled.
LEMMA SampledTokens ==
    ASSUME NEW M, NEW g \in BOOLEAN, NEW l \in BOOLEAN, NEW w \in BOOLEAN
    PROVE  SampleVisibleAnswerToken(M, g, l, w) \subseteq Tokens
<1>1. Sampled(M) \subseteq Tokens
  BY DEF Sampled
<1>2. ASSUME NEW wanted, wanted \subseteq Tokens PROVE Resampled(M, wanted) \subseteq Tokens
  BY <1>2 DEF Resampled
<1>3. StartsWithWhitespace \subseteq Tokens /\ Tokens \ WhitespaceOnly \subseteq Tokens
  BY DEF StartsWithWhitespace, Tokens
<1>4. Resampled(M, StartsWithWhitespace) \subseteq Tokens
  BY <1>2, <1>3
<1>5. Resampled(M, Tokens \ WhitespaceOnly) \subseteq Tokens
  BY <1>2, <1>3
<1>6. QED
  BY <1>1, <1>4, <1>5 DEF SampleVisibleAnswerToken

LEMMA CandidateTokens ==
    ASSUME TypeOK PROVE Candidates \subseteq Tokens /\ FirstCandidates \subseteq Tokens
<1>1. FirstCandidates \subseteq Tokens
  <2>1. AnswerFirst \in BOOLEAN /\ waitingForVisibleAnswer \in BOOLEAN
    BY DEF AnswerFirst, TypeOK
  <2>2. QED
    BY <2>1, SampledTokens DEF FirstCandidates
<1>2. CASE Mode = "greedy"
  BY <1>1, <1>2 DEF Candidates
<1>3. CASE Mode = "topk"
  BY <1>1, <1>3 DEF Candidates, Sampled
<1>4. CASE Mode = "full"
  <2>1. /\ waitingForVisibleAnswer \in BOOLEAN /\ LeadingWhitespaceGuard \in BOOLEAN
        /\ (IF thinkClosed THEN Steered ELSE AnswerFirst) \in BOOLEAN
    BY DEF LeadingWhitespaceGuard, Steered, AnswerFirst, TypeOK
  <2>2. Candidates = SampleVisibleAnswerToken(LogitsMask, waitingForVisibleAnswer,
                         LeadingWhitespaceGuard, IF thinkClosed THEN Steered ELSE AnswerFirst)
    BY <1>4 DEF Candidates
  <2>3. QED
    BY <1>1, <2>1, <2>2, SampledTokens
<1>5. Mode \in {"greedy", "topk", "full"}
  BY DEF Mode, TypeOK, Configs
<1>6. QED
  BY <1>2, <1>3, <1>4, <1>5

LEMMA StepKinds ==
    ASSUME TypeOK, [Next]_vars
    PROVE  /\ config' = config /\ (aborted => aborted') /\ aborted' \in BOOLEAN
           /\ Quiet \/ \E t \in Tokens : Stray(t) \/ Breaks(t) \/ Emits(t)
<1>1. GuardUsed \in BOOLEAN
  BY DEF GuardUsed, LeadingWhitespaceGuard, TypeOK
<1>2. CASE Prefill
  <2>1. CASE aborted /\ Return("aborted") /\ UNCHANGED <<sampledId, steering>>
    BY <1>2, <2>1 DEF Prefill, Return, Quiet, TypeOK
  <2>2. ASSUME NEW t \in FirstCandidates, StrayTag(t), Return("stop-token"), sampledId' = t,
               UNCHANGED steering
        PROVE  Stray(t)
    <3>1. Sampling(t) /\ pc' = "returned" /\ finishReason' = "stop-token" /\ UNCHANGED output
      BY <1>2, <2>2 DEF Prefill, Return, Sampling
    <3>2. /\ UNCHANGED <<thinkDepth, thinkClosed, hasVisibleAnswerText, waitingForVisibleAnswer>>
          /\ requireLeadingWhitespaceForNextStep' = requireLeadingWhitespaceForNextStep
      BY <2>2 DEF steering
    <3>3. requireLeadingWhitespaceForNextStep \in BOOLEAN
      BY DEF TypeOK
    <3>4. QED
      BY <2>2, <3>1, <3>2, <3>3 DEF Stray
  <2>3. ASSUME NEW t \in FirstCandidates, ~StrayTag(t), Steer(t, FALSE), EmitAndYield(t)
        PROVE  Emits(t)
    <3>1. Sampling(t) /\ pc # "decoding"
      BY <1>2, <2>3 DEF Prefill, Sampling
    <3>2. \E used \in BOOLEAN : Steer(t, used)
      BY <2>3
    <3>3. QED
      BY <2>3, <3>1, <3>2 DEF Emits
  <2>4. config' = config /\ aborted' = aborted
    BY <1>2 DEF Prefill
  <2>5. QED
    BY <1>2, <2>1, <2>2, <2>3, <2>4, CandidateTokens DEF Prefill, TypeOK
<1>3. CASE DecodeDone
  <2>1. CASE aborted /\ Return("aborted") /\ UNCHANGED <<sampledId, steering>>
    BY <1>3, <2>1 DEF DecodeDone, Return, Quiet, TypeOK
  <2>2. ASSUME NEW t \in Candidates, StrayTag(t), Return("stop-token"), sampledId' = t,
               requireLeadingWhitespaceForNextStep' =
                   (requireLeadingWhitespaceForNextStep /\ ~GuardUsed),
               UNCHANGED <<thinkDepth, thinkClosed, hasVisibleAnswerText, waitingForVisibleAnswer>>
        PROVE  Stray(t)
    BY <1>1, <1>3, <2>2 DEF DecodeDone, Stray, Return, Sampling, TypeOK
  <2>3. ASSUME NEW t \in Candidates, ~StrayTag(t), Steer(t, GuardUsed),
               IF BreakReason(t) # "" THEN Return(BreakReason(t)) ELSE EmitAndYield(t)
        PROVE  Breaks(t) \/ Emits(t)
    BY <1>1, <1>3, <2>3 DEF DecodeDone, Emits, Breaks, Return, Sampling
  <2>4. config' = config /\ aborted' = aborted
    BY <1>3 DEF DecodeDone
  <2>5. QED
    BY <1>3, <2>1, <2>2, <2>3, <2>4, CandidateTokens DEF DecodeDone, TypeOK
<1>4. CASE Resume
  BY <1>4 DEF Resume, Return, Quiet, TypeOK
<1>5. CASE Abort \/ Throw \/ Leave
  BY <1>5 DEF Abort, Throw, Leave, Quiet, TypeOK
<1>6. CASE UNCHANGED vars
  BY <1>6 DEF vars, Quiet, TypeOK
<1>7. QED
  BY <1>2, <1>3, <1>4, <1>5, <1>6 DEF Next

(***************************************************************************)
(* Types                                                                   *)
(***************************************************************************)

\* A closing tag is handed over at depth 1 or more, so the depth stays a natural number.
LEMMA SteerType ==
    ASSUME TypeOK, NEW t \in Tokens, ~StrayTag(t), NEW used \in BOOLEAN, Steer(t, used)
    PROVE  /\ sampledId' \in Tokens /\ thinkDepth' \in Nat
           /\ thinkClosed' \in BOOLEAN /\ hasVisibleAnswerText' \in BOOLEAN
           /\ waitingForVisibleAnswer' \in BOOLEAN
           /\ requireLeadingWhitespaceForNextStep' \in BOOLEAN
<1>1. sampledId' \in Tokens
  BY DEF Steer
<1>2. thinkDepth' \in Nat
  <2>1. CASE t \notin Tags \/ t = "open"
    <3>1. thinkDepth \in Nat
      BY DEF TypeOK
    <3>2. thinkDepth' = thinkDepth \/ thinkDepth' = thinkDepth + 1
      BY <2>1 DEF Steer
    <3>3. QED
      BY <3>1, <3>2
  <2>2. CASE t \in Tags /\ t # "open"
    <3>1. thinkDepth \in Nat
      BY DEF TypeOK
    <3>2. thinkDepth > 0
      BY <2>2, <3>1 DEF StrayTag
    <3>3. thinkDepth' = thinkDepth - 1
      BY <2>2 DEF Steer
    <3>4. QED
      BY <3>1, <3>2, <3>3
  <2>3. QED
    BY <2>1, <2>2
<1>3. thinkClosed' \in BOOLEAN /\ hasVisibleAnswerText' \in BOOLEAN
  BY Zenon DEF Steer
<1>4. waitingForVisibleAnswer' \in BOOLEAN /\ requireLeadingWhitespaceForNextStep' \in BOOLEAN
  BY Zenon DEF Steer
<1>5. QED
  BY <1>1, <1>2, <1>3, <1>4

LEMMA EmitType ==
    ASSUME TypeOK, NEW t \in Tokens, EmitAndYield(t)
    PROVE  /\ emitted' \in Seq(Tokens) /\ channel' \in Seq({"visible", "thinking", "none"})
           /\ decoderDepth' \in Nat
           /\ Len(emitted') = Len(emitted) + 1 /\ Len(channel') = Len(channel) + 1
           /\ \A i \in 1 .. Len(emitted) : emitted'[i] = emitted[i]
           /\ \A i \in 1 .. Len(channel) : channel'[i] = channel[i]
           /\ emitted'[Len(emitted) + 1] = t
           /\ channel'[Len(channel) + 1] = Decoder(t, thinkDepth')
<1>1. Decoder(t, thinkDepth') \in {"visible", "thinking", "none"}
  BY DEF Decoder
<1>2. decoderDepth' \in Nat
  <2>1. CASE t = "close" /\ decoderDepth > 0 /\ t \notin Tags
    <3>1. decoderDepth' = decoderDepth - 1 /\ decoderDepth \in Nat
      BY <2>1 DEF EmitAndYield, TypeOK
    <3>2. QED
      BY <2>1, <3>1
  <2>2. CASE ~(t = "close" /\ decoderDepth > 0 /\ t \notin Tags)
    <3>1. decoderDepth' = decoderDepth \/ decoderDepth' = decoderDepth + 1
      BY <2>2 DEF EmitAndYield
    <3>2. decoderDepth \in Nat
      BY DEF TypeOK
    <3>3. QED
      BY <3>1, <3>2
  <2>3. QED
    BY <2>1, <2>2
<1>3. emitted \in Seq(Tokens) /\ emitted' = Append(emitted, t)
  BY DEF EmitAndYield, TypeOK
<1>4. /\ channel \in Seq({"visible", "thinking", "none"})
      /\ channel' = Append(channel, Decoder(t, thinkDepth'))
  BY DEF EmitAndYield, TypeOK
<1>5. /\ emitted' \in Seq(Tokens) /\ Len(emitted') = Len(emitted) + 1
      /\ \A i \in 1 .. Len(emitted) : emitted'[i] = emitted[i]
      /\ emitted'[Len(emitted) + 1] = t
  BY <1>3
<1>6. /\ channel' \in Seq({"visible", "thinking", "none"}) /\ Len(channel') = Len(channel) + 1
      /\ \A i \in 1 .. Len(channel) : channel'[i] = channel[i]
      /\ channel'[Len(channel) + 1] = Decoder(t, thinkDepth')
  BY <1>1, <1>4
<1>7. QED
  BY <1>2, <1>5, <1>6

LEMMA TypeStep == ASSUME TypeOK, [Next]_vars PROVE TypeOK'
<1>1. config' = config /\ aborted' \in BOOLEAN
  BY StepKinds
<1>2. CASE Quiet
  BY <1>1, <1>2 DEF Quiet, steering, output, TypeOK, ReasonAtTop
<1>3. ASSUME NEW t \in Tokens, Stray(t) PROVE TypeOK'
  BY <1>1, <1>3 DEF Stray, output, TypeOK
<1>4. ASSUME NEW t \in Tokens, Breaks(t) PROVE TypeOK'
  <2>1. GuardUsed \in BOOLEAN
    BY DEF GuardUsed, LeadingWhitespaceGuard, TypeOK
  <2>2. BreakReason(t) \in {"", "eos", "stop-token"}
    BY DEF BreakReason
  <2>3. QED
    BY <1>1, <1>4, <2>1, <2>2, SteerType DEF Breaks, output, TypeOK
<1>5. ASSUME NEW t \in Tokens, Emits(t) PROVE TypeOK'
  BY <1>1, <1>5, SteerType, EmitType DEF Emits, EmitAndYield, TypeOK
<1>6. QED
  BY <1>2, <1>3, <1>4, <1>5, StepKinds

\* The flags, the output and the reason keep their types for every budget.
THEOREM TypeCorrect == Spec => []TypeOK
<1>1. ASSUME Init PROVE TypeOK
  <2>1. waitingForVisibleAnswer \in BOOLEAN
    BY <1>1, Zenon DEF Init, AnswerFirst
  <2>2. emitted \in Seq(Tokens) /\ channel \in Seq({"visible", "thinking", "none"})
    <3>1. emitted = <<>> /\ channel = <<>>
      BY <1>1, Zenon DEF Init
    <3>2. QED
      BY <3>1
  <2>3. sampledId \in Tokens \cup {""} /\ thinkDepth \in Nat /\ decoderDepth \in Nat
    BY <1>1 DEF Init
  <2>4. QED
    BY <1>1, <2>1, <2>2, <2>3 DEF Init, TypeOK
<1>2. QED
  BY <1>1, TypeStep, PTL DEF Spec

(***************************************************************************)
(* Invariants                                                              *)
(***************************************************************************)

\* What was handed over last is what is decoded next, and an end of turn never is.
EndInv ==
    /\ finishReason # "" => pc = "returned"
    /\ pc = "prefill" => emitted = <<>>
    /\ pc \in {"yielded", "decoding"} => emitted # <<>> /\ sampledId = emitted[Len(emitted)]
    /\ pc = "decoding" => sampledId # "eos"
    /\ EndIsTrue

\* The depth is that of the text: the loop's where it knows the tags, else the decoder's.
DepthInv ==
    /\ Len(channel) = Len(emitted)
    /\ Steered => /\ thinkDepth \in {0, 1}
                  /\ decoderDepth = 0
                  /\ thinkDepth = 1 <=> InBlock(emitted, Len(emitted) + 1)
    /\ ~Steered => /\ thinkDepth = 0
                   /\ InBlock(emitted, Len(emitted) + 1) => decoderDepth > 0

\* Where the tags are known: an answer is awaited from the end of a block until there is
\* some, and the first token after the block has its guard.
SteeredInv ==
    /\ pc = "prefill" => ~waitingForVisibleAnswer /\ ~hasVisibleAnswerText /\ thinkDepth = 0
    /\ hasVisibleAnswerText => thinkDepth = 0
    /\ waitingForVisibleAnswer => thinkDepth = 0 /\ ~hasVisibleAnswerText
    /\ \A i \in 1 .. Len(emitted) : Unanswered(i) => waitingForVisibleAnswer
    /\ pc \in {"yielded", "decoding"} /\ emitted[Len(emitted)] = "close" =>
          waitingForVisibleAnswer /\ requireLeadingWhitespaceForNextStep
    /\ \A i \in 1 .. (Len(emitted) - 1) :
          emitted[i] = "close" => emitted[i + 1] \in StartsWithWhitespace

\* Where an answer is required first, it is awaited until there is some.
AnswerFirstInv ==
    /\ waitingForVisibleAnswer \/ hasVisibleAnswerText
    /\ ~thinkClosed /\ ~requireLeadingWhitespaceForNextStep
    /\ hasVisibleAnswerText => \E i \in 1 .. Len(emitted) : emitted[i] \in VisibleText

\* No token that ends the text is sampled while an answer is awaited, nor in a block but
\* for the caller's.
StopInv ==
    /\ pc = "yielded" /\ sampledId = "eos" => ~waitingForVisibleAnswer /\ thinkDepth = 0
    /\ Stopped => /\ ~waitingForVisibleAnswer
                  /\ thinkDepth > 0 => sampledId = "stop"

AnswerInv ==
    config.sampler # "greedy" =>
        /\ Steered => SteeredInv
        /\ AnswerFirst => AnswerFirstInv
        /\ Steered \/ AnswerFirst => StopInv

-----------------------------------------------------------------------------
(***************************************************************************)
(* What the steps say of the text                                          *)
(***************************************************************************)

LEMMA TextLength == ASSUME TypeOK PROVE Len(emitted) \in Nat
<1>1. emitted \in Seq(Tokens)
  BY DEF TypeOK
<1>2. QED
  BY <1>1

\* A token that is handed over leaves what came before it in or out of its block.
LEMMA BlockAppend ==
    ASSUME TypeOK, NEW t \in Tokens, EmitAndYield(t)
    PROVE  /\ \A i \in 1 .. (Len(emitted) + 1) : InBlock(emitted', i) <=> InBlock(emitted, i)
           /\ InBlock(emitted', Len(emitted) + 2) <=>
                 t = "open" \/ (t # "close" /\ InBlock(emitted, Len(emitted) + 1))
<1> DEFINE n == Len(emitted)
<1>0. n \in Nat
  BY TextLength
<1>1. /\ \A i \in 1 .. n : emitted'[i] = emitted[i]
      /\ emitted'[n + 1] = t
  BY EmitType
<1>2. ASSUME NEW i \in 1 .. (n + 1) PROVE InBlock(emitted', i) <=> InBlock(emitted, i)
  <2>1. \A j \in 1 .. (i - 1) : j \in 1 .. n /\ emitted'[j] = emitted[j]
    BY <1>0, <1>1
  <2>2. \A j \in 1 .. (i - 1) : \A k \in (j + 1) .. (i - 1) : k \in 1 .. (i - 1)
    BY <1>0
  <2>3. QED
    BY <2>1, <2>2 DEF InBlock
<1>3. ASSUME t = "close" PROVE ~InBlock(emitted', n + 2)
  <2>1. SUFFICES ASSUME NEW j \in 1 .. (n + 2 - 1), emitted'[j] = "open",
                        \A k \in (j + 1) .. (n + 2 - 1) : emitted'[k] # "close"
                 PROVE  FALSE
    BY DEF InBlock
  <2>2. j # n + 1
    BY <1>1, <1>3, <2>1
  <2>3. n + 1 \in (j + 1) .. (n + 2 - 1)
    BY <1>0, <2>1, <2>2
  <2>4. QED
    BY <1>1, <1>3, <2>1, <2>3
<1>4. ASSUME t = "open" PROVE InBlock(emitted', n + 2)
  <2>1. n + 1 \in 1 .. (n + 2 - 1) /\ emitted'[n + 1] = "open"
    BY <1>0, <1>1, <1>4
  <2>2. (n + 1 + 1) .. (n + 2 - 1) = {}
    BY <1>0
  <2>3. QED
    BY <2>1, <2>2 DEF InBlock
<1>5. ASSUME t # "open", t # "close" PROVE InBlock(emitted', n + 2) <=> InBlock(emitted, n + 1)
  <2>1. ASSUME InBlock(emitted', n + 2) PROVE InBlock(emitted, n + 1)
    <3>1. PICK j \in 1 .. (n + 2 - 1) : /\ emitted'[j] = "open"
                                        /\ \A k \in (j + 1) .. (n + 2 - 1) : emitted'[k] # "close"
      BY <2>1 DEF InBlock
    <3>2. j \in 1 .. n
      BY <1>0, <1>1, <1>5, <3>1
    <3>3. \A k \in (j + 1) .. n : k \in (j + 1) .. (n + 2 - 1) /\ k \in 1 .. n
      BY <1>0, <3>2
    <3>4. emitted[j] = "open" /\ \A k \in (j + 1) .. n : emitted[k] # "close"
      BY <1>1, <3>1, <3>2, <3>3
    <3>5. n + 1 - 1 = n
      BY <1>0
    <3>6. QED
      BY <3>2, <3>4, <3>5 DEF InBlock
  <2>2. ASSUME InBlock(emitted, n + 1) PROVE InBlock(emitted', n + 2)
    <3>0. n + 1 - 1 = n /\ n + 2 - 1 = n + 1
      BY <1>0
    <3>1. PICK j \in 1 .. n : /\ emitted[j] = "open"
                              /\ \A k \in (j + 1) .. n : emitted[k] # "close"
      BY <2>2, <3>0 DEF InBlock
    <3>2. j \in 1 .. (n + 1) /\ emitted'[j] = "open"
      BY <1>0, <1>1, <3>1
    <3>3. ASSUME NEW k \in (j + 1) .. (n + 1) PROVE emitted'[k] # "close"
      <4>1. CASE k = n + 1
        BY <1>1, <1>5, <4>1
      <4>2. CASE k # n + 1
        <5>1. k \in (j + 1) .. n /\ k \in 1 .. n
          BY <1>0, <3>1, <4>2
        <5>2. QED
          BY <1>1, <3>1, <5>1
      <4>3. QED
        BY <4>1, <4>2
    <3>4. QED
      BY <3>0, <3>2, <3>3 DEF InBlock
  <2>3. QED
    BY <2>1, <2>2
<1>6. QED
  BY <1>2, <1>3, <1>4, <1>5

\* What the flags become, one fact each.
LEMMA SteerParts ==
    ASSUME NEW t \in Tokens, NEW used, Steer(t, used)
    PROVE  /\ sampledId' = t
           /\ thinkDepth' = IF t \notin Tags THEN thinkDepth
                            ELSE IF t = "open" THEN thinkDepth + 1 ELSE thinkDepth - 1
           /\ thinkClosed' <=> (thinkClosed \/ Closes(t))
           /\ hasVisibleAnswerText' <=> (hasVisibleAnswerText \/ Answers(t))
           /\ waitingForVisibleAnswer' <=>
                 ((waitingForVisibleAnswer \/ Closes(t)) /\ ~Answers(t))
           /\ Closes(t) => requireLeadingWhitespaceForNextStep'
           /\ ~Closes(t) /\ ~requireLeadingWhitespaceForNextStep
                 => ~requireLeadingWhitespaceForNextStep'
<1>1. sampledId' = t
  BY Zenon DEF Steer
<1>2. thinkDepth' = IF t \notin Tags THEN thinkDepth
                    ELSE IF t = "open" THEN thinkDepth + 1 ELSE thinkDepth - 1
  BY Zenon DEF Steer
<1>3. thinkClosed' <=> (thinkClosed \/ Closes(t))
  BY Zenon DEF Steer
<1>4. hasVisibleAnswerText' <=> (hasVisibleAnswerText \/ Answers(t))
  BY Zenon DEF Steer
<1>5. waitingForVisibleAnswer' <=> ((waitingForVisibleAnswer \/ Closes(t)) /\ ~Answers(t))
  BY Zenon DEF Steer
<1>6. Closes(t) => requireLeadingWhitespaceForNextStep'
  BY Zenon DEF Steer
<1>7. ~Closes(t) /\ ~requireLeadingWhitespaceForNextStep => ~requireLeadingWhitespaceForNextStep'
  BY Zenon DEF Steer
<1>8. QED
  BY <1>1, <1>2, <1>3, <1>4, <1>5, <1>6, <1>7

(***************************************************************************)
(* The end                                                                 *)
(***************************************************************************)

LEMMA EndStep == ASSUME TypeOK, EndInv, [Next]_vars PROVE EndInv'
<1>0. config' = config /\ (aborted => aborted') /\ Len(emitted) \in Nat
  BY StepKinds, TextLength
<1>1. CASE Quiet
  <2>1. emitted' = emitted /\ sampledId' = sampledId
    BY <1>1 DEF Quiet, output
  <2>2. BudgetUsed' <=> BudgetUsed
    BY <1>0, <2>1 DEF BudgetUsed
  <2>3. CASE finishReason' = finishReason
    <3>1. CASE pc' = pc
      BY <1>0, <2>1, <2>2, <2>3, <3>1 DEF EndInv, EndIsTrue
    <3>2. CASE pc # "returned" /\ pc' \in {"left", "thrown"}
      BY <1>0, <2>1, <2>2, <2>3, <3>2 DEF EndInv, EndIsTrue
    <3>3. CASE pc = "yielded" /\ pc' = "decoding" /\ sampledId # "eos"
      BY <1>0, <2>1, <2>2, <2>3, <3>3 DEF EndInv, EndIsTrue
    <3>4. CASE pc' = "returned"
      BY <1>0, <2>1, <2>2, <2>3, <3>4 DEF EndInv, EndIsTrue
    <3>5. QED
      BY <1>1, <3>1, <3>2, <3>3, <3>4 DEF Quiet
  <2>4. CASE pc' = "returned" /\ aborted /\ finishReason' = "aborted"
    BY <1>0, <2>1, <2>2, <2>4 DEF EndInv, EndIsTrue
  <2>5. CASE /\ pc' = "returned" /\ finishReason' = ReasonAtTop
             /\ sampledId = "eos" \/ aborted \/ BudgetUsed
    <3>1. /\ finishReason' = "aborted" => aborted
          /\ finishReason' = "eos" => sampledId = "eos"
          /\ finishReason' = "max-tokens" => BudgetUsed /\ sampledId # "eos"
      BY <2>5 DEF ReasonAtTop
    <3>2. QED
      BY <1>0, <2>1, <2>2, <2>5, <3>1 DEF EndInv, EndIsTrue
  <2>6. QED
    BY <1>1, <2>3, <2>4, <2>5 DEF Quiet
<1>2. ASSUME NEW t \in Tokens, Stray(t) PROVE EndInv'
  BY <1>0, <1>2 DEF Stray, output, EndInv, EndIsTrue
<1>3. ASSUME NEW t \in Tokens, Breaks(t) PROVE EndInv'
  <2>1. sampledId' = t /\ emitted' = emitted /\ pc' = "returned"
    BY <1>3, SteerParts DEF Breaks, output
  <2>2. finishReason' = "stop-token" \/ (finishReason' = "eos" /\ t = "eos")
    BY <1>3 DEF Breaks, BreakReason
  <2>3. QED
    BY <1>0, <2>1, <2>2 DEF EndInv, EndIsTrue
<1>4. ASSUME NEW t \in Tokens, Emits(t) PROVE EndInv'
  <2>0. sampledId' = t /\ pc' = "yielded" /\ finishReason' = finishReason
    BY <1>4, SteerParts DEF Emits, EmitAndYield
  <2>1. EmitAndYield(t) /\ pc \in {"prefill", "decoding"}
    BY <1>4 DEF Emits, Sampling
  <2>2. /\ Len(emitted') = Len(emitted) + 1
        /\ emitted'[Len(emitted) + 1] = t
    BY <2>1, EmitType
  <2>3. \A i \in 1 .. Len(emitted) : emitted'[i] = emitted[i]
    BY <2>1, EmitType
  <2>4. emitted' # <<>>
    BY <1>0, <2>2
  <2>5. finishReason = ""
    BY <2>1 DEF EndInv
  <2>6. CASE pc = "prefill"
    <3>1. emitted = <<>>
      BY <2>6 DEF EndInv
    <3>2. Len(emitted) = 0
      BY <3>1
    <3>3. Len(emitted') = 1 /\ emitted'[1] = t
      BY <2>2, <3>2
    <3>4. \A i \in 1 .. Len(emitted') : i = 1
      BY <3>3
    <3>5. QED
      BY <2>0, <2>4, <2>5, <3>3, <3>4 DEF EndInv, EndIsTrue
  <2>7. CASE pc = "decoding"
    <3>1. t \notin StopTokens /\ t # "eos"
      BY <1>4, <2>7 DEF Emits, BreakReason
    <3>2. \A i \in 1 .. Len(emitted) : emitted[i] # "eos"
      BY <1>0, <2>7 DEF EndInv, EndIsTrue
    <3>3. \A i \in 1 .. Len(emitted) : emitted[i] \in StopTokens => i = 1
      BY DEF EndInv, EndIsTrue
    <3>4. \A i \in 1 .. Len(emitted') : emitted'[i] # "eos"
      BY <1>0, <2>2, <2>3, <3>1, <3>2
    <3>5. \A i \in 1 .. Len(emitted') : emitted'[i] \in StopTokens => i = 1
      BY <1>0, <2>2, <2>3, <3>1, <3>3
    <3>6. QED
      BY <2>0, <2>2, <2>4, <2>5, <3>4, <3>5 DEF EndInv, EndIsTrue
  <2>8. QED
    BY <2>1, <2>6, <2>7
<1>5. QED
  BY <1>1, <1>2, <1>3, <1>4, StepKinds

LEMMA EndInit == ASSUME Init PROVE EndInv
<1>1. pc = "prefill" /\ emitted = <<>> /\ finishReason = ""
  BY Zenon DEF Init
<1>2. Len(emitted) = 0
  BY <1>1
<1>3. \A i \in 1 .. Len(emitted) : FALSE
  BY <1>2
<1>4. EndIsTrue
  BY <1>1, <1>3 DEF EndIsTrue
<1>5. QED
  BY <1>1, <1>4 DEF EndInv

\* The end of turn ends the text, the reason given for the end is the true one, and only
\* the first token may be a stop token.
THEOREM EndIsTrueHolds == Spec => []EndIsTrue
<1>1. Spec => []EndInv
  BY EndInit, EndStep, TypeCorrect, PTL DEF Spec
<1>2. EndInv => EndIsTrue
  BY DEF EndInv
<1>3. QED
  BY <1>1, <1>2, PTL

(***************************************************************************)
(* The depth                                                               *)
(***************************************************************************)

\* Where a block is opened and closed, as the flags tell.
LEMMA DepthStep == ASSUME TypeOK, DepthInv, [Next]_vars PROVE DepthInv'
<1>0. config' = config /\ Len(emitted) \in Nat /\ thinkDepth \in Nat /\ decoderDepth \in Nat
  BY StepKinds, TextLength DEF TypeOK
<1>1. CASE UNCHANGED <<thinkDepth, output>>
  BY <1>0, <1>1 DEF DepthInv, output, Steered
<1>2. ASSUME NEW t \in Tokens, Breaks(t) PROVE UNCHANGED <<thinkDepth, output>>
  <2>1. t \notin Tags
    BY <1>2 DEF Breaks, BreakReason, StopTokens, ForbiddenReentryTokens, Tags
  <2>2. QED
    BY <1>2, <2>1, SteerParts DEF Breaks
<1>3. ASSUME NEW t \in Tokens, Emits(t) PROVE DepthInv'
  <2> DEFINE n == Len(emitted)
  <2>1. EmitAndYield(t) /\ ~StrayTag(t)
    BY <1>3 DEF Emits
  <2>2. Len(emitted') = n + 1 /\ Len(channel') = Len(channel) + 1
    BY <2>1, EmitType
  <2>3. InBlock(emitted', n + 2) <=>
            t = "open" \/ (t # "close" /\ InBlock(emitted, n + 1))
    BY <2>1, BlockAppend
  <2>4. thinkDepth' = IF t \notin Tags THEN thinkDepth
                      ELSE IF t = "open" THEN thinkDepth + 1 ELSE thinkDepth - 1
    BY <1>3, SteerParts DEF Emits
  <2>5. decoderDepth' = IF t \in Tags THEN decoderDepth
                        ELSE IF t = "open" THEN decoderDepth + 1
                        ELSE IF t = "close" /\ decoderDepth > 0 THEN decoderDepth - 1
                        ELSE decoderDepth
    BY <2>1 DEF EmitAndYield
  <2>6. Len(channel') = Len(emitted') /\ Len(emitted') + 1 = n + 2
    BY <1>0, <2>2 DEF DepthInv
  <2>7. CASE Steered
    <3>1. Tags = {"open", "close"} /\ Steered'
      BY <1>0, <2>7 DEF Tags, Steered
    <3>2. thinkDepth \in {0, 1} /\ decoderDepth = 0 /\ (thinkDepth = 1 <=> InBlock(emitted, n + 1))
      BY <2>7 DEF DepthInv
    <3>3. CASE t = "open"
      <4>1. thinkDepth = 0
        BY <1>0, <2>1, <3>1, <3>2, <3>3 DEF StrayTag
      <4>2. thinkDepth' = 1 /\ decoderDepth' = 0
        BY <2>4, <2>5, <3>1, <3>2, <3>3, <4>1
      <4>3. QED
        BY <2>3, <2>6, <3>1, <3>3, <4>2 DEF DepthInv
    <3>4. CASE t = "close"
      <4>1. thinkDepth = 1
        BY <1>0, <2>1, <3>1, <3>2, <3>4 DEF StrayTag
      <4>2. thinkDepth' = 0 /\ decoderDepth' = 0
        BY <2>4, <2>5, <3>1, <3>2, <3>4, <4>1
      <4>3. QED
        BY <2>3, <2>6, <3>1, <3>4, <4>2 DEF DepthInv
    <3>5. CASE t \notin {"open", "close"}
      <4>1. thinkDepth' = thinkDepth /\ decoderDepth' = 0
        BY <2>4, <2>5, <3>1, <3>2, <3>5
      <4>2. QED
        BY <2>3, <2>6, <3>1, <3>2, <3>5, <4>1 DEF DepthInv
    <3>6. QED
      BY <3>3, <3>4, <3>5
  <2>8. CASE ~Steered
    <3>1. Tags = {} /\ ~Steered'
      BY <1>0, <2>8 DEF Tags, Steered
    <3>2. thinkDepth' = 0 /\ (InBlock(emitted, n + 1) => decoderDepth > 0)
      BY <2>4, <2>8, <3>1 DEF DepthInv
    <3>3. InBlock(emitted', n + 2) => decoderDepth' > 0
      BY <1>0, <2>3, <2>5, <3>1, <3>2
    <3>4. QED
      BY <2>6, <3>1, <3>2, <3>3 DEF DepthInv
  <2>9. QED
    BY <2>7, <2>8
<1>4. QED
  BY <1>1, <1>2, <1>3, StepKinds DEF Quiet, Stray, steering

LEMMA DepthInit == ASSUME Init PROVE DepthInv
<1>1. emitted = <<>> /\ channel = <<>> /\ thinkDepth = 0 /\ decoderDepth = 0
  BY Zenon DEF Init
<1>2. Len(emitted) = 0 /\ Len(channel) = 0
  BY <1>1
<1>3. ~InBlock(emitted, Len(emitted) + 1)
  BY <1>2 DEF InBlock
<1>4. QED
  BY <1>1, <1>2, <1>3 DEF DepthInv

LEMMA ApartStep ==
    ASSUME TypeOK, DepthInv, ThoughtsApart, [Next]_vars PROVE ThoughtsApart'
<1>0. config' = config /\ Len(emitted) \in Nat
  BY StepKinds, TextLength
<1>1. CASE UNCHANGED output
  BY <1>0, <1>1 DEF ThoughtsApart, output, Steered
<1>2. ASSUME NEW t \in Tokens, Emits(t) PROVE ThoughtsApart'
  <2> DEFINE n == Len(emitted)
  <2>1. EmitAndYield(t) /\ ~StrayTag(t) /\ Len(channel) = n
    BY <1>2 DEF Emits, DepthInv
  <2>2. /\ Len(emitted') = n + 1
        /\ emitted'[n + 1] = t
        /\ channel'[n + 1] = Decoder(t, thinkDepth')
    BY <2>1, EmitType
  <2>3. \A i \in 1 .. n : emitted'[i] = emitted[i]
    BY <2>1, EmitType
  <2>4. \A i \in 1 .. n : channel'[i] = channel[i]
    BY <2>1, EmitType
  <2>5. \A i \in 1 .. (n + 1) : InBlock(emitted', i) <=> InBlock(emitted, i)
    BY <2>1, BlockAppend
  <2>6. t \notin {"open", "close"} => thinkDepth' = thinkDepth
    BY <1>2, SteerParts DEF Emits, Tags
  <2>7. /\ channel'[n + 1] = "visible" => ~InBlock(emitted, n + 1) /\ t \notin {"open", "close"}
        /\ Steered /\ t \notin {"open", "close"} =>
              channel'[n + 1] = IF InBlock(emitted, n + 1) THEN "thinking" ELSE "visible"
    <3>1. CASE t \in {"open", "close"}
      BY <2>2, <3>1 DEF Decoder
    <3>2. CASE t \notin {"open", "close"} /\ Steered
      <4>1. /\ decoderDepth = 0 /\ thinkDepth \in {0, 1}
            /\ thinkDepth = 1 <=> InBlock(emitted, n + 1)
        BY <3>2 DEF DepthInv
      <4>2. channel'[n + 1] = IF thinkDepth > 0 THEN "thinking" ELSE "visible"
        BY <2>2, <2>6, <3>2, <4>1 DEF Decoder
      <4>3. QED
        BY <3>2, <4>1, <4>2
    <3>3. CASE t \notin {"open", "close"} /\ ~Steered
      BY <2>2, <2>6, <3>3 DEF Decoder, DepthInv
    <3>4. QED
      BY <3>1, <3>2, <3>3
  <2>8. SUFFICES ASSUME NEW i \in 1 .. (n + 1)
                 PROVE  /\ channel'[i] = "visible" =>
                              ~InBlock(emitted', i) /\ emitted'[i] \notin {"open", "close"}
                        /\ Steered /\ emitted'[i] \notin {"open", "close"} =>
                              channel'[i] = IF InBlock(emitted', i) THEN "thinking" ELSE "visible"
    BY <1>0, <2>2 DEF ThoughtsApart, Steered
  <2>9. InBlock(emitted', i) <=> InBlock(emitted, i)
    BY <2>5
  <2>10. CASE i = n + 1
    BY <2>2, <2>7, <2>9, <2>10
  <2>11. CASE i \in 1 .. n
    <3>1. emitted'[i] = emitted[i] /\ channel'[i] = channel[i]
      BY <2>3, <2>4, <2>11
    <3>2. QED
      BY <2>9, <2>11, <3>1 DEF ThoughtsApart
  <2>12. QED
    BY <1>0, <2>10, <2>11
<1>3. QED
  BY <1>1, <1>2, StepKinds DEF Quiet, Stray, Breaks

\* What was written in a think block is not shown as the answer, and where the tags are
\* known what was written outside one is.
THEOREM ThoughtsApartHolds == Spec => []ThoughtsApart
<1>1. ASSUME Init PROVE ThoughtsApart
  <2>1. emitted = <<>>
    BY <1>1, Zenon DEF Init
  <2>2. Len(emitted) = 0
    BY <2>1
  <2>3. QED
    BY <2>2 DEF ThoughtsApart
<1>2. Spec => []DepthInv
  BY DepthInit, DepthStep, TypeCorrect, PTL DEF Spec
<1>3. Spec => []ThoughtsApart
  BY <1>1, <1>2, ApartStep, TypeCorrect, PTL DEF Spec
<1>4. QED
  BY <1>3, PTL

(***************************************************************************)
(* The answer                                                              *)
(***************************************************************************)

\* Masking leaves something to sample, so what is masked is not sampled.
LEMMA Unmasked ==
    ASSUME NEW M, "word" \notin M PROVE Sampled(M) \cap M = {}
BY DEF Sampled, Tokens

\* While an answer is awaited, all logits are read and nothing that ends the text or opens
\* a block is sampled, and the first token after a block has whitespace before it.
LEMMA AwaitedCandidates ==
    ASSUME TypeOK, config.sampler # "greedy", Steered \/ AnswerFirst,
           waitingForVisibleAnswer, thinkDepth = 0, NEW t \in Candidates
    PROVE  /\ t # "eos" /\ t \notin StopTokens
           /\ Steered => t \notin {"open", "reentry"}
           /\ requireLeadingWhitespaceForNextStep => t \in StartsWithWhitespace
<1> DEFINE M == LogitsMask
<1> DEFINE w == IF thinkClosed THEN Steered ELSE AnswerFirst
<1>1. Mode = "full"
  BY DEF Mode, TypeOK, Configs
<1>2. \/ requireLeadingWhitespaceForNextStep /\ t \in Resampled(M, StartsWithWhitespace)
      \/ /\ ~requireLeadingWhitespaceForNextStep
         /\ t \in Sampled(M) \/ t \in Resampled(M, Tokens \ WhitespaceOnly)
  <2>1. t \in SampleVisibleAnswerToken(M, waitingForVisibleAnswer, LeadingWhitespaceGuard, w)
    BY <1>1 DEF Candidates
  <2>2. LeadingWhitespaceGuard <=> requireLeadingWhitespaceForNextStep
    BY Zenon DEF LeadingWhitespaceGuard
  <2>3. QED
    BY <2>1, <2>2 DEF SampleVisibleAnswerToken
<1>3. M = MaskedTokensAfterThinkingUntilAnswer \cup ({"eos"} \cup StopTokens)
  BY DEF LogitsMask
<1>4. /\ "word" \notin M /\ "lead" \notin M
      /\ "eos" \in M /\ StopTokens \subseteq M
      /\ Steered => {"open", "reentry"} \subseteq M
  BY <1>3 DEF MaskedTokensAfterThinkingUntilAnswer, StopTokens
<1>5. Sampled(M) \cap M = {}
  BY <1>4, Unmasked
<1>6. Resampled(M, StartsWithWhitespace) = StartsWithWhitespace \ M
  BY <1>4 DEF Resampled, StartsWithWhitespace
<1>7. Resampled(M, Tokens \ WhitespaceOnly) = (Tokens \ WhitespaceOnly) \ M
  BY <1>4 DEF Resampled, WhitespaceOnly, Tokens
<1>8. CASE requireLeadingWhitespaceForNextStep
  <2>1. t \in StartsWithWhitespace \ M
    BY <1>2, <1>6, <1>8
  <2>2. QED
    BY <1>4, <2>1
<1>9. CASE ~requireLeadingWhitespaceForNextStep
  <2>1. t \in Sampled(M) \/ t \in (Tokens \ WhitespaceOnly) \ M
    BY <1>2, <1>7, <1>9
  <2>2. t \notin M
    BY <1>5, <2>1
  <2>3. QED
    BY <1>4, <1>9, <2>2
<1>10. QED
  BY <1>8, <1>9

\* The same for the first token.
LEMMA AwaitedFirst ==
    ASSUME waitingForVisibleAnswer, NEW t \in FirstCandidates PROVE t # "eos"
<1> DEFINE M == {"eos"} \cup StopTokens
<1>1. "word" \notin M /\ "eos" \in M
  BY DEF StopTokens
<1>2. Sampled(M) \cap M = {}
  BY <1>1, Unmasked
<1>3. Resampled(M, Tokens \ WhitespaceOnly) = (Tokens \ WhitespaceOnly) \ M
  BY <1>1 DEF Resampled, WhitespaceOnly, Tokens
<1>4. t \in SampleVisibleAnswerToken(M, TRUE, FALSE, AnswerFirst)
  BY DEF FirstCandidates
<1>5. t \in Sampled(M) \/ t \in (Tokens \ WhitespaceOnly) \ M
  BY <1>3, <1>4 DEF SampleVisibleAnswerToken
<1>6. QED
  BY <1>1, <1>2, <1>5

\* In a block, and once the answer has begun, a block is not opened; a block is not left
\* for the end of the text but by the caller's stop token.
LEMMA SteeredCandidates ==
    ASSUME TypeOK, config.sampler # "greedy", Steered, ~waitingForVisibleAnswer,
           thinkDepth > 0 \/ hasVisibleAnswerText, NEW t \in Candidates
    PROVE  /\ t \notin {"open", "reentry"}
           /\ thinkDepth > 0 => t \notin {"eos", "turnEnd"}
<1> DEFINE M == IF thinkDepth > 0 THEN MaskedTokensWhileThinking ELSE MaskedTokensAfterAnswerStarts
<1>1. /\ "word" \notin M /\ {"open", "reentry"} \subseteq M
      /\ thinkDepth > 0 => {"eos", "turnEnd"} \subseteq M
  BY DEF MaskedTokensWhileThinking, MaskedTokensAfterAnswerStarts
<1>2. CandidateMask = M /\ LogitsMask = M
  BY DEF CandidateMask, LogitsMask
<1>3. Mode \in {"topk", "full"}
  BY DEF Mode, TypeOK, Configs
<1>4. ASSUME Mode = "topk" PROVE t \in Sampled(M)
  <2>1. Candidates = Sampled(CandidateMask)
    BY <1>4 DEF Candidates
  <2>2. QED
    BY <1>2, <2>1
<1>5. ASSUME Mode = "full" PROVE t \in Sampled(M)
  <2>1. t \in SampleVisibleAnswerToken(M, waitingForVisibleAnswer, LeadingWhitespaceGuard,
                                       IF thinkClosed THEN Steered ELSE AnswerFirst)
    BY <1>2, <1>5 DEF Candidates
  <2>2. QED
    BY <2>1 DEF SampleVisibleAnswerToken
<1>6. t \in Sampled(M)
  BY <1>3, <1>4, <1>5
<1>7. QED
  BY <1>1, <1>6, Unmasked

\* The loop samples nothing: only a first token that was an end of turn is found now.
LEMMA AnswerQuiet ==
    ASSUME TypeOK, EndInv, DepthInv, AnswerInv, config' = config, Quiet PROVE AnswerInv'
<1>1. /\ sampledId' = sampledId /\ emitted' = emitted /\ thinkDepth' = thinkDepth
      /\ waitingForVisibleAnswer' = waitingForVisibleAnswer
      /\ hasVisibleAnswerText' = hasVisibleAnswerText
      /\ thinkClosed' = thinkClosed
      /\ requireLeadingWhitespaceForNextStep' = requireLeadingWhitespaceForNextStep
  BY DEF Quiet, steering, output
<1>2. /\ pc' = "prefill" => pc = "prefill"
      /\ pc' = "yielded" => pc = "yielded"
      /\ pc' = "decoding" => pc \in {"yielded", "decoding"}
  BY DEF Quiet
<1>3. \A i : Unanswered(i)' <=> Unanswered(i)
  BY <1>1 DEF Unanswered
<1>4. SteeredInv => SteeredInv'
  BY <1>1, <1>2, <1>3 DEF SteeredInv
<1>5. AnswerFirstInv => AnswerFirstInv'
  BY <1>1 DEF AnswerFirstInv
<1>6. Stopped' => Stopped \/ (pc = "yielded" /\ sampledId = "eos")
  BY <1>1 DEF Quiet, Stopped, ReasonAtTop
<1>7. StopInv => StopInv'
  BY <1>1, <1>2, <1>6 DEF StopInv
<1>8. QED
  BY <1>4, <1>5, <1>7 DEF AnswerInv, Steered, AnswerFirst

\* A tag out of place ends the loop, and is not an end that anybody asked for.
LEMMA AnswerStray ==
    ASSUME TypeOK, EndInv, DepthInv, AnswerInv, config' = config, NEW t \in Tokens, Stray(t)
    PROVE  AnswerInv'
<1>1. /\ sampledId' = t /\ emitted' = emitted /\ thinkDepth' = thinkDepth
      /\ waitingForVisibleAnswer' = waitingForVisibleAnswer
      /\ hasVisibleAnswerText' = hasVisibleAnswerText
      /\ thinkClosed' = thinkClosed
      /\ pc' = "returned"
  BY DEF Stray, output
<1>2. t \in {"open", "close"} /\ Steered
  BY DEF Stray, StrayTag, Tags
<1>3. \A i : Unanswered(i)' <=> Unanswered(i)
  BY <1>1 DEF Unanswered
<1>4. SteeredInv => SteeredInv'
  BY <1>1, <1>3 DEF SteeredInv
<1>5. StopInv => StopInv'
  BY <1>1, <1>2 DEF StopInv, Stopped, StopTokens
<1>6. QED
  BY <1>2, <1>4, <1>5 DEF AnswerInv, Steered, AnswerFirst

\* A token that ends the loop comes when no answer is awaited.
LEMMA AnswerBreaks ==
    ASSUME TypeOK, EndInv, DepthInv, AnswerInv, config' = config, NEW t \in Tokens, Breaks(t)
    PROVE  AnswerInv'
<1> SUFFICES ASSUME config.sampler # "greedy"
             PROVE  /\ Steered => SteeredInv'
                    /\ AnswerFirst => AnswerFirstInv'
                    /\ Steered \/ AnswerFirst => StopInv'
  BY DEF AnswerInv, Steered, AnswerFirst
<1>1. /\ pc = "decoding" /\ pc' = "returned" /\ t \in Candidates
      /\ Steer(t, GuardUsed) /\ emitted' = emitted
  BY DEF Breaks, output
<1>2. t \in {"eos", "turnEnd", "stop"} \/ (t = "reentry" /\ Steered)
  BY DEF Breaks, BreakReason, StopTokens, ForbiddenReentryTokens
<1>3. t \notin Tags /\ ~Closes(t) /\ ~Answers(t)
  BY <1>2 DEF Tags, Closes, Answers, VisibleText
<1>4. /\ sampledId' = t /\ thinkDepth' = thinkDepth
      /\ thinkClosed' <=> thinkClosed
      /\ hasVisibleAnswerText' <=> hasVisibleAnswerText
      /\ waitingForVisibleAnswer' <=> waitingForVisibleAnswer
      /\ ~requireLeadingWhitespaceForNextStep => ~requireLeadingWhitespaceForNextStep'
  BY <1>1, <1>3, SteerParts
<1>5. ASSUME Steered \/ AnswerFirst PROVE ~waitingForVisibleAnswer
  <2>1. SUFFICES ASSUME waitingForVisibleAnswer PROVE FALSE
    OBVIOUS
  <2>2. thinkDepth = 0
    BY <1>5, <2>1 DEF AnswerInv, SteeredInv, DepthInv, Steered, AnswerFirst
  <2>3. t # "eos" /\ t \notin StopTokens /\ (Steered => t # "reentry")
    BY <1>1, <1>5, <2>1, <2>2, AwaitedCandidates
  <2>4. QED
    BY <1>2, <2>3 DEF StopTokens
<1>6. \A i : Unanswered(i)' <=> Unanswered(i)
  BY <1>1 DEF Unanswered
<1>7. Steered => SteeredInv'
  BY <1>1, <1>4, <1>6 DEF AnswerInv, SteeredInv
<1>8. AnswerFirst => AnswerFirstInv'
  BY <1>1, <1>4 DEF AnswerInv, AnswerFirstInv
<1>9. ASSUME Steered, thinkDepth > 0 PROVE t = "stop"
  BY <1>1, <1>2, <1>5, <1>9, SteeredCandidates
<1>10. AnswerFirst => thinkDepth = 0
  BY DEF DepthInv, Steered, AnswerFirst
<1>11. Steered \/ AnswerFirst => StopInv'
  BY <1>1, <1>4, <1>5, <1>9, <1>10 DEF StopInv
<1>12. QED
  BY <1>7, <1>8, <1>11

\* What is handed over keeps the flags true to the text.
LEMMA AnswerEmits ==
    ASSUME TypeOK, EndInv, DepthInv, AnswerInv, config' = config, NEW t \in Tokens, Emits(t)
    PROVE  AnswerInv'
<1> SUFFICES ASSUME config.sampler # "greedy"
             PROVE  /\ Steered => SteeredInv'
                    /\ AnswerFirst => AnswerFirstInv'
                    /\ Steered \/ AnswerFirst => StopInv'
  BY DEF AnswerInv, Steered, AnswerFirst
<1> DEFINE n == Len(emitted)
<1>1. EmitAndYield(t) /\ pc' = "yielded" /\ n \in Nat
  BY TextLength DEF Emits, EmitAndYield
<1>2. /\ Len(emitted') = n + 1
      /\ emitted'[n + 1] = t
  BY <1>1, EmitType
<1>3. \A i \in 1 .. n : emitted'[i] = emitted[i]
  BY <1>1, EmitType
<1>4. /\ sampledId' = t
      /\ thinkDepth' = IF t \notin Tags THEN thinkDepth
                       ELSE IF t = "open" THEN thinkDepth + 1 ELSE thinkDepth - 1
      /\ thinkClosed' <=> (thinkClosed \/ Closes(t))
      /\ hasVisibleAnswerText' <=> (hasVisibleAnswerText \/ Answers(t))
      /\ waitingForVisibleAnswer' <=> ((waitingForVisibleAnswer \/ Closes(t)) /\ ~Answers(t))
      /\ Closes(t) => requireLeadingWhitespaceForNextStep'
      /\ ~Closes(t) /\ ~requireLeadingWhitespaceForNextStep
            => ~requireLeadingWhitespaceForNextStep'
  BY SteerParts DEF Emits
<1>5. \/ pc = "prefill" /\ t \in FirstCandidates /\ n = 0
      \/ pc = "decoding" /\ t \in Candidates /\ BreakReason(t) = ""
  <2>1. pc = "prefill" => n = 0
    <3>1. pc = "prefill" => emitted = <<>>
      BY DEF EndInv
    <3>2. QED
      BY <3>1
  <2>2. QED
    BY <2>1 DEF Emits, Sampling
<1>6. ~Stopped'
  BY <1>1, <1>5 DEF EmitAndYield, EndInv, Stopped
<1>7. Answers(t) => t \in {"lead", "word"} /\ waitingForVisibleAnswer /\ ~hasVisibleAnswerText
  BY DEF Answers, VisibleText
<1>8. pc = "decoding" => t # "eos"
  BY <1>5 DEF BreakReason
<1>9. ASSUME Steered PROVE SteeredInv' /\ StopInv'
  <2>1. SteeredInv /\ Tags = {"open", "close"}
    BY <1>9 DEF AnswerInv, Tags
  <2>2. thinkDepth \in {0, 1}
    BY <1>9 DEF DepthInv
  <2>3. t = "close" <=> Closes(t)
    <3>1. ~StrayTag(t)
      BY Zenon DEF Emits
    <3>2. t = "close" => thinkDepth > 0
      BY <2>1, <3>1 DEF StrayTag
    <3>3. QED
      BY <2>1, <2>2, <3>2 DEF Closes
  <2>4. waitingForVisibleAnswer => pc = "decoding" /\ thinkDepth = 0 /\ ~hasVisibleAnswerText
    BY <1>5, <2>1 DEF SteeredInv
  <2>5. waitingForVisibleAnswer =>
            t # "open" /\ (requireLeadingWhitespaceForNextStep => t \in StartsWithWhitespace)
    BY <1>5, <1>9, <2>4, AwaitedCandidates
  <2>6. hasVisibleAnswerText => pc = "decoding" /\ thinkDepth = 0 /\ ~waitingForVisibleAnswer
    BY <1>5, <2>1 DEF SteeredInv
  <2>7. hasVisibleAnswerText => t # "open"
    BY <1>5, <1>9, <2>6, SteeredCandidates
  <2>8. t = "close" => thinkDepth = 1
    BY <2>3 DEF Closes
  <2>9. hasVisibleAnswerText' => thinkDepth' = 0
    BY <1>4, <1>7, <2>1, <2>4, <2>6, <2>7, <2>8
  <2>10. waitingForVisibleAnswer' => thinkDepth' = 0 /\ ~hasVisibleAnswerText'
    BY <1>4, <1>7, <2>1, <2>3, <2>4, <2>5, <2>6, <2>8
  <2>11. ASSUME NEW i \in 1 .. (n + 1), Unanswered(i)' PROVE waitingForVisibleAnswer'
    <3>1. CASE i = n + 1
      <4>1. t = "close"
        BY <1>2, <2>11, <3>1 DEF Unanswered
      <4>2. QED
        BY <1>4, <1>7, <2>3, <4>1
    <3>2. CASE i # n + 1
      <4>1. i \in 1 .. n
        BY <1>1, <3>2
      <4>2. t \notin VisibleText
        <5>1. n + 1 \in (i + 1) .. Len(emitted')
          BY <1>1, <1>2, <4>1
        <5>2. QED
          BY <1>2, <2>11, <5>1 DEF Unanswered
      <4>3. Unanswered(i)
        <5>1. \A k \in (i + 1) .. n : k \in (i + 1) .. Len(emitted') /\ emitted'[k] = emitted[k]
          BY <1>1, <1>2, <1>3, <4>1
        <5>2. emitted'[i] = emitted[i]
          BY <1>3, <4>1
        <5>3. QED
          BY <2>11, <5>1, <5>2 DEF Unanswered
      <4>4. waitingForVisibleAnswer
        BY <2>1, <4>1, <4>3 DEF SteeredInv
      <4>5. QED
        BY <1>4, <4>2, <4>4 DEF Answers
    <3>3. QED
      BY <3>1, <3>2
  <2>12. emitted'[Len(emitted')] = "close" =>
             waitingForVisibleAnswer' /\ requireLeadingWhitespaceForNextStep'
    BY <1>2, <1>4, <1>7, <2>3
  <2>13. ASSUME NEW i \in 1 .. n, emitted'[i] = "close" PROVE emitted'[i + 1] \in StartsWithWhitespace
    <3>1. emitted[i] = "close"
      BY <1>3, <2>13
    <3>2. CASE i = n
      <4>1. pc = "decoding"
        <5>1. n # 0
          BY <1>1
        <5>2. QED
          BY <1>5, <5>1
      <4>2. waitingForVisibleAnswer /\ requireLeadingWhitespaceForNextStep
        BY <2>1, <3>1, <3>2, <4>1 DEF SteeredInv
      <4>3. QED
        BY <1>2, <2>5, <3>2, <4>2
    <3>3. CASE i # n
      <4>1. i \in 1 .. (n - 1) /\ i + 1 \in 1 .. n
        BY <1>1, <3>3
      <4>2. QED
        BY <1>3, <2>1, <3>1, <4>1 DEF SteeredInv
    <3>4. QED
      BY <3>2, <3>3
  <2>14. Len(emitted') - 1 = n
    BY <1>1, <1>2
  <2>15. SteeredInv'
    BY <1>1, <1>2, <2>9, <2>10, <2>11, <2>12, <2>13, <2>14 DEF SteeredInv
  <2>16. t = "eos" => ~waitingForVisibleAnswer' /\ thinkDepth' = 0
    <3>1. t = "eos" => pc = "prefill"
      BY <1>5, <1>8
    <3>2. QED
      BY <1>4, <2>1, <2>3, <3>1 DEF SteeredInv
  <2>17. QED
    BY <1>4, <1>6, <2>15, <2>16 DEF StopInv
<1>10. ASSUME AnswerFirst PROVE AnswerFirstInv' /\ StopInv'
  <2>1. AnswerFirstInv /\ Tags = {} /\ thinkDepth = 0
    BY <1>10 DEF AnswerInv, DepthInv, Tags, Steered, AnswerFirst
  <2>2. ~Closes(t)
    BY <2>1 DEF Closes
  <2>3. hasVisibleAnswerText' => \E i \in 1 .. Len(emitted') : emitted'[i] \in VisibleText
    <3>1. CASE hasVisibleAnswerText
      <4>1. PICK i \in 1 .. n : emitted[i] \in VisibleText
        BY <2>1, <3>1 DEF AnswerFirstInv
      <4>2. i \in 1 .. Len(emitted') /\ emitted'[i] \in VisibleText
        BY <1>1, <1>2, <1>3, <4>1
      <4>3. QED
        BY <4>2
    <3>2. CASE Answers(t)
      <4>1. n + 1 \in 1 .. Len(emitted') /\ emitted'[n + 1] \in VisibleText
        BY <1>1, <1>2, <3>2 DEF Answers
      <4>2. QED
        BY <4>1
    <3>3. QED
      BY <1>4, <3>1, <3>2
  <2>4. AnswerFirstInv'
    BY <1>4, <2>1, <2>2, <2>3 DEF AnswerFirstInv
  <2>5. t = "eos" => ~waitingForVisibleAnswer'
    <3>1. t = "eos" => ~waitingForVisibleAnswer
      BY <1>5, <1>8, AwaitedFirst
    <3>2. QED
      BY <1>4, <2>2, <3>1
  <2>6. thinkDepth' = 0
    BY <1>4, <2>1
  <2>7. QED
    BY <1>4, <1>6, <2>4, <2>5, <2>6 DEF StopInv
<1>11. QED
  BY <1>9, <1>10

LEMMA AnswerStep ==
    ASSUME TypeOK, EndInv, DepthInv, AnswerInv, [Next]_vars PROVE AnswerInv'
BY StepKinds, AnswerQuiet, AnswerStray, AnswerBreaks, AnswerEmits

LEMMA AnswerInit == ASSUME Init PROVE AnswerInv
<1>1. /\ pc = "prefill" /\ emitted = <<>> /\ thinkDepth = 0 /\ finishReason = ""
      /\ ~thinkClosed /\ ~hasVisibleAnswerText /\ ~requireLeadingWhitespaceForNextStep
      /\ waitingForVisibleAnswer <=> AnswerFirst
  BY Zenon DEF Init
<1>2. Len(emitted) = 0 /\ sampledId # "eos"
  <2>1. sampledId = ""
    BY Zenon DEF Init
  <2>2. QED
    BY <1>1, <2>1
<1>3. Steered => SteeredInv
  <2>1. \A i \in 1 .. Len(emitted) : FALSE
    BY <1>2
  <2>2. \A i \in 1 .. (Len(emitted) - 1) : FALSE
    BY <1>2
  <2>3. Steered => ~waitingForVisibleAnswer
    BY <1>1 DEF Steered, AnswerFirst
  <2>4. QED
    BY <1>1, <2>1, <2>2, <2>3 DEF SteeredInv
<1>4. AnswerFirst => AnswerFirstInv
  BY <1>1 DEF AnswerFirstInv
<1>5. StopInv
  BY <1>1, <1>2 DEF StopInv, Stopped
<1>6. QED
  BY <1>3, <1>4, <1>5 DEF AnswerInv

\* Unless the argmax is taken on the GPU: a Qwen chat does not stop in a block, but for a
\* stop token of the caller's, nor between a block and its answer, which whitespace
\* separates; and where an answer is required first, nothing stops before it.
THEOREM ThinkingThenAnswerHolds == Spec => []ThinkingThenAnswer
<1>1. Spec => []EndInv
  BY EndInit, EndStep, TypeCorrect, PTL DEF Spec
<1>2. Spec => []DepthInv
  BY DepthInit, DepthStep, TypeCorrect, PTL DEF Spec
<1>3. Spec => []AnswerInv
  BY <1>1, <1>2, AnswerInit, AnswerStep, TypeCorrect, PTL DEF Spec
<1>4. ASSUME TypeOK, DepthInv, AnswerInv PROVE ThinkingThenAnswer
  <2>1. SUFFICES ASSUME config.sampler # "greedy"
        PROVE /\ Steered /\ Stopped =>
                    /\ InBlock(emitted, Len(emitted) + 1) => sampledId = "stop"
                    /\ \A i \in 1 .. Len(emitted) : ~Unanswered(i)
              /\ Steered => \A i \in 1 .. (Len(emitted) - 1) :
                    emitted[i] = "close" => emitted[i + 1] \in StartsWithWhitespace
              /\ AnswerFirst /\ Stopped => \E i \in 1 .. Len(emitted) : emitted[i] \in VisibleText
    BY DEF ThinkingThenAnswer
  <2>2. Steered => SteeredInv /\ StopInv
    BY <1>4, <2>1 DEF AnswerInv
  <2>3. AnswerFirst => AnswerFirstInv /\ StopInv
    BY <1>4, <2>1 DEF AnswerInv
  <2>4. Steered /\ InBlock(emitted, Len(emitted) + 1) => thinkDepth > 0
    BY <1>4 DEF DepthInv
  <2>5. QED
    BY <2>2, <2>3, <2>4 DEF SteeredInv, AnswerFirstInv, StopInv
<1>5. QED
  BY <1>2, <1>3, <1>4, TypeCorrect, PTL


(***************************************************************************)
(* The loads                                                               *)
(***************************************************************************)

\* A load that is under way, and one that is over and has left something.
Pending == {"init", "install", "stream", "hash"}
Over    == {"loaded", "dropped", "refused"}

\* The types an induction needs: the orders of the Maps are not among them.
LoadTypes ==
    /\ load \in [Models -> {"none", "init", "install", "stream", "hash", "loaded", "failed",
                          "dropped", "refused"}]
    /\ wasm \in [Models -> {"none", "up", "down"}]
    /\ registry \subseteq Models
    /\ records \subseteq Models
    /\ pool \subseteq Models
    /\ leaving \subseteq Models
    /\ engine \in {"up", "closing", "down"}

\* What is known of one load.
LoadAt(m) ==
    /\ m \in records => load[m] \in Over
    /\ m \in leaving => load[m] \in Over
    /\ m \in pool => load[m] \in Over
    /\ m \in staging => load[m] = "stream"
    /\ load[m] \in {"install", "stream", "hash"} => wasm[m] = "up"
    /\ wasm[m] = "up" =>
        \/ m \in records
        \/ load[m] \in {"install", "stream", "hash", "dropped", "refused"}
    /\ load[m] = "hash" => m \in registry \cup early
    /\ (engine = "down" /\ load[m] \in Pending) => m \in early
    /\ (engine = "down" /\ m \in records) => m \in early
    /\ (load[m] = "loaded" /\ wasm[m] = "up" /\ m \in records) => m \in pool \cup uncounted
    /\ m \in pool => m \in registry \cup early /\ m \notin uncounted
    /\ (m \in registry /\ load[m] = "loaded") =>
        /\ m \in records
        /\ wasm[m] = "up" \/ engine = "closing"

LoadInv == LoadTypes /\ \A m \in Models : LoadAt(m)

\* What unregister does to the entry and to the allocation.
LEMMA Unregistering ==
    ASSUME NEW n, Loading!Unregister(n)
    PROVE  /\ registry' = registry \ {n}
           /\ n \in registry => pool' = pool \ {n}
           /\ n \notin registry => pool' = pool
<1>1. CASE n \in registry
  BY <1>1 DEF Loading!Unregister, Loading!Registered, Loading!Free, Loading!Deregister
<1>2. CASE n \notin registry
  BY <1>2 DEF Loading!Unregister, Loading!Registered, Loading!entries, Loading!allocations
<1>3. QED
  BY <1>1, <1>2

\* The steps that only change how far a load, its module and its file have come.
LEMMA LoadingSteps ==
    ASSUME LoadInv, NEW n \in Models,
           \/ Loading!BeginLoad(n) \/ Loading!InitDone(n) \/ Loading!InstallFails(n)
           \/ Loading!Stream(n) \/ Loading!StreamFails(n) \/ Loading!BuildFails(n)
           \/ Loading!HashFails(n)
    PROVE  LoadInv'
<1>1. UNCHANGED <<registry, pool, records, leaving, engine, early, uncounted>>
  BY DEF Loading!BeginLoad, Loading!InitDone, Loading!InstallFails, Loading!Stream,
         Loading!StreamFails, Loading!BuildFails, Loading!HashFails, Loading!FailAndShutdown,
         Loading!manager, Loading!entries, Loading!allocations
<1>2. LoadTypes'
  BY <1>1 DEF LoadInv, LoadTypes, Loading!BeginLoad, Loading!InitDone, Loading!InstallFails,
         Loading!Stream, Loading!StreamFails, Loading!BuildFails, Loading!HashFails,
         Loading!FailAndShutdown, Loading!TornDown, Loading!Failure
<1>3. ASSUME NEW m \in Models PROVE LoadAt(m)'
  <2>1. LoadAt(m) /\ LoadTypes
    BY DEF LoadInv
  <2>2. CASE Loading!BeginLoad(n)
    BY <1>1, <2>1, <2>2 DEF LoadTypes, LoadAt, Over, Pending, Loading!BeginLoad
  <2>3. CASE Loading!InitDone(n)
    BY <1>1, <2>1, <2>3 DEF LoadTypes, LoadAt, Over, Pending, Loading!InitDone
  <2>4. CASE Loading!InstallFails(n)
    BY <1>1, <2>1, <2>4 DEF LoadTypes, LoadAt, Over, Pending, Loading!InstallFails,
         Loading!FailAndShutdown, Loading!TornDown
  <2>5. CASE Loading!Stream(n)
    BY <1>1, <2>1, <2>5 DEF LoadTypes, LoadAt, Over, Pending, Loading!Stream,
         Loading!FailAndShutdown, Loading!TornDown
  <2>6. CASE Loading!StreamFails(n)
    BY <1>1, <2>1, <2>6 DEF LoadTypes, LoadAt, Over, Pending, Loading!StreamFails,
         Loading!FailAndShutdown, Loading!TornDown
  <2>7. CASE Loading!BuildFails(n)
    BY <1>1, <2>1, <2>7 DEF LoadTypes, LoadAt, Over, Pending, Loading!BuildFails,
         Loading!BuildReady
  <2>8. CASE Loading!HashFails(n)
    BY <1>1, <2>1, <2>8 DEF LoadTypes, LoadAt, Over, Pending, Loading!HashFails,
         Loading!Failure
  <2>9. QED
    BY <2>2, <2>3, <2>4, <2>5, <2>6, <2>7, <2>8
<1>4. QED
  BY <1>2, <1>3 DEF LoadInv

\* The steps that register the entry, and the one that records the model.
LEMMA RegisteringSteps ==
    ASSUME LoadInv, NEW n \in Models,
           Loading!Build(n) \/ Loading!AdoptPreloadedModel(n) \/ Loading!HashDone(n)
    PROVE  LoadInv'
<1>1. LoadTypes'
  BY DEF LoadInv, LoadTypes, Loading!Build, Loading!AdoptPreloadedModel, Loading!HashDone,
         Loading!Register, Loading!Recorded, Loading!Allocate, Loading!allocations,
         Loading!entries, Loading!Failure
<1>2. ASSUME NEW m \in Models PROVE LoadAt(m)'
  <2>1. LoadAt(m) /\ LoadTypes
    BY DEF LoadInv
  <2>2. CASE Loading!Build(n)
    BY <2>1, <2>2 DEF LoadTypes, LoadAt, Over, Pending, Loading!Build, Loading!BuildReady,
         Loading!Register, Loading!allocations
  <2>3. CASE Loading!AdoptPreloadedModel(n)
    BY <2>1, <2>3 DEF LoadTypes, LoadAt, Over, Pending, Loading!AdoptPreloadedModel,
         Loading!Register, Loading!allocations
  <2>4. CASE Loading!HashDone(n)
    BY <2>1, <2>4 DEF LoadTypes, LoadAt, Over, Pending, Loading!HashDone, Loading!Recorded,
         Loading!Allocate, Loading!allocations, Loading!entries, Loading!Failure
  <2>5. QED
    BY <2>2, <2>3, <2>4
<1>3. QED
  BY <1>1, <1>2 DEF LoadInv

\* The steps that take an entry, an allocation, a record or a module away.
LEMMA UnloadingSteps ==
    ASSUME LoadInv, NEW n \in Models,
           Loading!UnloadModel(n) \/ Loading!UnloadModelDone(n) \/ Loading!ShutdownModel(n)
    PROVE  LoadInv'
<1>1. CASE Loading!UnloadModel(n) /\ n \in records
  <2>1. UNCHANGED <<load, wasm, staging, records, registry, pool, engine, early, uncounted>>
        /\ leaving' = leaving \cup {n}
    BY <1>1 DEF Loading!UnloadModel, Loading!manager, Loading!entries, Loading!allocations
  <2>2. QED
    BY <2>1, <1>1 DEF LoadInv, LoadTypes, LoadAt
<1>2. CASE Loading!UnloadModel(n) /\ n \notin records
  <2>1. Loading!Unregister(n)
    BY <1>2 DEF Loading!UnloadModel
  <2>2. /\ UNCHANGED <<load, wasm, staging, records, leaving, engine, uncounted>>
        /\ early' = early \cup (IF load[n] = "hash" THEN {n} ELSE {})
    BY <1>2 DEF Loading!UnloadModel
  <2>3. LoadTypes'
    BY <2>1, <2>2, Unregistering DEF LoadInv, LoadTypes
  <2>4. ASSUME NEW m \in Models PROVE LoadAt(m)'
    <3>1. LoadAt(m) /\ LoadTypes
      BY DEF LoadInv
    <3>2. QED
      BY <1>2, <2>1, <2>2, <3>1, Unregistering DEF LoadTypes, LoadAt, Over, Pending
  <2>5. QED
    BY <2>3, <2>4 DEF LoadInv
<1>3. CASE Loading!UnloadModelDone(n)
  <2>1. Loading!Unregister(n)
    BY <1>3 DEF Loading!UnloadModelDone
  <2>2. LoadTypes'
    BY <1>3, <2>1, Unregistering DEF LoadInv, LoadTypes, Loading!UnloadModelDone
  <2>4. ASSUME NEW m \in Models PROVE LoadAt(m)'
    <3>1. LoadAt(m) /\ LoadTypes
      BY DEF LoadInv
    <3>2. QED
      BY <1>3, <2>1, <3>1, Unregistering DEF LoadTypes, LoadAt, Over, Pending,
         Loading!UnloadModelDone
  <2>5. QED
    BY <2>2, <2>4 DEF LoadInv
<1>4. CASE Loading!ShutdownModel(n)
  <2>1. UNCHANGED <<load, staging, records, registry, pool, leaving, engine, early, uncounted>>
        /\ engine = "closing" /\ n \in records /\ wasm' = [wasm EXCEPT ![n] = "down"]
    BY <1>4 DEF Loading!ShutdownModel, Loading!manager, Loading!entries, Loading!allocations
  <2>2. QED
    BY <2>1 DEF LoadInv, LoadTypes, LoadAt, Over, Pending
<1>5. QED
  BY <1>1, <1>2, <1>3, <1>4

\* The operations of the manager and of the pool, and the shutdown.
LEMMA ManagingSteps ==
    ASSUME LoadInv,
           \/ Loading!EvictLowestPriority \/ Loading!Shutdown \/ Loading!ShutdownDone
           \/ \E n \in Models : Loading!AddSession(n) \/ Loading!RemoveSession(n)
           \/ \E n \in Models : Loading!CanFit(Bytes[n])
           \/ \E n, m \in Models : Loading!EvictForAllocation(Bytes[n], m)
    PROVE  LoadInv'
<1>1. CASE Loading!EvictLowestPriority
  <2>1. PICK n \in registry :
            /\ Loading!Unregister(n)
            /\ early' = early \cup (IF load[n] = "hash" THEN {n} ELSE {})
            /\ uncounted' = uncounted \cup {n}
            /\ UNCHANGED <<load, wasm, staging, records, leaving, engine>>
    BY <1>1 DEF Loading!EvictLowestPriority
  <2>2. LoadTypes'
    BY <2>1, Unregistering DEF LoadInv, LoadTypes
  <2>4. ASSUME NEW m \in Models PROVE LoadAt(m)'
    <3>1. LoadAt(m) /\ LoadTypes
      BY DEF LoadInv
    <3>2. QED
      BY <2>1, <3>1, Unregistering DEF LoadTypes, LoadAt, Over, Pending
  <2>5. QED
    BY <2>2, <2>4 DEF LoadInv
<1>2. CASE Loading!Shutdown
  <2>1. UNCHANGED <<load, wasm, staging, records, registry, pool, leaving, early, uncounted>>
        /\ engine = "up" /\ engine' = "closing"
    BY <1>2 DEF Loading!Shutdown, Loading!manager, Loading!entries, Loading!allocations
  <2>2. QED
    BY <2>1 DEF LoadInv, LoadTypes, LoadAt, Over, Pending
<1>3. CASE Loading!ShutdownDone
  <2>2. LoadTypes'
    BY <1>3 DEF LoadInv, LoadTypes, Loading!ShutdownDone
  <2>4. ASSUME NEW m \in Models PROVE LoadAt(m)'
    <3>1. LoadAt(m) /\ LoadTypes
      BY DEF LoadInv
    <3>2. QED
      BY <1>3, <3>1 DEF LoadTypes, LoadAt, Over, Pending, Loading!ShutdownDone
  <2>5. QED
    BY <2>2, <2>4 DEF LoadInv
<1>4. ASSUME NEW n \in Models, Loading!AddSession(n) \/ Loading!RemoveSession(n) PROVE LoadInv'
  <2>1. UNCHANGED <<load, wasm, staging, records, registry, pool, leaving, engine, early, uncounted>>
    BY <1>4 DEF Loading!AddSession, Loading!RemoveSession, Loading!entries, Loading!allocations
  <2>2. QED
    BY <2>1 DEF LoadInv, LoadTypes, LoadAt
<1>5. ASSUME NEW size, NEW spared, Loading!EvictForAllocation(size, spared) PROVE LoadInv'
  <2>1. PICK n : pool' = pool \ {n} /\ uncounted' = uncounted \cup {n}
    BY <1>5 DEF Loading!EvictForAllocation, Loading!Free
  <2>2. UNCHANGED <<load, wasm, staging, records, registry, leaving, engine, early>>
    BY <1>5 DEF Loading!EvictForAllocation, Loading!entries
  <2>3. QED
    BY <2>1, <2>2 DEF LoadInv, LoadTypes, LoadAt
<1>6. QED
  BY <1>1, <1>2, <1>3, <1>4, <1>5 DEF Loading!CanFit

LEMMA LoadInit == Loading!Init => LoadInv
BY DEF Loading!Init, LoadInv, LoadTypes, LoadAt, Over, Pending

LEMMA LoadStep == LoadInv /\ [Loading!Next]_(Loading!vars) => LoadInv'
<1>1. SUFFICES ASSUME LoadInv, [Loading!Next]_(Loading!vars) PROVE LoadInv'
  OBVIOUS
<1>2. CASE Loading!Next
  BY <1>1, <1>2, LoadingSteps, RegisteringSteps, UnloadingSteps, ManagingSteps DEF Loading!Next
<1>3. CASE UNCHANGED Loading!vars
  BY <1>1, <1>3 DEF LoadInv, LoadTypes, LoadAt, Loading!vars, Loading!manager, Loading!entries,
     Loading!allocations
<1>4. QED
  BY <1>1, <1>2, <1>3

LEMMA LoadCorrect == Loading!Spec => []LoadInv
BY LoadInit, LoadStep, PTL DEF Loading!Spec

\* Whatever a load acquired has an owner, and the records of the engine, the entries of
\* the manager and the allocations of the pool agree, however loads, unloads, evictions
\* and the shutdown come between each other.
THEOREM LoadsOwned == Loading!Spec => []OwnersAgree
<1>1. ASSUME LoadInv PROVE OwnersAgree
  <2>1. Loading!NothingOrphaned
    BY <1>1 DEF LoadInv, LoadAt, Loading!NothingOrphaned
  <2>2. Loading!RecordsAgree
    BY <1>1 DEF LoadInv, LoadTypes, LoadAt, Loading!RecordsAgree, Loading!Registered
  <2>3. QED
    BY <2>1, <2>2 DEF OwnersAgree, Loading!OwnersAgree
<1>2. QED
  BY <1>1, LoadCorrect, PTL

(***************************************************************************)
(* The pool                                                                *)
(***************************************************************************)

\* The bytes of a set of models, one by one.
BytesOf(P) == UNION {{m} \X (1..Bytes[m]) : m \in P}

LEMMA OneMore ==
    ASSUME NEW P \in SUBSET Models, IsFiniteSet(BytesOf(P)), NEW n \in Models
    PROVE  /\ IsFiniteSet(BytesOf(P \cup {n}))
           /\ n \notin P =>
                Cardinality(BytesOf(P \cup {n})) = Cardinality(BytesOf(P)) + Bytes[n]
<1> DEFINE N == {n} \X (1..Bytes[n])
<1>1. Bytes[n] \in Nat \ {0}
  BY DEF Loading!LoadConstants
<1>2. IsFiniteSet(N) /\ Cardinality(N) = Bytes[n]
  <2>1. IsFiniteSet({n}) /\ Cardinality({n}) = 1
    BY FS_Singleton
  <2>2. IsFiniteSet(1..Bytes[n]) /\ Cardinality(1..Bytes[n]) = Bytes[n]
    BY <1>1, FS_Interval
  <2>3. IsFiniteSet(N) /\ Cardinality(N) = 1 * Bytes[n]
    BY <2>1, <2>2, FS_Product
  <2>4. QED
    BY <1>1, <2>3
<1>3. BytesOf(P \cup {n}) = BytesOf(P) \cup N
  BY DEF BytesOf
<1>4. n \notin P => BytesOf(P) \cap N = {}
  BY DEF BytesOf
<1> HIDE DEF N
<1>5. /\ IsFiniteSet(BytesOf(P) \cup N)
      /\ Cardinality(BytesOf(P) \cup N) =
            Cardinality(BytesOf(P)) + Cardinality(N) - Cardinality(BytesOf(P) \cap N)
  BY <1>2, FS_Union
<1>6. Cardinality(BytesOf(P)) \in Nat
  BY FS_CardinalityType
<1>7. n \notin P => Cardinality(BytesOf(P) \cap N) = 0
  BY <1>4, FS_EmptySet
<1>8. IsFiniteSet(BytesOf(P \cup {n}))
  BY <1>3, <1>5
<1>9. n \notin P => Cardinality(BytesOf(P) \cup N) = Cardinality(BytesOf(P)) + Bytes[n]
  BY <1>1, <1>2, <1>5, <1>6, <1>7
<1>10. QED
  BY <1>3, <1>8, <1>9

LEMMA OneLess ==
    ASSUME NEW P \in SUBSET Models, IsFiniteSet(BytesOf(P)), NEW n \in P
    PROVE  /\ IsFiniteSet(BytesOf(P \ {n}))
           /\ Cardinality(BytesOf(P \ {n})) \in Nat
           /\ Cardinality(BytesOf(P \ {n})) = Cardinality(BytesOf(P)) - Bytes[n]
<1>1. BytesOf(P \ {n}) \in SUBSET BytesOf(P)
  BY DEF BytesOf
<1>2. IsFiniteSet(BytesOf(P \ {n}))
  BY <1>1, FS_Subset
<1>3. Cardinality(BytesOf((P \ {n}) \cup {n})) = Cardinality(BytesOf(P \ {n})) + Bytes[n]
  BY <1>2, OneMore
<1>4. (P \ {n}) \cup {n} = P
  OBVIOUS
<1>5. Bytes[n] \in Nat /\ Cardinality(BytesOf(P \ {n})) \in Nat
  BY <1>2, FS_CardinalityType DEF Loading!LoadConstants
<1>6. Cardinality(BytesOf(P)) = Cardinality(BytesOf(P \ {n})) + Bytes[n]
  BY <1>3, <1>4
<1>7. Cardinality(BytesOf(P \ {n})) = Cardinality(BytesOf(P)) - Bytes[n]
  BY <1>5, <1>6
<1>8. QED
  BY <1>2, <1>5, <1>7

\* The total, the budget and the pressure, as far as an allocation or a release tell.
PoolInv ==
    /\ IsFiniteSet(BytesOf(pool))
    /\ usedBytes \in Nat
    /\ usedBytes = Cardinality(BytesOf(pool))
    /\ usedBytes <= Budget
    /\ pressure \in BOOLEAN
    /\ Loading!UnderPressure(usedBytes) => pressure
    /\ 4 * usedBytes < 3 * Budget => ~pressure

LEMMA Allocating ==
    ASSUME LoadInv, PoolInv, NEW n \in Models, n \notin pool,
           Loading!canAllocate(Bytes[n]), Loading!Allocate(n)
    PROVE  PoolInv'
<1>1. Bytes[n] \in Nat \ {0} /\ Budget \in Nat
  BY DEF Loading!LoadConstants
<1>2. pool' = pool \cup {n} /\ usedBytes' = usedBytes + Bytes[n]
      /\ pressure' = (pressure \/ Loading!UnderPressure(usedBytes + Bytes[n]))
  BY DEF Loading!Allocate
<1>3. IsFiniteSet(BytesOf(pool')) /\ Cardinality(BytesOf(pool')) = usedBytes + Bytes[n]
  BY <1>2, OneMore DEF LoadInv, LoadTypes, PoolInv
<1>4. usedBytes + Bytes[n] <= Budget
  BY <1>1 DEF PoolInv, Loading!canAllocate, Loading!remainingBytes
<1>5. usedBytes' \in Nat /\ pressure' \in BOOLEAN
  BY <1>1, <1>2 DEF PoolInv, Loading!UnderPressure
<1>6. (Loading!UnderPressure(usedBytes) => pressure)'
  BY <1>2 DEF Loading!UnderPressure
<1>7. (4 * usedBytes < 3 * Budget => ~pressure)'
  BY <1>1, <1>2 DEF PoolInv, Loading!UnderPressure
<1>8. BytesOf(pool)' = BytesOf(pool')
  BY DEF BytesOf
<1>9. QED
  BY <1>2, <1>3, <1>4, <1>5, <1>6, <1>7, <1>8 DEF PoolInv

LEMMA Freeing ==
    ASSUME LoadInv, PoolInv, NEW n, Loading!Free(n)
    PROVE  PoolInv'
<1>1. BytesOf(pool)' = BytesOf(pool')
  BY DEF BytesOf
<1>2. CASE n \in pool
  <2>1. Bytes[n] \in Nat \ {0} /\ Budget \in Nat
    BY <1>2 DEF Loading!LoadConstants, LoadInv, LoadTypes
  <2>2. pool' = pool \ {n} /\ usedBytes' = usedBytes - Bytes[n]
        /\ pressure' = (pressure /\ 4 * (usedBytes - Bytes[n]) >= 3 * Budget)
    BY <1>2 DEF Loading!Free, Loading!UsedAfterFree, Loading!PressureAfterFree
  <2>3. IsFiniteSet(BytesOf(pool')) /\ Cardinality(BytesOf(pool')) = usedBytes'
        /\ usedBytes' \in Nat
    BY <1>2, <2>2, OneLess DEF LoadInv, LoadTypes, PoolInv
  <2>4. pressure' \in BOOLEAN /\ usedBytes' <= Budget
    BY <2>1, <2>2 DEF PoolInv
  <2>5. (Loading!UnderPressure(usedBytes) => pressure)'
    <3>1. SUFFICES ASSUME 4 * (usedBytes - Bytes[n]) > 3 * Budget PROVE pressure'
      BY <2>2 DEF Loading!UnderPressure
    <3>2. 4 * usedBytes > 3 * Budget
      BY <2>1, <3>1 DEF PoolInv
    <3>3. pressure
      BY <3>2 DEF PoolInv, Loading!UnderPressure
    <3>4. 4 * (usedBytes - Bytes[n]) >= 3 * Budget
      BY <2>1, <3>1 DEF PoolInv
    <3>5. QED
      BY <2>2, <3>3, <3>4
  <2>6. (4 * usedBytes < 3 * Budget => ~pressure)'
    <3>1. SUFFICES ASSUME 4 * usedBytes' < 3 * Budget PROVE ~pressure'
      OBVIOUS
    <3>2. ~(4 * (usedBytes - Bytes[n]) >= 3 * Budget)
      BY <2>1, <2>2, <2>3, <3>1
    <3>3. QED
      BY <2>2, <3>2
  <2>7. QED
    BY <1>1, <2>2, <2>3, <2>4, <2>5, <2>6 DEF PoolInv
<1>3. CASE n \notin pool
  <2>1. pool' = pool /\ usedBytes' = usedBytes
    BY <1>3 DEF Loading!Free, Loading!UsedAfterFree
  <2>2. pressure' = pressure
    BY <1>3 DEF Loading!Free, Loading!PressureAfterFree, PoolInv
  <2>3. QED
    BY <1>1, <2>1, <2>2 DEF PoolInv, Loading!UnderPressure
<1>4. QED
  BY <1>2, <1>3

LEMMA PoolKept ==
    ASSUME PoolInv, UNCHANGED Loading!allocations
    PROVE  PoolInv'
BY DEF PoolInv, BytesOf, Loading!UnderPressure, Loading!allocations

LEMMA UnregisteringPool ==
    ASSUME LoadInv, PoolInv, NEW n, Loading!Unregister(n)
    PROVE  PoolInv'
BY Freeing, PoolKept DEF Loading!Unregister

LEMMA PoolInit == Loading!Init => PoolInv
<1>1. SUFFICES ASSUME Loading!Init PROVE PoolInv
  OBVIOUS
<1>2. pool = {} /\ usedBytes = 0 /\ pressure = FALSE
  BY <1>1 DEF Loading!Init
<1>3. BytesOf({}) = {}
  BY DEF BytesOf
<1>4. IsFiniteSet({}) /\ Cardinality({}) = 0
  BY FS_EmptySet
<1>5. IsFiniteSet(BytesOf(pool)) /\ Cardinality(BytesOf(pool)) = 0
  BY <1>2, <1>3, <1>4
<1>6. ~Loading!UnderPressure(usedBytes) /\ 0 \in Nat /\ 0 <= Budget
  BY <1>2 DEF Loading!UnderPressure, Loading!LoadConstants
<1>7. QED
  BY <1>2, <1>5, <1>6 DEF PoolInv

LEMMA PoolStep == LoadInv /\ PoolInv /\ [Loading!Next]_(Loading!vars) => PoolInv'
<1>1. SUFFICES ASSUME LoadInv, PoolInv, [Loading!Next]_(Loading!vars) PROVE PoolInv'
  OBVIOUS
<1>2. ASSUME NEW n \in Models, Loading!HashDone(n) PROVE PoolInv'
  <2>1. n \notin pool
    BY <1>1, <1>2 DEF LoadInv, LoadAt, Over, Loading!HashDone
  <2>2. CASE Loading!canAllocate(Bytes[n]) /\ Loading!Allocate(n)
    BY <1>1, <2>1, <2>2, Allocating
  <2>3. CASE UNCHANGED Loading!allocations
    BY <1>1, <2>3, PoolKept
  <2>4. QED
    BY <1>2, <2>2, <2>3 DEF Loading!HashDone
<1>3. ASSUME NEW n \in Models,
             \/ Loading!BeginLoad(n) \/ Loading!AdoptPreloadedModel(n)
             \/ Loading!InitDone(n) \/ Loading!InstallFails(n) \/ Loading!Stream(n)
             \/ Loading!StreamFails(n) \/ Loading!Build(n) \/ Loading!BuildFails(n)
             \/ Loading!HashFails(n) \/ Loading!ShutdownModel(n)
             \/ Loading!AddSession(n) \/ Loading!RemoveSession(n)
      PROVE  PoolInv'
  <2>1. UNCHANGED Loading!allocations
    BY <1>3 DEF Loading!BeginLoad, Loading!AdoptPreloadedModel, Loading!InitDone,
       Loading!InstallFails, Loading!Stream, Loading!StreamFails, Loading!Build,
       Loading!BuildFails, Loading!HashFails, Loading!ShutdownModel, Loading!AddSession,
       Loading!RemoveSession, Loading!FailAndShutdown, Loading!manager
  <2>2. QED
    BY <1>1, <2>1, PoolKept
<1>4. ASSUME NEW n \in Models, Loading!UnloadModel(n) \/ Loading!UnloadModelDone(n)
      PROVE  PoolInv'
  <2>1. Loading!Unregister(n) \/ UNCHANGED Loading!allocations
    BY <1>4 DEF Loading!UnloadModel, Loading!UnloadModelDone, Loading!manager
  <2>2. QED
    BY <1>1, <2>1, PoolKept, UnregisteringPool
<1>5. CASE Loading!EvictLowestPriority
  BY <1>1, <1>5, UnregisteringPool DEF Loading!EvictLowestPriority
<1>6. ASSUME NEW size, NEW spared, Loading!EvictForAllocation(size, spared) PROVE PoolInv'
  BY <1>1, <1>6, Freeing DEF Loading!EvictForAllocation
<1>7. CASE Loading!Shutdown
  BY <1>1, <1>7, PoolKept DEF Loading!Shutdown, Loading!manager
<1>8. CASE Loading!ShutdownDone
  <2>1. pool' = {} /\ usedBytes' = 0 /\ pressure' = FALSE
    BY <1>8 DEF Loading!ShutdownDone
  <2>2. BytesOf({}) = {}
    BY DEF BytesOf
  <2>3. IsFiniteSet({}) /\ Cardinality({}) = 0
    BY FS_EmptySet
  <2>4. BytesOf(pool)' = BytesOf(pool')
    BY DEF BytesOf
  <2>5. IsFiniteSet(BytesOf(pool)') /\ Cardinality(BytesOf(pool)') = 0
    BY <2>1, <2>2, <2>3, <2>4
  <2>6. ~Loading!UnderPressure(usedBytes)' /\ 0 \in Nat /\ 0 <= Budget
    BY <2>1 DEF Loading!UnderPressure, Loading!LoadConstants
  <2>7. QED
    BY <2>1, <2>5, <2>6 DEF PoolInv
<1>9. CASE UNCHANGED Loading!vars
  BY <1>1, <1>9, PoolKept DEF Loading!vars, Loading!manager
<1>10. QED
  BY <1>1, <1>2, <1>3, <1>4, <1>5, <1>6, <1>7, <1>8, <1>9 DEF Loading!Next, Loading!CanFit

LEMMA PoolCorrect == Loading!Spec => []PoolInv
BY PoolInit, PoolStep, LoadCorrect, PTL DEF Loading!Spec

\* The total of the pool is the bytes of the models it holds, none of them before its
\* load has come so far, and within the budget; and pressure is told as the total says,
\* whatever is allocated, freed, evicted or reset.
THEOREM PoolCounts == Loading!Spec => []PoolAddsUp
<1>1. ASSUME LoadInv, PoolInv PROVE PoolAddsUp
  <2>1. Loading!Cardinality(Loading!HeldBytes) = Cardinality(BytesOf(pool))
    <3>1. Loading!HeldBytes = BytesOf(pool)
      BY DEF Loading!HeldBytes, BytesOf
    <3>2. QED
      BY <3>1 DEF Loading!Cardinality, Cardinality
  <2>2. \A m \in pool : load[m] \in Over
    BY <1>1 DEF LoadInv, LoadTypes, LoadAt
  <2>3. QED
    BY <1>1, <2>1, <2>2 DEF PoolInv, PoolAddsUp, Loading!PoolAddsUp, Over
<1>2. QED
  BY <1>1, LoadCorrect, PoolCorrect, PTL


(***************************************************************************)
(* The ring                                                                *)
(***************************************************************************)

Held(s) == Ring!CellsOf(s)

\* Who holds which cell.
Pairs == {h \in SequenceIds \X Ring!Cells : h[1] \in sequenceIds[h[2]]}

\* The sequence holds each of the positions from 0 to n - 1 once, and no other.
Holds(s, n) ==
    /\ \A i \in Held(s) : position[i] \in 0..n - 1
    /\ \A p \in 0..n - 1 : \E i \in Held(s) : position[i] = p
    /\ \A i, j \in Held(s) : position[i] = position[j] => i = j

RingTypes ==
    /\ position \in [Ring!Cells -> Nat \cup {-1}]
    /\ sequenceIds \in [Ring!Cells -> SUBSET SequenceIds]
    /\ head \in Ring!Cells
    /\ usedCells \in Int
    /\ mixed \in BOOLEAN

\* The counts are exact until a prompt is shared with a sequence that has cells.
RingInv ==
    /\ RingTypes
    /\ \A i \in Ring!Cells : position[i] = -1 <=> sequenceIds[i] = {}
    /\ ~mixed =>
        /\ IsFiniteSet(Pairs) /\ usedCells = Cardinality(Pairs)
        /\ \A s \in SequenceIds : \E n \in Nat : Holds(s, n)

LEMMA RingSize == bufferSize \in Nat \ {0} /\ MaxStretch \in Nat
BY DEF Ring!RingConstants

LEMMA RingCardinality == \A S : Ring!Cardinality(S) = Cardinality(S)
BY DEF Ring!Cardinality, Cardinality

LEMMA Around ==
    ASSUME NEW x \in 0..2 * bufferSize - 1
    PROVE  x % bufferSize = IF x < bufferSize THEN x ELSE x - bufferSize
<1>1. bufferSize \in Nat \ {0}
  BY RingSize
<1>2. CASE x < bufferSize
  BY <1>1, <1>2
<1>3. CASE x >= bufferSize
  BY <1>1, <1>3
<1>4. QED
  BY <1>1, <1>2, <1>3

LEMMA HeldFinite ==
    ASSUME NEW s
    PROVE  Held(s) \subseteq Ring!Cells /\ IsFiniteSet(Held(s)) /\ Cardinality(Held(s)) \in Nat
<1>1. Held(s) \in SUBSET Ring!Cells
  BY DEF Held, Ring!CellsOf
<1>2. IsFiniteSet(Ring!Cells)
  BY RingSize, FS_Interval DEF Ring!Cells
<1>3. IsFiniteSet(Held(s))
  BY <1>1, <1>2, FS_Subset
<1>4. QED
  BY <1>1, <1>3, FS_CardinalityType

\* A sequence that holds n positions holds n cells.
LEMMA HeldCount ==
    ASSUME NEW s, NEW n \in Nat, Holds(s, n)
    PROVE  Cardinality(Held(s)) = n
<1> DEFINE f == [i \in Held(s) |-> position[i]]
<1>1. f \in Bijection(Held(s), 0..n - 1)
  <2>1. f \in [Held(s) -> 0..n - 1]
    BY DEF Holds
  <2>2. \A p \in 0..n - 1 : \E i \in Held(s) : f[i] = p
    BY DEF Holds
  <2>3. \A i, j \in Held(s) : f[i] = f[j] => i = j
    BY DEF Holds
  <2> HIDE DEF f
  <2>4. QED
    BY <2>1, <2>2, <2>3, Fun_IsBij
<1>2. ExistsBijection(Held(s), 0..n - 1)
  BY <1>1 DEF ExistsBijection
<1>3. Cardinality(0..n - 1) = n
  BY FS_Interval
<1>4. QED
  BY <1>2, <1>3, HeldFinite, FS_Bijection

RingBefore == {p \in Nat \X Nat : p[1] < p[2]}

LEMMA LeastOf ==
    ASSUME NEW T, T \subseteq Nat, T # {}
    PROVE  Ring!Min(T) \in T
<1>1. IsWellFoundedOn(RingBefore, Nat)
  BY NatLessThanWellFounded DEF OpToRel, RingBefore
<1>2. PICK n \in T : \A m \in T : <<m, n>> \notin RingBefore
  BY <1>1, WFMin
<1>3. ASSUME NEW m \in T PROVE n <= m
  <2>1. m \in Nat /\ n \in Nat
    OBVIOUS
  <2>2. m < n => <<m, n>> \in RingBefore
    BY <2>1 DEF RingBefore
  <2>3. QED
    BY <1>2, <2>1, <2>2
<1>4. QED
  BY <1>3 DEF Ring!Min

\* Where new tokens start there is room for all of them.
LEMMA RoomThere ==
    ASSUME RingTypes, NEW n \in Nat \ {0}, NEW from \in Ring!Starts(n)
    PROVE  from \in Ring!Cells /\ n <= bufferSize /\ Ring!Stretch(from, n)
<1> DEFINE after == {a \in 0..bufferSize - n : Ring!Stretch((head + a) % bufferSize, n)}
           first == {i \in 0..bufferSize - n : Ring!Stretch(i, n)}
<1>1. from \in (IF after # {} THEN {(head + Ring!Min(after)) % bufferSize}
                ELSE IF first # {} THEN {Ring!Min(first)} ELSE {})
  BY DEF Ring!Starts
<1>2. bufferSize \in Nat \ {0} /\ head \in 0..bufferSize - 1
  BY RingSize DEF RingTypes, Ring!Cells
<1>3. after \subseteq Nat /\ first \subseteq Nat
  BY <1>2
<1>4. CASE after # {}
  <2>1. PICK a \in 0..bufferSize - n :
            from = (head + a) % bufferSize /\ Ring!Stretch((head + a) % bufferSize, n)
    <3>1. Ring!Min(after) \in after
      BY <1>3, <1>4, LeastOf
    <3>2. QED
      BY <1>1, <1>4, <3>1
  <2>2. n <= bufferSize
    BY <1>2, <2>1
  <2>3. (head + a) % bufferSize \in Ring!Cells
    <3>1. head + a \in 0..2 * bufferSize - 1
      BY <1>2, <2>1
    <3>2. QED
      BY <1>2, <3>1, Around DEF Ring!Cells
  <2>4. QED
    BY <2>1, <2>2, <2>3
<1>5. CASE after = {}
  <2>1. first # {} /\ from = Ring!Min(first)
    BY <1>1, <1>5
  <2>2. from \in first
    BY <1>3, <2>1, LeastOf
  <2>3. n <= bufferSize /\ from \in 0..bufferSize - 1
    BY <1>2, <2>2
  <2>4. QED
    BY <2>2, <2>3 DEF Ring!Cells
<1>6. QED
  BY <1>4, <1>5

\* New tokens take cells that nobody holds, one each, in the order of their positions.
LEMMA Writing ==
    ASSUME RingInv, NEW s \in SequenceIds, NEW n \in 1..MaxStretch, Ring!Write(s, n)
    PROVE  \E S \in SUBSET Ring!Cells : \E g \in Bijection(S, 0..n - 1) :
              /\ \A i \in S : sequenceIds[i] = {}
              /\ position' = [i \in Ring!Cells |->
                    IF i \in S THEN Cardinality(Held(s)) + g[i] ELSE position[i]]
              /\ sequenceIds' = [i \in Ring!Cells |->
                    IF i \in S THEN sequenceIds[i] \cup {s} ELSE sequenceIds[i]]
              /\ usedCells' = usedCells + n
              /\ head' \in Ring!Cells
              /\ mixed' = mixed
<1>1. bufferSize \in Nat \ {0} /\ n \in Nat \ {0}
  BY RingSize
<1>2. PICK from \in Ring!Starts(n) :
        LET slot(k) == (from + k) % bufferSize
            next == Cardinality(Held(s))
        IN  /\ position' = [i \in Ring!Cells |->
                   IF \E k \in 0..n - 1 : slot(k) = i
                   THEN next + CHOOSE k \in 0..n - 1 : slot(k) = i ELSE position[i]]
            /\ sequenceIds' = [i \in Ring!Cells |->
                   IF \E k \in 0..n - 1 : slot(k) = i
                   THEN sequenceIds[i] \cup {s} ELSE sequenceIds[i]]
            /\ usedCells' = usedCells + n
            /\ head' = (slot(n - 1) + 1) % bufferSize
            /\ mixed' = mixed
  BY RingCardinality DEF Ring!Write, Held
<1> DEFINE slot(k) == (from + k) % bufferSize
           S == {i \in Ring!Cells : \E k \in 0..n - 1 : slot(k) = i}
           g == [i \in S |-> CHOOSE k \in 0..n - 1 : slot(k) = i]
<1>3. from \in 0..bufferSize - 1 /\ n <= bufferSize /\ Ring!Stretch(from, n)
  BY <1>1, RoomThere DEF RingInv, Ring!Cells
<1>4. \A k \in 0..n - 1 :
        slot(k) = IF from + k < bufferSize THEN from + k ELSE from + k - bufferSize
  <2>1. SUFFICES ASSUME NEW k \in 0..n - 1
        PROVE (from + k) % bufferSize =
                  IF from + k < bufferSize THEN from + k ELSE from + k - bufferSize
    OBVIOUS
  <2>2. from + k \in 0..2 * bufferSize - 1
    BY <1>1, <1>3
  <2>3. QED
    BY <1>1, <1>3, <2>2, Around
<1>5. \A k \in 0..n - 1 : slot(k) \in Ring!Cells
  BY <1>1, <1>3, <1>4 DEF Ring!Cells
<1>6. \A j, k \in 0..n - 1 : slot(j) = slot(k) => j = k
  BY <1>1, <1>3, <1>4
<1>7. \A i \in S : sequenceIds[i] = {}
  <2>1. \A k \in 0..n - 1 : sequenceIds[slot(k)] = {}
    BY <1>3 DEF Ring!Stretch, Ring!Empty
  <2>2. QED
    BY <2>1
<1>8. head' \in Ring!Cells
  <2>1. slot(n - 1) \in 0..bufferSize - 1
    BY <1>1, <1>5 DEF Ring!Cells
  <2>2. slot(n - 1) + 1 \in 0..2 * bufferSize - 1
    BY <1>1, <2>1
  <2>3. (slot(n - 1) + 1) % bufferSize \in 0..bufferSize - 1
    BY <1>1, <2>1, <2>2, Around
  <2>4. QED
    BY <1>2, <2>3 DEF Ring!Cells
<1>9. \A i \in S : g[i] \in 0..n - 1 /\ slot(g[i]) = i
  OBVIOUS
<1> HIDE DEF slot
<1>10. g \in Bijection(S, 0..n - 1)
  <2>1. g \in [S -> 0..n - 1]
    BY <1>9
  <2>2. \A p \in 0..n - 1 : \E i \in S : g[i] = p
    BY <1>5, <1>6, <1>9
  <2>3. \A i, j \in S : g[i] = g[j] => i = j
    BY <1>9
  <2> HIDE DEF g, S
  <2>4. QED
    BY <2>1, <2>2, <2>3, Fun_IsBij
<1>11. position' = [i \in Ring!Cells |->
                    IF i \in S THEN Cardinality(Held(s)) + g[i] ELSE position[i]]
  BY <1>2 DEF slot
<1>12. sequenceIds' = [i \in Ring!Cells |->
                    IF i \in S THEN sequenceIds[i] \cup {s} ELSE sequenceIds[i]]
  BY <1>2 DEF slot
<1>13. S \in SUBSET Ring!Cells
  OBVIOUS
<1> HIDE DEF g, S
<1>14. QED
  BY <1>2, <1>7, <1>8, <1>10, <1>11, <1>12, <1>13

LEMMA WriteKeeps ==
    ASSUME RingInv, NEW s \in SequenceIds, NEW n \in 1..MaxStretch, Ring!Write(s, n)
    PROVE  RingInv'
<1> DEFINE Taken(S, g) ==
          /\ \A i \in S : sequenceIds[i] = {}
          /\ position' = [i \in Ring!Cells |->
                IF i \in S THEN Cardinality(Held(s)) + g[i] ELSE position[i]]
          /\ sequenceIds' = [i \in Ring!Cells |->
                IF i \in S THEN sequenceIds[i] \cup {s} ELSE sequenceIds[i]]
          /\ usedCells' = usedCells + n
          /\ head' \in Ring!Cells
          /\ mixed' = mixed
<1>0. PICK S \in SUBSET Ring!Cells : \E g \in Bijection(S, 0..n - 1) : Taken(S, g)
  BY Writing
<1>1. PICK g \in Bijection(S, 0..n - 1) : Taken(S, g)
  BY <1>0
<1> DEFINE N == Cardinality(Held(s))
<1>2. N \in Nat /\ n \in Nat \ {0}
  BY RingSize, HeldFinite
<1>3. /\ g \in [S -> 0..n - 1]
      /\ \A i, j \in S : g[i] = g[j] => i = j
      /\ \A p \in 0..n - 1 : \E i \in S : g[i] = p
  BY DEF Bijection, Injection, Surjection, IsInjective
<1>4. RingTypes
  BY DEF RingInv
<1> HIDE DEF N
<1>5. \A i \in S : N + g[i] \in Nat
  BY <1>2, <1>3
<1>6. RingTypes'
  <2>1. position' \in [Ring!Cells -> Nat \cup {-1}]
    BY <1>1, <1>4, <1>5 DEF RingTypes, N, Ring!Cells
  <2>2. sequenceIds' \in [Ring!Cells -> SUBSET SequenceIds]
    BY <1>1, <1>4 DEF RingTypes, Ring!Cells
  <2>3. usedCells' \in Int /\ mixed' \in BOOLEAN /\ head' \in Ring!Cells
    BY <1>1, <1>2, <1>4 DEF RingTypes
  <2>4. QED
    BY <2>1, <2>2, <2>3 DEF RingTypes, Ring!Cells
<1>7. ASSUME NEW i \in Ring!Cells PROVE position'[i] = -1 <=> sequenceIds'[i] = {}
  <2>1. CASE i \in S
    <3>1. position'[i] = N + g[i] /\ s \in sequenceIds'[i]
      BY <1>1, <2>1 DEF N
    <3>2. QED
      BY <1>5, <2>1, <3>1
  <2>2. CASE i \notin S
    BY <1>1, <2>2 DEF RingInv
  <2>3. QED
    BY <2>1, <2>2
<1>8. Held(s)' = Held(s) \cup S /\ Held(s) \cap S = {}
  BY <1>1 DEF Held, Ring!CellsOf, Ring!Cells
<1>9. ASSUME NEW t, t # s PROVE Held(t)' = Held(t) /\ Held(t) \cap S = {}
  BY <1>1, <1>9 DEF Held, Ring!CellsOf, Ring!Cells
<1>10. ASSUME ~mixed
       PROVE  IsFiniteSet(Pairs') /\ usedCells' = Cardinality(Pairs')
  <2> DEFINE New == {s} \X S
  <2>1. Pairs' = Pairs \cup New /\ Pairs \cap New = {}
    <3>1. Pairs' = {h \in SequenceIds \X Ring!Cells : h[1] \in sequenceIds'[h[2]]}
      BY DEF Pairs, Ring!Cells
    <3>2. ASSUME NEW h \in SequenceIds \X Ring!Cells
          PROVE  /\ h[1] \in sequenceIds'[h[2]] <=> h[1] \in sequenceIds[h[2]] \/ h \in New
                 /\ h \in New => h[1] \notin sequenceIds[h[2]]
      BY <1>1
    <3>3. New \subseteq SequenceIds \X Ring!Cells
      OBVIOUS
    <3> HIDE DEF New
    <3>4. QED
      BY <3>1, <3>2, <3>3 DEF Pairs
  <2>2. IsFiniteSet(S) /\ Cardinality(S) = n
    <3>1. IsFiniteSet(0..n - 1) /\ Cardinality(0..n - 1) = n
      BY <1>2, FS_Interval
    <3>2. IsFiniteSet(S)
      <4>1. IsFiniteSet(Ring!Cells)
        BY RingSize, FS_Interval DEF Ring!Cells
      <4>2. QED
        BY <4>1, FS_Subset
    <3>3. ExistsBijection(S, 0..n - 1)
      BY DEF ExistsBijection
    <3>4. QED
      BY <3>1, <3>2, <3>3, FS_Bijection
  <2>3. IsFiniteSet(New) /\ Cardinality(New) = n
    <3>1. IsFiniteSet({s}) /\ Cardinality({s}) = 1
      BY FS_Singleton
    <3>2. IsFiniteSet(New) /\ Cardinality(New) = 1 * n
      BY <2>2, <3>1, FS_Product
    <3>3. QED
      BY <1>2, <3>2
  <2> HIDE DEF New
  <2>4. IsFiniteSet(Pairs) /\ usedCells = Cardinality(Pairs) /\ Cardinality(Pairs) \in Nat
    BY <1>10, FS_CardinalityType DEF RingInv
  <2>5. /\ IsFiniteSet(Pairs \cup New)
        /\ Cardinality(Pairs \cup New) =
              Cardinality(Pairs) + Cardinality(New) - Cardinality(Pairs \cap New)
    BY <2>3, <2>4, FS_Union
  <2>6. Cardinality(Pairs \cap New) = 0
    BY <2>1, FS_EmptySet
  <2>7. Cardinality(Pairs \cup New) = usedCells + n
    BY <1>2, <2>3, <2>4, <2>5, <2>6
  <2>8. QED
    BY <1>1, <2>1, <2>5, <2>7
<1>11. ASSUME ~mixed, NEW t \in SequenceIds PROVE \E m \in Nat : Holds(t, m)'
  <2>1. PICK m \in Nat : Holds(t, m)
    BY <1>11 DEF RingInv
  <2>2. \A i \in Held(t) : i \in Ring!Cells
    BY HeldFinite
  <2>3. CASE t # s
    <3>1. Held(t)' = Held(t) /\ \A i \in Held(t) : position'[i] = position[i]
      BY <1>1, <1>9, <2>2, <2>3
    <3>2. QED
      BY <2>1, <3>1 DEF Holds
  <2>4. CASE t = s
    <3>1. N = m
      BY <2>1, <2>4, HeldCount DEF N
    <3>2. /\ \A i \in Held(s) : position'[i] = position[i]
          /\ \A i \in S : position'[i] = m + g[i]
      BY <1>1, <1>8, <2>2, <2>4, <3>1 DEF N
    <3>3. \A i \in Held(s)' : position'[i] \in 0..(m + n) - 1
      <4>1. \A i \in Held(s) : position[i] \in 0..m - 1
        BY <2>1, <2>4 DEF Holds
      <4>2. \A i \in S : g[i] \in 0..n - 1
        BY <1>3
      <4>3. QED
        BY <1>2, <1>8, <3>2, <4>1, <4>2
    <3>4. ASSUME NEW p \in 0..(m + n) - 1 PROVE \E i \in Held(s)' : position'[i] = p
      <4>1. CASE p < m
        <5>1. p \in 0..m - 1
          BY <4>1
        <5>2. PICK i \in Held(s) : position[i] = p
          BY <2>1, <2>4, <5>1 DEF Holds
        <5>3. QED
          BY <1>8, <3>2, <5>2
      <4>2. CASE p >= m
        <5>1. p - m \in 0..n - 1
          BY <1>2, <4>2
        <5>2. PICK i \in S : g[i] = p - m
          BY <1>3, <5>1
        <5>3. m + (p - m) = p
          OBVIOUS
        <5>4. QED
          BY <1>8, <3>2, <5>2, <5>3
      <4>3. QED
        BY <4>1, <4>2
    <3>5. ASSUME NEW i \in Held(s)', NEW j \in Held(s)', position'[i] = position'[j]
          PROVE  i = j
      <4>1. \A k \in Held(s) : position[k] \in 0..m - 1
        BY <2>1, <2>4 DEF Holds
      <4>2. \A k \in S : g[k] \in 0..n - 1
        BY <1>3
      <4>3. CASE i \in Held(s) /\ j \in Held(s)
        BY <2>1, <2>4, <3>2, <3>5, <4>3 DEF Holds
      <4>4. CASE i \in S /\ j \in S
        <5>1. m + g[i] = m + g[j] /\ g[i] \in Int /\ g[j] \in Int
          BY <3>2, <3>5, <4>2, <4>4
        <5>2. g[i] = g[j]
          BY <5>1
        <5>3. QED
          BY <1>3, <4>4, <5>2
      <4>5. CASE i \in Held(s) /\ j \in S
        BY <3>2, <3>5, <4>1, <4>2, <4>5
      <4>6. CASE i \in S /\ j \in Held(s)
        BY <3>2, <3>5, <4>1, <4>2, <4>6
      <4>7. QED
        BY <1>8, <4>3, <4>4, <4>5, <4>6
    <3>6. m + n \in Nat
      BY <1>2
    <3>7. Holds(s, m + n)'
      BY <3>3, <3>4, <3>5 DEF Holds
    <3>8. QED
      BY <2>4, <3>6, <3>7
  <2>5. QED
    BY <2>3, <2>4
<1>12. Ring!Cells' = Ring!Cells
  BY DEF Ring!Cells
<1>13. QED
  BY <1>1, <1>6, <1>7, <1>10, <1>11, <1>12 DEF RingInv

\* When a sequence is evicted, the cells it shared stay as they are for the others.
LEMMA EvictKeeps ==
    ASSUME RingInv, NEW s \in SequenceIds, Ring!evictSequence(s)
    PROVE  RingInv'
<1>1. /\ position' = [i \in Ring!Cells |->
                         IF sequenceIds[i] = {s} THEN -1 ELSE position[i]]
      /\ sequenceIds' = [i \in Ring!Cells |-> sequenceIds[i] \ {s}]
      /\ usedCells' = usedCells - Cardinality(Held(s))
      /\ head' = head /\ mixed' = mixed
  BY RingCardinality DEF Ring!evictSequence, Ring!Emptied, Ring!Freed, Held
<1>2. RingTypes
  BY DEF RingInv
<1>3. Ring!Cells' = Ring!Cells
  BY DEF Ring!Cells
<1>4. RingTypes'
  <2>1. usedCells' \in Int
    BY <1>1, <1>2, HeldFinite DEF RingTypes
  <2>2. position' \in [Ring!Cells -> Nat \cup {-1}]
    BY <1>1, <1>2 DEF RingTypes
  <2>3. sequenceIds' \in [Ring!Cells -> SUBSET SequenceIds]
    BY <1>1, <1>2 DEF RingTypes
  <2>4. QED
    BY <1>1, <1>2, <1>3, <2>1, <2>2, <2>3 DEF RingTypes
<1>5. ASSUME NEW i \in Ring!Cells PROVE position'[i] = -1 <=> sequenceIds'[i] = {}
  <2>1. position[i] = -1 <=> sequenceIds[i] = {}
    BY DEF RingInv
  <2>2. sequenceIds'[i] = {} <=> sequenceIds[i] = {s} \/ sequenceIds[i] = {}
    BY <1>1
  <2>3. position'[i] = IF sequenceIds[i] = {s} THEN -1 ELSE position[i]
    BY <1>1
  <2>4. QED
    BY <2>1, <2>2, <2>3
<1>6. ASSUME NEW t, t # s
      PROVE  Held(t)' = Held(t) /\ \A i \in Held(t) : position'[i] = position[i]
  BY <1>1, <1>3, <1>6 DEF Held, Ring!CellsOf
<1>7. Held(s)' = {}
  BY <1>1, <1>3 DEF Held, Ring!CellsOf
<1>8. ASSUME ~mixed
      PROVE  IsFiniteSet(Pairs') /\ usedCells' = Cardinality(Pairs')
  <2> DEFINE Old == {s} \X Held(s)
  <2>1. Pairs' = Pairs \ Old /\ Old \subseteq Pairs
    <3>1. Pairs' = {h \in SequenceIds \X Ring!Cells : h[1] \in sequenceIds'[h[2]]}
      BY <1>3 DEF Pairs
    <3>2. ASSUME NEW h \in SequenceIds \X Ring!Cells
          PROVE  /\ h[1] \in sequenceIds'[h[2]] <=> h[1] \in sequenceIds[h[2]] /\ h \notin Old
                 /\ h \in Old => h[1] \in sequenceIds[h[2]]
      BY <1>1 DEF Held, Ring!CellsOf
    <3>3. Old \subseteq SequenceIds \X Ring!Cells
      BY HeldFinite
    <3> HIDE DEF Old
    <3>4. QED
      BY <3>1, <3>2, <3>3 DEF Pairs
  <2>2. IsFiniteSet(Old) /\ Cardinality(Old) = Cardinality(Held(s))
    <3>1. IsFiniteSet({s}) /\ Cardinality({s}) = 1
      BY FS_Singleton
    <3>2. IsFiniteSet(Held(s)) /\ Cardinality(Held(s)) \in Nat
      BY HeldFinite
    <3>3. IsFiniteSet(Old) /\ Cardinality(Old) = 1 * Cardinality(Held(s))
      BY <3>1, <3>2, FS_Product
    <3>4. QED
      BY <3>2, <3>3
  <2> HIDE DEF Old
  <2>3. IsFiniteSet(Pairs) /\ usedCells = Cardinality(Pairs)
    BY <1>8 DEF RingInv
  <2>4. IsFiniteSet(Pairs \ Old)
        /\ Cardinality(Pairs \ Old) = Cardinality(Pairs) - Cardinality(Pairs \cap Old)
    BY <2>3, FS_Difference
  <2>5. Pairs \cap Old = Old
    BY <2>1
  <2>6. QED
    BY <1>1, <2>1, <2>2, <2>3, <2>4, <2>5
<1>9. ASSUME ~mixed, NEW t \in SequenceIds PROVE \E m \in Nat : Holds(t, m)'
  <2>1. PICK m \in Nat : Holds(t, m)
    BY <1>9 DEF RingInv
  <2>2. CASE t # s
    <3>1. Holds(t, m)'
      BY <1>6, <2>1, <2>2 DEF Holds
    <3>2. QED
      BY <3>1
  <2>3. CASE t = s
    <3>1. Holds(t, 0)'
      BY <1>7, <2>3 DEF Holds
    <3>2. QED
      BY <3>1
  <2>4. QED
    BY <2>2, <2>3
<1>10. QED
  BY <1>1, <1>3, <1>4, <1>5, <1>8, <1>9 DEF RingInv

\* A prompt that is shared gives its positions to one more sequence.
LEMMA ShareKeeps ==
    ASSUME RingInv, NEW s \in SequenceIds, NEW t \in SequenceIds, NEW n \in 1..bufferSize,
           Ring!sharePromptCells(s, t, n)
    PROVE  RingInv'
<1> DEFINE P == {i \in Held(s) : position[i] < n}
<1>1. /\ mixed' = (mixed \/ Held(t) # {})
      /\ sequenceIds' = [i \in Ring!Cells |->
             IF i \in P THEN sequenceIds[i] \cup {t} ELSE sequenceIds[i]]
      /\ usedCells' = usedCells + Cardinality(P)
      /\ position' = position /\ head' = head
  BY RingCardinality DEF Ring!sharePromptCells, Held
<1>2. RingTypes /\ n \in Nat /\ n >= 1
  BY RingSize DEF RingInv
<1>3. Ring!Cells' = Ring!Cells
  BY DEF Ring!Cells
<1>4. P \subseteq Ring!Cells /\ IsFiniteSet(P) /\ Cardinality(P) \in Nat
  <2>1. P \in SUBSET Held(s)
    OBVIOUS
  <2> HIDE DEF P
  <2>2. IsFiniteSet(P)
    BY <2>1, HeldFinite, FS_Subset
  <2>3. QED
    BY <2>1, <2>2, HeldFinite, FS_CardinalityType
<1>5. RingTypes'
  <2>1. sequenceIds' \in [Ring!Cells -> SUBSET SequenceIds]
    BY <1>1, <1>2 DEF RingTypes
  <2>2. usedCells' \in Int /\ mixed' \in BOOLEAN
    BY <1>1, <1>2, <1>4 DEF RingTypes
  <2>3. QED
    BY <1>1, <1>2, <1>3, <2>1, <2>2 DEF RingTypes
<1>6. ASSUME NEW i \in Ring!Cells PROVE position'[i] = -1 <=> sequenceIds'[i] = {}
  <2>1. position[i] = -1 <=> sequenceIds[i] = {}
    BY DEF RingInv
  <2>2. i \in P => sequenceIds[i] # {}
    BY DEF Held, Ring!CellsOf
  <2> HIDE DEF P
  <2>3. QED
    BY <1>1, <2>1, <2>2
<1>7. ASSUME NEW u, u # t PROVE Held(u)' = Held(u)
  BY <1>1, <1>3, <1>7 DEF Held, Ring!CellsOf
<1>8. Held(t)' = Held(t) \cup P
  <2> HIDE DEF P
  <2>1. QED
    BY <1>1, <1>3, <1>4 DEF Held, Ring!CellsOf
<1>9. ASSUME ~mixed' PROVE ~mixed /\ Held(t) = {}
  BY <1>1, <1>2, <1>9 DEF RingTypes
<1>10. ASSUME ~mixed'
       PROVE  IsFiniteSet(Pairs') /\ usedCells' = Cardinality(Pairs')
  <2> DEFINE New == {t} \X P
  <2>1. Pairs' = Pairs \cup New /\ Pairs \cap New = {}
    <3>1. Pairs' = {h \in SequenceIds \X Ring!Cells : h[1] \in sequenceIds'[h[2]]}
      BY <1>3 DEF Pairs
    <3>2. \A i \in Ring!Cells : t \notin sequenceIds[i]
      BY <1>9, <1>10 DEF Held, Ring!CellsOf
    <3> HIDE DEF P
    <3>3. ASSUME NEW h \in SequenceIds \X Ring!Cells
          PROVE  /\ h[1] \in sequenceIds'[h[2]] <=> h[1] \in sequenceIds[h[2]] \/ h \in New
                 /\ h \in New => h[1] \notin sequenceIds[h[2]]
      BY <1>1, <3>2
    <3>4. New \subseteq SequenceIds \X Ring!Cells
      BY <1>4
    <3> HIDE DEF New
    <3>5. QED
      BY <3>1, <3>3, <3>4 DEF Pairs
  <2> HIDE DEF P
  <2>2. IsFiniteSet(New) /\ Cardinality(New) = Cardinality(P)
    <3>1. IsFiniteSet({t}) /\ Cardinality({t}) = 1
      BY FS_Singleton
    <3>2. IsFiniteSet(New) /\ Cardinality(New) = 1 * Cardinality(P)
      BY <1>4, <3>1, FS_Product
    <3>3. QED
      BY <1>4, <3>2
  <2> HIDE DEF New
  <2>4. IsFiniteSet(Pairs) /\ usedCells = Cardinality(Pairs) /\ Cardinality(Pairs) \in Nat
    BY <1>9, <1>10, FS_CardinalityType DEF RingInv
  <2>5. /\ IsFiniteSet(Pairs \cup New)
        /\ Cardinality(Pairs \cup New) =
              Cardinality(Pairs) + Cardinality(New) - Cardinality(Pairs \cap New)
    BY <2>2, <2>4, FS_Union
  <2>6. Cardinality(Pairs \cap New) = 0
    BY <2>1, FS_EmptySet
  <2>7. Cardinality(Pairs \cup New) = usedCells + Cardinality(P)
    BY <1>4, <2>2, <2>4, <2>5, <2>6
  <2>8. QED
    BY <1>1, <2>1, <2>5, <2>7
<1>11. ASSUME ~mixed', NEW u \in SequenceIds PROVE \E m \in Nat : Holds(u, m)'
  <2>1. \A v \in SequenceIds : \E m \in Nat : Holds(v, m)
    BY <1>9, <1>11 DEF RingInv
  <2>2. CASE u # t
    <3>1. PICK m \in Nat : Holds(u, m)
      BY <2>1
    <3>2. Holds(u, m)'
      BY <1>1, <1>7, <2>2, <3>1 DEF Holds
    <3>3. QED
      BY <3>2
  <2>3. CASE u = t
    <3>1. PICK m \in Nat : Holds(s, m)
      BY <2>1
    <3>2. Held(u)' = P
      BY <1>8, <1>9, <1>11, <2>3
    <3>3. CASE m <= n
      <4>1. P = Held(s)
        BY <1>2, <3>1, <3>3 DEF Holds
      <4>2. Holds(u, m)'
        BY <1>1, <3>1, <3>2, <4>1 DEF Holds
      <4>3. QED
        BY <4>2
    <3>4. CASE n < m
      <4>1. \A i \in P : position[i] \in 0..n - 1
        BY <1>2, <3>1 DEF Holds
      <4>2. ASSUME NEW p \in 0..n - 1 PROVE \E i \in P : position[i] = p
        <5>1. p \in 0..m - 1 /\ p < n
          BY <1>2, <3>4
        <5>2. PICK i \in Held(s) : position[i] = p
          BY <3>1, <5>1 DEF Holds
        <5>3. QED
          BY <5>1, <5>2
      <4>3. \A i, j \in P : position[i] = position[j] => i = j
        BY <3>1 DEF Holds
      <4> HIDE DEF P
      <4>4. Holds(u, n)'
        BY <1>1, <3>2, <4>1, <4>2, <4>3 DEF Holds
      <4>5. QED
        BY <1>2, <4>4
    <3>5. QED
      BY <1>2, <3>3, <3>4
  <2>4. QED
    BY <2>2, <2>3
<1> HIDE DEF P
<1>12. QED
  BY <1>3, <1>5, <1>6, <1>10, <1>11 DEF RingInv

\* A ring in which every cell is empty.
LEMMA EmptyRing ==
    ASSUME position = [i \in Ring!Cells |-> -1], sequenceIds = [i \in Ring!Cells |-> {}],
           head = 0, usedCells = 0, mixed \in BOOLEAN
    PROVE  RingInv
<1>1. 0 \in Ring!Cells
  BY RingSize DEF Ring!Cells
<1>2. RingTypes
  BY <1>1 DEF RingTypes
<1>3. Pairs = {}
  BY DEF Pairs
<1>4. IsFiniteSet(Pairs) /\ Cardinality(Pairs) = 0
  BY <1>3, FS_EmptySet
<1>5. \A s : Holds(s, 0)
  BY DEF Holds, Held, Ring!CellsOf
<1>6. QED
  BY <1>2, <1>4, <1>5 DEF RingInv

LEMMA RingInit == Ring!Init => RingInv
BY EmptyRing DEF Ring!Init

LEMMA ResetKeeps == Ring!reset => RingInv'
<1>1. SUFFICES ASSUME Ring!reset PROVE RingInv'
  OBVIOUS
<1>2. /\ position' = [i \in Ring!Cells |-> -1] /\ sequenceIds' = [i \in Ring!Cells |-> {}]
      /\ head' = 0 /\ usedCells' = 0 /\ mixed' \in BOOLEAN
  BY <1>1 DEF Ring!reset
<1>3. 0 \in Ring!Cells
  BY RingSize DEF Ring!Cells
<1>4. Ring!Cells' = Ring!Cells
  BY DEF Ring!Cells
<1>5. RingTypes'
  BY <1>2, <1>3, <1>4 DEF RingTypes
<1>6. Pairs' = {}
  BY <1>2, <1>4 DEF Pairs
<1>7. IsFiniteSet(Pairs') /\ Cardinality(Pairs') = 0
  BY <1>6, FS_EmptySet
<1>8. \A s : Holds(s, 0)'
  BY <1>2, <1>4 DEF Holds, Held, Ring!CellsOf
<1>9. QED
  BY <1>2, <1>4, <1>5, <1>7, <1>8 DEF RingInv

LEMMA RingStep == RingInv /\ [Ring!Next]_(Ring!vars) => RingInv'
<1>1. SUFFICES ASSUME RingInv, [Ring!Next]_(Ring!vars) PROVE RingInv'
  OBVIOUS
<1>2. CASE Ring!Next
  BY <1>1, <1>2, WriteKeeps, EvictKeeps, ShareKeeps, ResetKeeps DEF Ring!Next
<1>3. CASE UNCHANGED Ring!vars
  BY <1>1, <1>3 DEF RingInv, RingTypes, Pairs, Holds, Held, Ring!CellsOf, Ring!Cells,
     Ring!vars, Ring!cells
<1>4. QED
  BY <1>1, <1>2, <1>3

LEMMA RingCorrect == Ring!Spec => []RingInv
BY RingInit, RingStep, PTL DEF Ring!Spec

\* The count of used cells is the number of cells the sequences hold, and a sequence with
\* as many cells as a prompt has positions holds each of them: for every size of the ring,
\* whatever is written, shared, evicted and put around its end.
THEOREM RingCounts == Ring!Spec => []CountsAreRight
<1>1. ASSUME RingInv PROVE CountsAreRight
  <2>1. Ring!CountAddsUp
    <3>1. {h \in SequenceIds \X Ring!Cells : h[1] \in sequenceIds[h[2]]} = Pairs
      BY DEF Pairs
    <3>2. QED
      BY <1>1, <3>1, RingCardinality DEF RingInv, Ring!CountAddsUp
  <2>2. ASSUME ~mixed, NEW s \in SequenceIds, NEW n \in 1..bufferSize,
               Ring!hasPromptCache(s, n)
        PROVE  Ring!Represented(s, n)
    <3> DEFINE P == {i \in Held(s) : position[i] \in 0..n - 1}
    <3>1. PICK m \in Nat : Holds(s, m)
      BY <1>1, <2>2 DEF RingInv
    <3>2. Cardinality(P) >= n
      BY <2>2, RingCardinality DEF Ring!hasPromptCache, Held
    <3>3. Cardinality(P) <= m /\ Cardinality(P) \in Nat
      <4>1. P \in SUBSET Held(s)
        OBVIOUS
      <4> HIDE DEF P
      <4>2. IsFiniteSet(P) /\ Cardinality(P) <= Cardinality(Held(s))
        BY <4>1, HeldFinite, FS_Subset
      <4>3. QED
        BY <3>1, <4>2, HeldCount, FS_CardinalityType
    <3>4. n \in Nat /\ n <= m
      <4> HIDE DEF P
      <4>1. QED
        BY <3>2, <3>3, RingSize
    <3>5. QED
      BY <3>1, <3>4 DEF Holds, Held, Ring!Represented
  <2>3. QED
    BY <2>1, <2>2 DEF CountsAreRight, Ring!CountsAreRight, Ring!PromptIsComplete
<1>2. QED
  BY <1>1, RingCorrect, PTL

(***************************************************************************)
(* The live dashboard                                                      *)
(***************************************************************************)

EventKinds == {"snapshot", "reset", "started", "task", "failed", "complete"}
LiveEvent  == [seq : Nat, kind : EventKinds, id : Live!Jobs \cup Sessions \cup {NoSession},
               records : SUBSET Live!Jobs]
ViewState  == [complete : SUBSET Live!Jobs, running : SUBSET Live!Jobs,
               failed : SUBSET Live!Jobs, sessions : SUBSET Sessions, done : [Evals -> Nat]]

\* What is reported of is a job or a session, what fails a job, what has tasks an eval.
EventRight(ev) ==
    /\ ev \in LiveEvent
    /\ ev.kind \in {"started", "complete"} => ev.id \in Live!Jobs \cup Sessions
    /\ ev.kind = "failed" => ev.id \in Live!Jobs
    /\ ev.kind = "task" => ev.id \in Evals

EventsRight(q) == q \in Seq(LiveEvent) /\ \A i \in DOMAIN q : EventRight(q[i])

(* What an event says of a job.                                            *)

Clears(ev)     == ev.kind \in {"snapshot", "reset"}
Starts(ev, x)  == ev.kind = "started" /\ ev.id = x
Tasked(ev, e)  == ev.kind = "task" /\ ev.id = e
Lists(ev, x)   == (ev.kind = "snapshot" /\ x \in ev.records) \/ (ev.kind = "complete" /\ ev.id = x)
Touches(ev, x) == Clears(ev) \/ (ev.kind = "complete" /\ ev.id = x)
Ends(ev, x)    == Clears(ev) \/ (ev.kind \in {"failed", "complete"} /\ ev.id = x)

LEMMA JobSets ==
    /\ \A x \in Live!Jobs : x \notin Sessions
    /\ Runs \subseteq Live!Jobs /\ Evals \subseteq Live!Jobs
    /\ \A x \in Live!Jobs : x \in Evals \/ x \in Runs
    /\ \A x \in Runs : x \notin Evals
    /\ MaxEventBuffer \in Nat /\ LoadLimit \in Nat
BY LiveAssumption DEF Live!LiveConstants, Live!Jobs

(* What an event makes of a dashboard.                                     *)

HandledRight(v, ev, h) ==
    /\ h \in ViewState
    /\ \A x \in Live!Jobs :
         /\ Touches(ev, x) => (x \in h.complete <=> Lists(ev, x))
         /\ ~Touches(ev, x) => (x \in h.complete <=> x \in v.complete)
         /\ x \in h.running => Starts(ev, x) \/ (x \in v.running /\ ~Ends(ev, x))
    /\ \A e \in Evals :
         /\ Starts(ev, e) => h.done[e] = 0
         /\ ~Starts(ev, e) /\ ~Tasked(ev, e) /\ e \in h.running => h.done[e] = v.done[e]
         /\ Tasked(ev, e) /\ e \in h.running => h.done[e] = v.done[e] + 1

LEMMA Handled ==
    ASSUME NEW v \in ViewState, NEW ev, EventRight(ev)
    PROVE  HandledRight(v, ev, Live!handleEvent(v, ev))
<1> DEFINE h == Live!handleEvent(v, ev)
           x == ev.id
<1>1. v.complete \subseteq Live!Jobs /\ v.running \subseteq Live!Jobs /\ v.failed \subseteq Live!Jobs
      /\ v.sessions \subseteq Sessions /\ v.done \in [Evals -> Nat]
  BY DEF ViewState
<1>2. ev.kind \in EventKinds /\ ev.records \subseteq Live!Jobs
  BY DEF EventRight, LiveEvent
<1>3. CASE ev.kind = "snapshot"
  <2>1. h = [v EXCEPT !.complete = ev.records, !.running = {}, !.failed = {}]
    BY <1>3 DEF Live!handleEvent, Live!SnapshotHandled
  <2>2. h.complete = ev.records /\ h.running = {} /\ h \in ViewState
    BY <1>1, <1>2, <2>1 DEF ViewState
  <2>3. QED
    BY <1>3, <2>2 DEF HandledRight, Touches, Lists, Starts, Tasked, Clears
<1>4. CASE ev.kind = "reset"
  <2>1. h = [Live!EmptyView EXCEPT !.done = v.done]
    BY <1>4 DEF Live!handleEvent, Live!ResetHandled
  <2>2. h = [complete |-> {}, running |-> {}, failed |-> {}, sessions |-> {}, done |-> v.done]
    BY <2>1 DEF Live!EmptyView
  <2>3. h.complete = {} /\ h.running = {} /\ h \in ViewState
    BY <1>1, <2>2 DEF ViewState
  <2>4. QED
    BY <1>4, <2>3 DEF HandledRight, Touches, Lists, Starts, Tasked, Clears
<1>5. CASE ev.kind = "task"
  <2>1. h = Live!EvalTaskComplete(v, x) /\ x \in Evals
    BY <1>5 DEF Live!handleEvent, EventRight
  <2>2. CASE x \in v.running
    <3>1. h = [v EXCEPT !.done[x] = @ + 1]
      BY <2>1, <2>2 DEF Live!EvalTaskComplete
    <3>2. h.complete = v.complete /\ h.running = v.running /\ h \in ViewState
          /\ h.done[x] = v.done[x] + 1 /\ \A e \in Evals : e # x => h.done[e] = v.done[e]
      BY <1>1, <2>1, <3>1 DEF ViewState
    <3>3. QED
      BY <1>5, <3>2 DEF HandledRight, Touches, Lists, Starts, Tasked, Ends, Clears
  <2>3. CASE x \notin v.running
    <3>1. h = v
      BY <2>1, <2>3 DEF Live!EvalTaskComplete
    <3>2. QED
      BY <1>5, <2>3, <3>1 DEF HandledRight, Touches, Lists, Starts, Tasked, Ends, Clears
  <2>4. QED
    BY <2>2, <2>3
<1>6. CASE ev.kind = "started"
  <2>1. CASE x \in Sessions
    <3>1. h = [v EXCEPT !.sessions = @ \cup {x}]
      BY <1>6, <2>1 DEF Live!handleEvent, Live!SessionStarted
    <3>2. h.complete = v.complete /\ h.running = v.running /\ h \in ViewState /\ h.done = v.done
      BY <1>1, <2>1, <3>1 DEF ViewState
    <3>3. QED
      BY <1>6, <2>1, <3>2, JobSets DEF HandledRight, Touches, Lists, Starts, Tasked, Ends, Clears
  <2>2. CASE x \in Evals
    <3>1. h = [v EXCEPT !.running = (@ \ Live!Orphans(v, x)) \cup {x}, !.done[x] = 0]
      BY <1>6, <2>2, JobSets DEF Live!handleEvent, Live!EvalStarted
    <3> DEFINE rest == (v.running \ Live!Orphans(v, x)) \cup {x}
    <3>2. rest \subseteq v.running \cup {x} /\ x \in Live!Jobs
      BY <2>2, JobSets
    <3>3. h = [v EXCEPT !.running = rest, !.done[x] = 0]
      BY <3>1
    <3> HIDE DEF rest
    <3>a. rest \in SUBSET Live!Jobs
      BY <1>1, <3>2
    <3> DEFINE none == [v.done EXCEPT ![x] = 0]
    <3>b. none \in [Evals -> Nat] /\ none[x] = 0 /\ \A e \in Evals : e # x => none[e] = v.done[e]
      BY <1>1, <2>2
    <3>c. h = [v EXCEPT !.running = rest, !.done = none]
      BY <3>3 DEF ViewState
    <3> HIDE DEF none
    <3>d. h.complete = v.complete /\ h.running = rest /\ h \in ViewState /\ h.done = none
      BY <1>1, <3>a, <3>b, <3>c DEF ViewState
    <3>4. h.complete = v.complete /\ h.running = rest /\ h \in ViewState
          /\ h.done[x] = 0 /\ \A e \in Evals : e # x => h.done[e] = v.done[e]
      BY <3>b, <3>d
    <3>5. QED
      BY <1>6, <3>2, <3>4 DEF HandledRight, Touches, Lists, Starts, Tasked, Ends, Clears
  <2>3. CASE x \in Runs
    <3>1. h = [v EXCEPT !.running = @ \cup {x}]
      BY <1>6, <2>3, JobSets DEF Live!handleEvent, Live!Started
    <3>2. h.complete = v.complete /\ h.running = v.running \cup {x} /\ h \in ViewState
          /\ h.done = v.done
      BY <1>1, <2>3, <3>1, JobSets DEF ViewState
    <3>3. QED
      BY <1>6, <2>3, <3>2, JobSets DEF HandledRight, Touches, Lists, Starts, Tasked, Ends, Clears
  <2>4. QED
    BY <1>6, <2>1, <2>2, <2>3, JobSets DEF EventRight
<1>7. CASE ev.kind = "failed"
  <2>1. x \in Live!Jobs
    BY <1>7 DEF EventRight
  <2>2. h = Live!EvalFailed(v, x) \/ h = Live!RunFailed(v, x)
    BY <1>7 DEF Live!handleEvent
  <2>3. h.complete = v.complete /\ h.running = v.running \ {x} /\ h \in ViewState
        /\ h.done = v.done
    BY <1>1, <2>1, <2>2 DEF Live!EvalFailed, Live!RunFailed, ViewState
  <2>4. QED
    BY <1>7, <2>3 DEF HandledRight, Touches, Lists, Starts, Tasked, Ends, Clears
<1>8. CASE ev.kind = "complete"
  <2>1. CASE x \in Sessions
    <3>1. h = [v EXCEPT !.sessions = @ \ {x},
                        !.running = {y \in @ : y \in Runs \/ SessionOf[y] # x}]
      BY <1>8, <2>1 DEF Live!handleEvent, Live!SessionComplete
    <3> DEFINE rest == {y \in v.running : y \in Runs \/ SessionOf[y] # x}
    <3>2. rest \subseteq v.running
      OBVIOUS
    <3>3. h = [v EXCEPT !.sessions = @ \ {x}, !.running = rest]
      BY <3>1
    <3> HIDE DEF rest
    <3>4. h.complete = v.complete /\ h.running = rest /\ h \in ViewState /\ h.done = v.done
      BY <1>1, <3>2, <3>3 DEF ViewState
    <3>5. QED
      BY <1>8, <2>1, <3>2, <3>4, JobSets
      DEF HandledRight, Touches, Lists, Starts, Tasked, Ends, Clears
  <2>2. CASE x \in Live!Jobs
    <3>1. h = Live!EvalComplete(v, x) \/ h = Live!RunComplete(v, x)
      BY <1>8, <2>2, JobSets DEF Live!handleEvent
    <3>2. h.complete = v.complete \cup {x} /\ h.running = v.running \ {x} /\ h \in ViewState
          /\ h.done = v.done
      <4>1. CASE h = Live!EvalComplete(v, x)
        BY <1>1, <2>2, <4>1 DEF Live!EvalComplete, ViewState
      <4>2. CASE h = Live!RunComplete(v, x)
        <5>1. /\ v.complete \cup {x} \in SUBSET Live!Jobs /\ v.running \ {x} \in SUBSET Live!Jobs
              /\ v.failed \ {x} \in SUBSET Live!Jobs
          BY <1>1, <2>2
        <5>2. h = [v EXCEPT !.running = v.running \ {x}, !.failed = v.failed \ {x},
                            !.complete = v.complete \cup {x}]
          BY <4>2 DEF Live!RunComplete
        <5>3. QED
          BY <5>1, <5>2 DEF ViewState
      <4>3. QED
        BY <3>1, <4>1, <4>2
    <3>3. QED
      BY <1>8, <3>2 DEF HandledRight, Touches, Lists, Starts, Tasked, Ends, Clears
  <2>3. QED
    BY <1>8, <2>1, <2>2 DEF EventRight
<1>9. QED
  BY <1>2, <1>3, <1>4, <1>5, <1>6, <1>7, <1>8 DEF EventKinds

(* What a dashboard will show once it has handled what is on the way.      *)

\* Whether job x will be listed: as the last event says that speaks of it.
ListedRight(q, v, x, listed) ==
    /\ \A i \in DOMAIN q :
         Touches(q[i], x) /\ (\A j \in DOMAIN q : j > i => ~Touches(q[j], x))
           => (Lists(q[i], x) <=> x \in listed)
    /\ (\A i \in DOMAIN q : ~Touches(q[i], x)) => (x \in v.complete <=> x \in listed)

\* What will be shown as running is in flight.
RunningRight(q, v, x, flying) ==
    /\ \A i \in DOMAIN q :
         Starts(q[i], x) /\ (\A j \in DOMAIN q : j > i => ~Ends(q[j], x)) => x \in flying
    /\ x \in v.running /\ (\A i \in DOMAIN q : ~Ends(q[i], x)) => x \in flying

Later(q, e, i) == {j \in DOMAIN q : j > i /\ Tasked(q[j], e)}
Renews(ev, e)  == Ends(ev, e) \/ Starts(ev, e)

\* The progress of eval e will be n: from its start, or from where it is shown.
ProgressRight(q, v, e, n) ==
    /\ \A i \in DOMAIN q :
         Starts(q[i], e) /\ (\A j \in DOMAIN q : j > i => ~Renews(q[j], e))
           => n = Cardinality(Later(q, e, i))
    /\ e \in v.running /\ (\A i \in DOMAIN q : ~Renews(q[i], e))
         => n = v.done[e] + Cardinality(Later(q, e, 0))

LEMMA LaterFinite ==
    ASSUME NEW q \in Seq(LiveEvent), NEW e, NEW i
    PROVE  IsFiniteSet(Later(q, e, i)) /\ Cardinality(Later(q, e, i)) \in Nat
<1>1. IsFiniteSet(1..Len(q)) /\ Later(q, e, i) \subseteq 1..Len(q)
  BY FS_Interval DEF Later
<1>2. QED
  BY <1>1, FS_Subset, FS_CardinalityType

\* One more event.
LEMMA Longer ==
    ASSUME NEW q \in Seq(LiveEvent), NEW ev \in LiveEvent
    PROVE  /\ Append(q, ev) \in Seq(LiveEvent) /\ Len(q) \in Nat
           /\ Len(Append(q, ev)) = Len(q) + 1
           /\ DOMAIN q = 1..Len(q) /\ DOMAIN Append(q, ev) = 1..(Len(q) + 1)
           /\ Append(q, ev)[Len(q) + 1] = ev
           /\ \A i \in 1..Len(q) : Append(q, ev)[i] = q[i]
OBVIOUS

\* One less.
LEMMA Shorter ==
    ASSUME NEW q \in Seq(LiveEvent), q # <<>>
    PROVE  /\ Tail(q) \in Seq(LiveEvent) /\ Len(q) \in Nat \ {0} /\ Head(q) = q[1]
           /\ DOMAIN q = 1..Len(q) /\ DOMAIN Tail(q) = 1..(Len(q) - 1)
           /\ q[1] \in LiveEvent
           /\ \A i \in 1..(Len(q) - 1) : Tail(q)[i] = q[i + 1]
OBVIOUS

LEMMA LaterAppend ==
    ASSUME NEW q \in Seq(LiveEvent), NEW ev \in LiveEvent, NEW e, NEW i \in 0..Len(q)
    PROVE  /\ Tasked(ev, e) =>
                Cardinality(Later(Append(q, ev), e, i)) = Cardinality(Later(q, e, i)) + 1
           /\ ~Tasked(ev, e) => Later(Append(q, ev), e, i) = Later(q, e, i)
<1> DEFINE p == Append(q, ev)
<1>1. /\ Len(q) \in Nat /\ DOMAIN q = 1..Len(q) /\ DOMAIN p = 1..(Len(q) + 1)
      /\ p[Len(q) + 1] = ev /\ \A j \in 1..Len(q) : p[j] = q[j]
  BY Longer
<1> HIDE DEF p
<1>2. Tasked(ev, e) => Later(p, e, i) = Later(q, e, i) \cup {Len(q) + 1}
  BY <1>1 DEF Later
<1>3. ~Tasked(ev, e) => Later(p, e, i) = Later(q, e, i)
  BY <1>1 DEF Later
<1>4. IsFiniteSet(Later(q, e, i)) /\ Len(q) + 1 \notin Later(q, e, i)
  <2>1. Len(q) + 1 \notin Later(q, e, i)
    BY <1>1 DEF Later
  <2>2. QED
    BY <2>1, LaterFinite
<1>5. Cardinality(Later(q, e, i) \cup {Len(q) + 1}) = Cardinality(Later(q, e, i)) + 1
  BY <1>4, FS_AddElement
<1>6. QED
  BY <1>2, <1>3, <1>5 DEF p

LEMMA LaterTail ==
    ASSUME NEW q \in Seq(LiveEvent), q # <<>>, NEW e, NEW i \in Nat
    PROVE  Cardinality(Later(Tail(q), e, i)) = Cardinality(Later(q, e, i + 1))
<1> DEFINE p == Tail(q)
<1>1. /\ Len(q) \in Nat \ {0} /\ DOMAIN q = 1..Len(q) /\ DOMAIN p = 1..(Len(q) - 1)
      /\ \A j \in 1..(Len(q) - 1) : p[j] = q[j + 1]
  BY Shorter
<1> HIDE DEF p
<1> DEFINE f == [j \in Later(p, e, i) |-> j + 1]
<1>2. f \in Bijection(Later(p, e, i), Later(q, e, i + 1))
  <2>1. \A j \in Later(p, e, i) : j \in Nat /\ j + 1 \in Later(q, e, i + 1)
    BY <1>1 DEF Later
  <2>2. \A k \in Later(q, e, i + 1) : k - 1 \in Later(p, e, i) /\ f[k - 1] = k
    <3>1. SUFFICES ASSUME NEW k \in Later(q, e, i + 1)
                   PROVE  k - 1 \in Later(p, e, i) /\ f[k - 1] = k
      OBVIOUS
    <3>2. k \in 1..Len(q) /\ k > i + 1 /\ Tasked(q[k], e)
      BY <1>1 DEF Later
    <3>3. k - 1 \in 1..(Len(q) - 1) /\ k - 1 > i /\ (k - 1) + 1 = k
      BY <1>1, <3>2
    <3>4. p[k - 1] = q[k]
      BY <1>1, <3>3
    <3>5. k - 1 \in Later(p, e, i)
      BY <1>1, <3>2, <3>3, <3>4 DEF Later
    <3>6. QED
      BY <3>3, <3>5
  <2>3. f \in Surjection(Later(p, e, i), Later(q, e, i + 1))
    <3>1. f \in [Later(p, e, i) -> Later(q, e, i + 1)]
      BY <2>1
    <3>2. QED
      BY <2>2, <3>1 DEF Surjection
  <2>4. f \in Injection(Later(p, e, i), Later(q, e, i + 1))
    <3>1. f \in [Later(p, e, i) -> Later(q, e, i + 1)]
      BY <2>1
    <3>2. \A j, k \in Later(p, e, i) : f[j] = f[k] => j = k
      BY <2>1
    <3>3. QED
      BY <3>1, <3>2 DEF Injection, IsInjective
  <2>5. QED
    BY <2>3, <2>4 DEF Bijection
<1> HIDE DEF f
<1>3. p \in Seq(LiveEvent)
  BY Shorter DEF p
<1>4. IsFiniteSet(Later(p, e, i))
  BY <1>3, LaterFinite
<1>5. Cardinality(Later(p, e, i)) = Cardinality(Later(q, e, i + 1))
  BY <1>2, <1>4, FS_Bijection DEF ExistsBijection
<1>6. QED
  BY <1>5 DEF p

LEMMA LaterFirst ==
    ASSUME NEW q \in Seq(LiveEvent), q # <<>>, NEW e
    PROVE  /\ Tasked(q[1], e) => Cardinality(Later(q, e, 0)) = Cardinality(Later(q, e, 1)) + 1
           /\ ~Tasked(q[1], e) => Later(q, e, 0) = Later(q, e, 1)
<1>1. Len(q) \in Nat \ {0} /\ DOMAIN q = 1..Len(q)
  BY Shorter
<1>2. Tasked(q[1], e) => Later(q, e, 0) = Later(q, e, 1) \cup {1}
  BY <1>1 DEF Later
<1>3. ~Tasked(q[1], e) => Later(q, e, 0) = Later(q, e, 1)
  BY <1>1 DEF Later
<1>4. IsFiniteSet(Later(q, e, 1)) /\ 1 \notin Later(q, e, 1)
  <2>1. 1 \notin Later(q, e, 1)
    BY DEF Later
  <2>2. QED
    BY <2>1, LaterFinite
<1>5. Cardinality(Later(q, e, 1) \cup {1}) = Cardinality(Later(q, e, 1)) + 1
  BY <1>4, FS_AddElement
<1>6. QED
  BY <1>2, <1>3, <1>5

\* All of it, for one dashboard.
DashRight(q, v, listed, flying, n) ==
    /\ \A x \in Live!Jobs : ListedRight(q, v, x, listed) /\ RunningRight(q, v, x, flying)
    /\ \A e \in Evals : ProgressRight(q, v, e, n[e])

\* An event says what the server does as it stamps it.
Tells(ev, listed, listed2, flying, flying2, n, n2) ==
    /\ \A x \in Live!Jobs :
         /\ Touches(ev, x) => (Lists(ev, x) <=> x \in listed2)
         /\ ~Touches(ev, x) => (x \in listed <=> x \in listed2)
         /\ Starts(ev, x) => x \in flying2
         /\ x \in flying /\ ~Ends(ev, x) => x \in flying2
    /\ \A e \in Evals :
         /\ Starts(ev, e) => n2[e] = 0
         /\ Tasked(ev, e) => n2[e] = n[e] + 1
         /\ ~Starts(ev, e) /\ ~Tasked(ev, e) => n2[e] = n[e]

LEMMA ToldMore ==
    ASSUME NEW q \in Seq(LiveEvent), NEW v, NEW ev \in LiveEvent,
           NEW listed, NEW listed2, NEW flying, NEW flying2,
           NEW n \in [Evals -> Nat], NEW n2 \in [Evals -> Nat], v \in ViewState,
           Tells(ev, listed, listed2, flying, flying2, n, n2),
           DashRight(q, v, listed, flying, n)
    PROVE  DashRight(Append(q, ev), v, listed2, flying2, n2)
<1> DEFINE p == Append(q, ev)
<1>1. /\ Len(q) \in Nat /\ DOMAIN q = 1..Len(q) /\ DOMAIN p = 1..(Len(q) + 1)
      /\ p[Len(q) + 1] = ev /\ \A j \in 1..Len(q) : p[j] = q[j]
  BY Longer
<1>2. \A e, i : i \in 0..Len(q) =>
         /\ Tasked(ev, e) => Cardinality(Later(p, e, i)) = Cardinality(Later(q, e, i)) + 1
         /\ ~Tasked(ev, e) => Later(p, e, i) = Later(q, e, i)
  BY LaterAppend
<1> HIDE DEF p
<1>3. ASSUME NEW x \in Live!Jobs
      PROVE  ListedRight(p, v, x, listed2)
  <2>1. ListedRight(q, v, x, listed)
    BY DEF DashRight
  <2>2. /\ Touches(ev, x) => (Lists(ev, x) <=> x \in listed2)
        /\ ~Touches(ev, x) => (x \in listed <=> x \in listed2)
    BY DEF Tells
  <2>3. CASE Touches(ev, x)
    <3>1. ASSUME NEW i \in DOMAIN p, Touches(p[i], x),
                 \A j \in DOMAIN p : j > i => ~Touches(p[j], x)
          PROVE  Lists(p[i], x) <=> x \in listed2
      <4>1. i = Len(q) + 1
        BY <1>1, <2>3, <3>1
      <4>2. QED
        BY <1>1, <2>2, <2>3, <4>1
    <3>2. ~(\A i \in DOMAIN p : ~Touches(p[i], x))
      BY <1>1, <2>3
    <3>3. QED
      BY <3>1, <3>2 DEF ListedRight
  <2>4. CASE ~Touches(ev, x)
    <3>1. ASSUME NEW i \in DOMAIN p, Touches(p[i], x),
                 \A j \in DOMAIN p : j > i => ~Touches(p[j], x)
          PROVE  Lists(p[i], x) <=> x \in listed2
      <4>1. i \in DOMAIN q /\ p[i] = q[i]
        BY <1>1, <2>4, <3>1
      <4>2. \A j \in DOMAIN q : j > i => ~Touches(q[j], x)
        BY <1>1, <3>1
      <4>3. Lists(q[i], x) <=> x \in listed
        BY <2>1, <3>1, <4>1, <4>2 DEF ListedRight
      <4>4. QED
        BY <2>2, <2>4, <4>1, <4>3
    <3>2. ASSUME \A i \in DOMAIN p : ~Touches(p[i], x)
          PROVE  x \in v.complete <=> x \in listed2
      <4>1. \A i \in DOMAIN q : ~Touches(q[i], x)
        BY <1>1, <3>2
      <4>2. QED
        BY <2>1, <2>2, <2>4, <4>1 DEF ListedRight
    <3>3. QED
      BY <3>1, <3>2 DEF ListedRight
  <2>5. QED
    BY <2>3, <2>4
<1>4. ASSUME NEW x \in Live!Jobs
      PROVE  RunningRight(p, v, x, flying2)
  <2>1. RunningRight(q, v, x, flying)
    BY DEF DashRight
  <2>2. /\ Starts(ev, x) => x \in flying2
        /\ x \in flying /\ ~Ends(ev, x) => x \in flying2
    BY DEF Tells
  <2>3. ASSUME NEW i \in DOMAIN p, Starts(p[i], x),
               \A j \in DOMAIN p : j > i => ~Ends(p[j], x)
        PROVE  x \in flying2
    <3>1. CASE i = Len(q) + 1
      BY <1>1, <2>2, <2>3, <3>1
    <3>2. CASE i # Len(q) + 1
      <4>1. i \in DOMAIN q /\ p[i] = q[i] /\ ~Ends(ev, x)
        BY <1>1, <2>3, <3>2
      <4>2. \A j \in DOMAIN q : j > i => ~Ends(q[j], x)
        BY <1>1, <2>3
      <4>3. x \in flying
        BY <2>1, <2>3, <4>1, <4>2 DEF RunningRight
      <4>4. QED
        BY <2>2, <4>1, <4>3
    <3>3. QED
      BY <3>1, <3>2
  <2>4. ASSUME x \in v.running, \A i \in DOMAIN p : ~Ends(p[i], x)
        PROVE  x \in flying2
    <3>1. ~Ends(ev, x) /\ \A i \in DOMAIN q : ~Ends(q[i], x)
      <4>1. Len(q) + 1 \in DOMAIN p /\ \A i \in DOMAIN q : i \in DOMAIN p /\ p[i] = q[i]
        BY <1>1
      <4>2. ~Ends(p[Len(q) + 1], x) /\ \A i \in DOMAIN q : ~Ends(p[i], x)
        BY <2>4, <4>1
      <4>3. QED
        BY <1>1, <4>1, <4>2
    <3>2. QED
      BY <2>1, <2>2, <2>4, <3>1 DEF RunningRight
  <2>5. QED
    BY <2>3, <2>4 DEF RunningRight
<1>5. ASSUME NEW e \in Evals
      PROVE  ProgressRight(p, v, e, n2[e])
  <2>1. ProgressRight(q, v, e, n[e])
    BY DEF DashRight
  <2>2. /\ Starts(ev, e) => n2[e] = 0
        /\ Tasked(ev, e) => n2[e] = n[e] + 1
        /\ ~Starts(ev, e) /\ ~Tasked(ev, e) => n2[e] = n[e]
    BY DEF Tells
  <2>3. \A i : Cardinality(Later(q, e, i)) \in Nat
    BY LaterFinite
  <2>4. ASSUME NEW i \in DOMAIN p, Starts(p[i], e),
               \A j \in DOMAIN p : j > i => ~Renews(p[j], e)
        PROVE  n2[e] = Cardinality(Later(p, e, i))
    <3>1. CASE i = Len(q) + 1
      <4>1. Later(p, e, i) = {}
        BY <1>1, <3>1 DEF Later
      <4>2. QED
        BY <1>1, <2>2, <2>4, <3>1, <4>1, FS_EmptySet
    <3>2. CASE i # Len(q) + 1
      <4>1. i \in DOMAIN q /\ p[i] = q[i] /\ ~Renews(ev, e) /\ i \in 0..Len(q)
        BY <1>1, <2>4, <3>2
      <4>2. \A j \in DOMAIN q : j > i => ~Renews(q[j], e)
        BY <1>1, <2>4
      <4>3. n[e] = Cardinality(Later(q, e, i))
        BY <2>1, <2>4, <4>1, <4>2 DEF ProgressRight
      <4>4. QED
        BY <1>2, <2>2, <2>3, <4>1, <4>3 DEF Renews
    <3>3. QED
      BY <3>1, <3>2
  <2>5. ASSUME e \in v.running, \A i \in DOMAIN p : ~Renews(p[i], e)
        PROVE  n2[e] = v.done[e] + Cardinality(Later(p, e, 0))
    <3>1. ~Renews(ev, e) /\ (\A i \in DOMAIN q : ~Renews(q[i], e)) /\ 0 \in 0..Len(q)
      <4>1. Len(q) + 1 \in DOMAIN p /\ 0 \in 0..Len(q)
        BY <1>1
      <4>2. ~Renews(ev, e)
        BY <1>1, <2>5, <4>1
      <4>3. \A i \in DOMAIN q : i \in DOMAIN p /\ p[i] = q[i]
        BY <1>1
      <4>4. \A i \in DOMAIN q : ~Renews(q[i], e)
        BY <2>5, <4>3
      <4>5. QED
        BY <4>1, <4>2, <4>4
    <3>2. n[e] = v.done[e] + Cardinality(Later(q, e, 0)) /\ v.done[e] \in Nat
      BY <2>1, <2>5, <3>1 DEF ProgressRight, ViewState
    <3>3. ~Starts(ev, e)
      BY <3>1 DEF Renews
    <3>4. CASE Tasked(ev, e)
      <4>1. Cardinality(Later(p, e, 0)) = Cardinality(Later(q, e, 0)) + 1
        BY <1>2, <3>1, <3>4
      <4>2. n2[e] = n[e] + 1 /\ Cardinality(Later(q, e, 0)) \in Nat
        BY <2>2, <2>3, <3>4
      <4>3. PICK k \in Nat : k = Cardinality(Later(q, e, 0))
        BY <4>2
      <4>4. PICK m \in Nat : m = v.done[e]
        BY <3>2
      <4>5. n2[e] = (m + k) + 1 /\ Cardinality(Later(p, e, 0)) = k + 1
        BY <3>2, <4>1, <4>2, <4>3, <4>4
      <4>6. n2[e] = m + (k + 1)
        BY <4>5
      <4>7. QED
        BY <4>4, <4>5, <4>6
    <3>5. CASE ~Tasked(ev, e)
      BY <1>2, <2>2, <3>1, <3>2, <3>3, <3>5
    <3>6. QED
      BY <3>4, <3>5
  <2>6. QED
    BY <2>4, <2>5 DEF ProgressRight
<1>6. QED
  BY <1>3, <1>4, <1>5 DEF DashRight, p

LEMMA ToldLess ==
    ASSUME NEW q \in Seq(LiveEvent), q # <<>>, NEW v \in ViewState, NEW h,
           HandledRight(v, q[1], h), NEW listed, NEW flying, NEW n \in [Evals -> Nat],
           DashRight(q, v, listed, flying, n)
    PROVE  DashRight(Tail(q), h, listed, flying, n)
<1> DEFINE p == Tail(q)
<1>1. /\ Len(q) \in Nat \ {0} /\ DOMAIN q = 1..Len(q) /\ DOMAIN p = 1..(Len(q) - 1)
      /\ \A j \in 1..(Len(q) - 1) : p[j] = q[j + 1]
  BY Shorter
<1>2. \A e, i : i \in Nat => Cardinality(Later(p, e, i)) = Cardinality(Later(q, e, i + 1))
  BY LaterTail
<1> HIDE DEF p
<1>3. \A j \in DOMAIN q : j > 1 => j - 1 \in DOMAIN p /\ p[j - 1] = q[j]
  <2>1. SUFFICES ASSUME NEW j \in DOMAIN q, j > 1
                 PROVE  j - 1 \in DOMAIN p /\ p[j - 1] = q[j]
    OBVIOUS
  <2>2. j - 1 \in 1..(Len(q) - 1) /\ (j - 1) + 1 = j
    BY <1>1, <2>1
  <2>3. p[j - 1] = q[(j - 1) + 1]
    BY <1>1, <2>2
  <2>4. QED
    BY <1>1, <2>2, <2>3
<1>4. ASSUME NEW x \in Live!Jobs
      PROVE  ListedRight(p, h, x, listed)
  <2>1. ListedRight(q, v, x, listed)
    BY DEF DashRight
  <2>2. /\ Touches(q[1], x) => (x \in h.complete <=> Lists(q[1], x))
        /\ ~Touches(q[1], x) => (x \in h.complete <=> x \in v.complete)
    BY DEF HandledRight
  <2>3. ASSUME NEW i \in DOMAIN p, Touches(p[i], x),
               \A j \in DOMAIN p : j > i => ~Touches(p[j], x)
        PROVE  Lists(p[i], x) <=> x \in listed
    <3>1. i + 1 \in DOMAIN q /\ q[i + 1] = p[i]
      BY <1>1
    <3>2. \A j \in DOMAIN q : j > i + 1 => ~Touches(q[j], x)
      <4>1. SUFFICES ASSUME NEW j \in DOMAIN q, j > i + 1
                     PROVE  ~Touches(q[j], x)
        OBVIOUS
      <4>2. j - 1 \in DOMAIN p /\ p[j - 1] = q[j] /\ j - 1 > i
        BY <1>1, <1>3, <4>1
      <4>3. QED
        BY <2>3, <4>2
    <3>3. QED
      BY <2>1, <2>3, <3>1, <3>2 DEF ListedRight
  <2>4. ASSUME \A i \in DOMAIN p : ~Touches(p[i], x)
        PROVE  x \in h.complete <=> x \in listed
    <3>1. \A j \in DOMAIN q : j > 1 => ~Touches(q[j], x)
      BY <1>3, <2>4
    <3>2. CASE Touches(q[1], x)
      BY <1>1, <2>1, <2>2, <3>1, <3>2 DEF ListedRight
    <3>3. CASE ~Touches(q[1], x)
      <4>1. \A j \in DOMAIN q : ~Touches(q[j], x)
        BY <1>1, <3>1, <3>3
      <4>2. QED
        BY <2>1, <2>2, <3>3, <4>1 DEF ListedRight
    <3>4. QED
      BY <3>2, <3>3
  <2>5. QED
    BY <2>3, <2>4 DEF ListedRight
<1>5. ASSUME NEW x \in Live!Jobs
      PROVE  RunningRight(p, h, x, flying)
  <2>1. RunningRight(q, v, x, flying)
    BY DEF DashRight
  <2>2. x \in h.running => Starts(q[1], x) \/ (x \in v.running /\ ~Ends(q[1], x))
    BY DEF HandledRight
  <2>3. ASSUME NEW i \in DOMAIN p, Starts(p[i], x),
               \A j \in DOMAIN p : j > i => ~Ends(p[j], x)
        PROVE  x \in flying
    <3>1. i + 1 \in DOMAIN q /\ q[i + 1] = p[i]
      BY <1>1
    <3>2. \A j \in DOMAIN q : j > i + 1 => ~Ends(q[j], x)
      <4>1. SUFFICES ASSUME NEW j \in DOMAIN q, j > i + 1
                     PROVE  ~Ends(q[j], x)
        OBVIOUS
      <4>2. j - 1 \in DOMAIN p /\ p[j - 1] = q[j] /\ j - 1 > i
        BY <1>1, <1>3, <4>1
      <4>3. QED
        BY <2>3, <4>2
    <3>3. QED
      BY <2>1, <2>3, <3>1, <3>2 DEF RunningRight
  <2>4. ASSUME x \in h.running, \A i \in DOMAIN p : ~Ends(p[i], x)
        PROVE  x \in flying
    <3>1. \A j \in DOMAIN q : j > 1 => ~Ends(q[j], x)
      BY <1>3, <2>4
    <3>2. CASE Starts(q[1], x)
      BY <1>1, <2>1, <3>1, <3>2 DEF RunningRight
    <3>3. CASE x \in v.running /\ ~Ends(q[1], x)
      <4>1. \A j \in DOMAIN q : ~Ends(q[j], x)
        BY <1>1, <3>1, <3>3
      <4>2. QED
        BY <2>1, <3>3, <4>1 DEF RunningRight
    <3>4. QED
      BY <2>2, <2>4, <3>2, <3>3
  <2>5. QED
    BY <2>3, <2>4 DEF RunningRight
<1>6. ASSUME NEW e \in Evals
      PROVE  ProgressRight(p, h, e, n[e])
  <2>1. ProgressRight(q, v, e, n[e]) /\ e \in Live!Jobs
    BY JobSets DEF DashRight
  <2>2. /\ Starts(q[1], e) => h.done[e] = 0
        /\ ~Starts(q[1], e) /\ ~Tasked(q[1], e) /\ e \in h.running => h.done[e] = v.done[e]
        /\ Tasked(q[1], e) /\ e \in h.running => h.done[e] = v.done[e] + 1
        /\ e \in h.running => Starts(q[1], e) \/ (e \in v.running /\ ~Ends(q[1], e))
    BY <2>1 DEF HandledRight
  <2>3. ASSUME NEW i \in DOMAIN p, Starts(p[i], e),
               \A j \in DOMAIN p : j > i => ~Renews(p[j], e)
        PROVE  n[e] = Cardinality(Later(p, e, i))
    <3>1. i + 1 \in DOMAIN q /\ q[i + 1] = p[i] /\ i \in Nat
      BY <1>1
    <3>2. \A j \in DOMAIN q : j > i + 1 => ~Renews(q[j], e)
      <4>1. SUFFICES ASSUME NEW j \in DOMAIN q, j > i + 1
                     PROVE  ~Renews(q[j], e)
        OBVIOUS
      <4>2. j - 1 \in DOMAIN p /\ p[j - 1] = q[j] /\ j - 1 > i
        BY <1>1, <1>3, <4>1
      <4>3. QED
        BY <2>3, <4>2
    <3>3. n[e] = Cardinality(Later(q, e, i + 1))
      BY <2>1, <2>3, <3>1, <3>2 DEF ProgressRight
    <3>4. QED
      BY <1>2, <3>1, <3>3
  <2>4. ASSUME e \in h.running, \A i \in DOMAIN p : ~Renews(p[i], e)
        PROVE  n[e] = h.done[e] + Cardinality(Later(p, e, 0))
    <3>1. \A j \in DOMAIN q : j > 1 => ~Renews(q[j], e)
      BY <1>3, <2>4
    <3>2. /\ Cardinality(Later(p, e, 0)) = Cardinality(Later(q, e, 1))
          /\ Cardinality(Later(q, e, 1)) \in Nat
      BY <1>2, LaterFinite
    <3>3. CASE Starts(q[1], e)
      <4>1. n[e] = Cardinality(Later(q, e, 1))
        BY <1>1, <2>1, <3>1, <3>3 DEF ProgressRight
      <4>2. QED
        BY <2>2, <3>2, <3>3, <4>1
    <3>4. CASE ~Starts(q[1], e) /\ e \in v.running /\ ~Ends(q[1], e)
      <4>1. \A j \in DOMAIN q : ~Renews(q[j], e)
        BY <1>1, <3>1, <3>4 DEF Renews
      <4>2. n[e] = v.done[e] + Cardinality(Later(q, e, 0)) /\ v.done[e] \in Nat
        BY <2>1, <3>4, <4>1 DEF ProgressRight, ViewState
      <4>3. /\ Tasked(q[1], e) => Cardinality(Later(q, e, 0)) = Cardinality(Later(q, e, 1)) + 1
            /\ ~Tasked(q[1], e) => Later(q, e, 0) = Later(q, e, 1)
        BY LaterFirst
      <4>4. CASE Tasked(q[1], e)
        <5>1. h.done[e] = v.done[e] + 1
          BY <2>2, <2>4, <4>4
        <5>2. Cardinality(Later(q, e, 0)) = Cardinality(Later(q, e, 1)) + 1
          BY <4>3, <4>4
        <5>3. PICK k \in Nat : k = Cardinality(Later(q, e, 1))
          BY <3>2
        <5>4. PICK d \in Nat : d = v.done[e]
          BY <4>2
        <5>a. d + (k + 1) = (d + 1) + k
          OBVIOUS
        <5>b. h.done[e] = d + 1 /\ n[e] = d + (k + 1)
          BY <4>2, <5>1, <5>2, <5>3, <5>4
        <5>5. n[e] = h.done[e] + k
          BY <5>a, <5>b
        <5>6. QED
          BY <3>2, <5>3, <5>5
      <4>5. CASE ~Tasked(q[1], e)
        BY <2>2, <2>4, <3>2, <3>4, <4>2, <4>3, <4>5
      <4>6. QED
        BY <4>4, <4>5
    <3>5. QED
      BY <2>2, <2>4, <3>3, <3>4
  <2>5. QED
    BY <2>3, <2>4 DEF ProgressRight
<1>7. QED
  BY <1>4, <1>5, <1>6 DEF DashRight, p

\* A snapshot at the end makes up for all that came before it.
LEMMA ToldAnew ==
    ASSUME NEW q \in Seq(LiveEvent), q # <<>>, NEW v, NEW listed, NEW flying, NEW n,
           q[Len(q)].kind = "snapshot", q[Len(q)].records = listed
    PROVE  DashRight(q, v, listed, flying, n)
<1>1. Len(q) \in Nat \ {0} /\ DOMAIN q = 1..Len(q)
  BY Shorter
<1>2. /\ \A x : Touches(q[Len(q)], x) /\ Ends(q[Len(q)], x) /\ Renews(q[Len(q)], x)
      /\ \A x : Lists(q[Len(q)], x) <=> x \in listed
      /\ \A x : ~Starts(q[Len(q)], x)
  BY DEF Touches, Ends, Renews, Lists, Starts, Clears
<1>3. \A i \in DOMAIN q : i = Len(q) \/ Len(q) > i
  BY <1>1
<1>4. \A x : ListedRight(q, v, x, listed)
  BY <1>1, <1>2, <1>3 DEF ListedRight
<1>5. \A x : RunningRight(q, v, x, flying)
  BY <1>1, <1>2, <1>3 DEF RunningRight
<1>6. \A e : ProgressRight(q, v, e, n[e])
  BY <1>1, <1>2, <1>3 DEF ProgressRight
<1>7. QED
  BY <1>4, <1>5, <1>6 DEF DashRight

(* The invariant of the server and its dashboards.                         *)

StreamState == [open : BOOLEAN, queue : Seq(LiveEvent), lastId : Nat]

LiveTypes ==
    /\ nextSeq \in Nat /\ serving \in BOOLEAN
    /\ EventsRight(buffer)
    /\ memory \subseteq Live!Jobs
    /\ disk \in [runs : Seq(Live!Jobs), evals : Seq(Live!Jobs)]
    /\ stream \in [Dashboards -> StreamState]
    /\ \A d \in Dashboards : EventsRight(stream[d].queue)
    /\ view \in [Dashboards -> ViewState]
    /\ phase \in [Live!Jobs \cup Sessions -> {"idle", "running", "ended"}]
    /\ tasks \in [Evals -> Nat]

\* Tasks are reported of what was begun, and nobody is connected to a server that is down.
OrderlyInv ==
    /\ \A e \in Evals : phase[e] = "idle" => tasks[e] = 0
    /\ ~serving => \A d \in Dashboards : ~stream[d].open

\* Who listens, and was told of all, will show what the server holds.
AgreeInv ==
    \A d \in Dashboards :
        stream[d].open /\ d \notin missed
          => DashRight(stream[d].queue, view[d], memory, inFlight, tasks)

LiveInv == LiveTypes /\ OrderlyInv /\ AgreeInv

LEMMA AgreesFrom == LiveInv => DashboardsAgree
<1>1. SUFFICES ASSUME LiveInv, NEW d \in Dashboards, Live!Settled(d)
               PROVE  /\ view[d].complete = memory
                      /\ view[d].running \subseteq inFlight
                      /\ \A e \in view[d].running \cap Evals : view[d].done[e] = tasks[e]
  BY DEF DashboardsAgree, Live!DashboardsAgree, Live!Converged, Live!RunningIsInFlight,
         Live!ProgressIsExact
<1>2. DashRight(<<>>, view[d], memory, inFlight, tasks)
  BY <1>1 DEF LiveInv, AgreeInv, Live!Settled
<1>3. view[d] \in ViewState /\ memory \subseteq Live!Jobs
  BY <1>1 DEF LiveInv, LiveTypes
<1>4. view[d].complete \subseteq Live!Jobs /\ view[d].running \subseteq Live!Jobs
      /\ view[d].done \in [Evals -> Nat]
  BY <1>3 DEF ViewState
<1>5. view[d].complete = memory
  <2>1. \A x \in Live!Jobs : x \in view[d].complete <=> x \in memory
    BY <1>2 DEF DashRight, ListedRight
  <2>2. QED
    BY <1>3, <1>4, <2>1
<1>6. view[d].running \subseteq inFlight
  <2>1. \A x \in Live!Jobs : x \in view[d].running => x \in inFlight
    BY <1>2 DEF DashRight, RunningRight
  <2>2. QED
    BY <1>4, <2>1
<1>7. ASSUME NEW e \in view[d].running \cap Evals
      PROVE  view[d].done[e] = tasks[e]
  <2>1. ProgressRight(<<>>, view[d], e, tasks[e])
    BY <1>2 DEF DashRight
  <2>2. Later(<<>>, e, 0) = {}
    BY DEF Later
  <2>3. tasks[e] = view[d].done[e] + Cardinality(Later(<<>>, e, 0))
    BY <2>1 DEF ProgressRight
  <2>4. Cardinality(Later(<<>>, e, 0)) = 0
    BY <2>2, FS_EmptySet
  <2>5. QED
    BY <1>4, <2>3, <2>4
<1>8. QED
  BY <1>5, <1>6, <1>7

\* The events that the server makes.
LEMMA EventIs ==
    ASSUME LiveTypes, NEW kind, NEW x, NEW listed
    PROVE  /\ Live!Event(kind, x, listed).kind = kind /\ Live!Event(kind, x, listed).id = x
           /\ Live!Event(kind, x, listed).records = listed
           /\ Live!Event(kind, x, listed).seq \in Nat
           /\ /\ kind \in EventKinds /\ listed \subseteq Live!Jobs
              /\ x \in Live!Jobs \cup Sessions \cup {NoSession}
              /\ kind \in {"started", "complete"} => x \in Live!Jobs \cup Sessions
              /\ kind = "failed" => x \in Live!Jobs
              /\ kind = "task" => x \in Evals
              => EventRight(Live!Event(kind, x, listed))
<1> DEFINE ev == Live!Event(kind, x, listed)
<1>1. ev = [seq |-> nextSeq, kind |-> kind, id |-> x, records |-> listed]
  BY DEF Live!Event
<1> HIDE DEF ev
<1>2. ev.kind = kind /\ ev.id = x /\ ev.records = listed /\ ev.seq \in Nat
  BY <1>1 DEF LiveTypes
<1>3. ASSUME kind \in EventKinds, listed \subseteq Live!Jobs,
             x \in Live!Jobs \cup Sessions \cup {NoSession}
      PROVE  ev \in LiveEvent
  BY <1>1, <1>3 DEF LiveTypes, LiveEvent
<1>4. QED
  BY <1>2, <1>3 DEF ev, EventRight

\* Queues of events that are right.
LEMMA RightLonger ==
    ASSUME NEW q, EventsRight(q), NEW ev, EventRight(ev)
    PROVE  EventsRight(Append(q, ev))
<1>1. q \in Seq(LiveEvent) /\ ev \in LiveEvent
  BY DEF EventsRight, EventRight
<1>2. QED
  BY <1>1, Longer DEF EventsRight

LEMMA RightShorter ==
    ASSUME NEW q, EventsRight(q), q # <<>>
    PROVE  EventsRight(Tail(q)) /\ EventRight(q[1]) /\ Head(q) = q[1] /\ q[1].seq \in Nat
<1>1. q \in Seq(LiveEvent)
  BY DEF EventsRight
<1>2. q[1].seq \in Nat
  BY <1>1, Shorter DEF LiveEvent
<1>3. QED
  BY <1>1, <1>2, Shorter DEF EventsRight

\* What a stamp leaves in the buffer.
LEMMA Stamped ==
    ASSUME LiveTypes, NEW ev, EventRight(ev), Live!Stamp(ev)
    PROVE  /\ EventsRight(buffer') /\ nextSeq' \in Nat /\ serving /\ UNCHANGED serving
           /\ buffer' # <<>> => buffer'[Len(buffer')] = ev
<1> DEFINE longer == Append(buffer, ev)
<1>1. EventsRight(longer)
  BY RightLonger DEF LiveTypes
<1>2. buffer \in Seq(LiveEvent) /\ ev \in LiveEvent
  BY DEF LiveTypes, EventsRight, EventRight
<1>3. longer \in Seq(LiveEvent) /\ Len(longer) = Len(buffer) + 1 /\ Len(buffer) \in Nat
      /\ longer[Len(longer)] = ev
  BY <1>2, Longer
<1>4. /\ serving /\ UNCHANGED serving /\ nextSeq' \in Nat
      /\ buffer' = longer \/ buffer' = Tail(longer)
  BY DEF Live!Stamp, LiveTypes
<1> HIDE DEF longer
<1>5. CASE buffer' = longer
  BY <1>1, <1>3, <1>4, <1>5
<1>6. CASE buffer' = Tail(longer)
  <2>1. longer # <<>>
    BY <1>3
  <2>2. EventsRight(Tail(longer))
    BY <1>1, <2>1, RightShorter
  <2>3. Tail(longer) # <<>> => Tail(longer)[Len(Tail(longer))] = ev
    <3>1. /\ Tail(longer) \in Seq(LiveEvent) /\ Len(Tail(longer)) = Len(longer) - 1
          /\ \A i \in 1..(Len(longer) - 1) : Tail(longer)[i] = longer[i + 1]
      BY <1>3, <2>1, Shorter
    <3>2. SUFFICES ASSUME Tail(longer) # <<>>
                   PROVE  Tail(longer)[Len(Tail(longer))] = ev
      OBVIOUS
    <3>3. Len(longer) - 1 \in 1..(Len(longer) - 1) /\ (Len(longer) - 1) + 1 = Len(longer)
      BY <1>3, <3>1, <3>2
    <3>4. QED
      BY <1>3, <3>1, <3>3
  <2>4. QED
    BY <1>4, <1>6, <2>2, <2>3
<1>7. QED
  BY <1>4, <1>5, <1>6

\* What a broadcast leaves in a connection.
LEMMA Sent ==
    ASSUME LiveTypes, NEW ev, EventRight(ev), Live!Broadcast(ev)
    PROVE  /\ stream' \in [Dashboards -> StreamState]
           /\ \A d \in Dashboards : /\ EventsRight(stream'[d].queue)
                                    /\ stream'[d].open = stream[d].open
                                    /\ stream[d].open => stream'[d].queue = Append(stream[d].queue, ev)
<1>1. ASSUME NEW d \in Dashboards
      PROVE  /\ stream'[d] \in StreamState
             /\ EventsRight(stream'[d].queue)
             /\ stream'[d].open = stream[d].open
             /\ stream[d].open => stream'[d].queue = Append(stream[d].queue, ev)
  <2>1. stream[d] \in StreamState /\ EventsRight(stream[d].queue)
    BY DEF LiveTypes
  <2>2. EventsRight(Append(stream[d].queue, ev))
    BY <2>1, RightLonger
  <2> DEFINE q == Append(stream[d].queue, ev)
  <2>3. q \in Seq(LiveEvent) /\ EventsRight(q)
    BY <2>2 DEF EventsRight
  <2>4. CASE stream[d].open
    <3>1. stream'[d] = [stream[d] EXCEPT !.queue = q]
      BY <2>4 DEF Live!Broadcast
    <3> HIDE DEF q
    <3>2. stream'[d] \in StreamState /\ stream'[d].queue = q /\ stream'[d].open = stream[d].open
      BY <2>1, <2>3, <3>1 DEF StreamState
    <3>3. QED
      BY <2>3, <3>2 DEF q
  <2>5. CASE ~stream[d].open
    <3>1. stream'[d] = stream[d]
      BY <2>5 DEF Live!Broadcast
    <3>2. QED
      BY <2>1, <2>5, <3>1
  <2>6. QED
    BY <2>4, <2>5
<1>2. stream' = [d \in Dashboards |-> stream'[d]]
  BY DEF Live!Broadcast
<1>3. stream' \in [Dashboards -> StreamState]
  BY <1>1, <1>2
<1>4. QED
  BY <1>1, <1>3

\* The rest of the state keeps its types, and its order.
RestKept ==
    /\ memory' \subseteq Live!Jobs
    /\ disk' \in [runs : Seq(Live!Jobs), evals : Seq(Live!Jobs)]
    /\ phase' \in [Live!Jobs \cup Sessions -> {"idle", "running", "ended"}]
    /\ tasks' \in [Evals -> Nat]
    /\ \A e \in Evals : phase'[e] = "idle" => tasks'[e] = 0

\* An event is stamped, and whoever listens is told.
LEMMA TellStep ==
    ASSUME LiveInv, NEW ev, EventRight(ev), Live!Stamp(ev), Live!Broadcast(ev),
           Tells(ev, memory, memory', inFlight, inFlight', tasks, tasks'),
           RestKept, UNCHANGED <<view, missed>>
    PROVE  LiveInv'
<1>1. LiveTypes /\ OrderlyInv /\ AgreeInv
  BY DEF LiveInv
<1>2. /\ EventsRight(buffer') /\ nextSeq' \in Nat /\ serving /\ UNCHANGED serving
  BY <1>1, Stamped
<1>3. /\ stream' \in [Dashboards -> StreamState]
      /\ \A d \in Dashboards : /\ EventsRight(stream'[d].queue)
                               /\ stream'[d].open = stream[d].open
                               /\ stream[d].open => stream'[d].queue = Append(stream[d].queue, ev)
  BY <1>1, Sent
<1>4. LiveTypes'
  BY <1>1, <1>2, <1>3 DEF LiveTypes, RestKept, Live!Jobs
<1>5. OrderlyInv'
  BY <1>2 DEF OrderlyInv, RestKept
<1>6. AgreeInv'
  <2>1. SUFFICES ASSUME NEW d \in Dashboards, stream'[d].open, d \notin missed'
                 PROVE  DashRight(stream'[d].queue, view'[d], memory', inFlight', tasks')
    BY DEF AgreeInv
  <2>2. DashRight(stream[d].queue, view[d], memory, inFlight, tasks)
    BY <1>1, <1>3, <2>1 DEF AgreeInv
  <2>3. stream[d].queue \in Seq(LiveEvent) /\ ev \in LiveEvent /\ view[d] \in ViewState
        /\ tasks \in [Evals -> Nat] /\ tasks' \in [Evals -> Nat]
    BY <1>1 DEF LiveTypes, EventsRight, EventRight, RestKept
  <2>4. DashRight(Append(stream[d].queue, ev), view[d], memory', inFlight', tasks')
    BY <2>2, <2>3, ToldMore
  <2>5. QED
    BY <1>3, <2>1, <2>4
<1>7. QED
  BY <1>4, <1>5, <1>6 DEF LiveInv

\* An event is stamped, and its write fails: who listens is not told.
LEMMA FailStep ==
    ASSUME LiveInv, NEW ev, EventRight(ev), Live!Stamp(ev), Live!WriteFails,
           RestKept, UNCHANGED view
    PROVE  LiveInv'
<1>1. LiveTypes /\ OrderlyInv
  BY DEF LiveInv
<1>2. /\ EventsRight(buffer') /\ nextSeq' \in Nat /\ serving /\ UNCHANGED serving
  BY <1>1, Stamped
<1>3. UNCHANGED stream /\ \A d \in Dashboards : stream[d].open => d \in missed'
  BY DEF Live!WriteFails
<1>4. LiveTypes'
  BY <1>1, <1>2, <1>3 DEF LiveTypes, RestKept, Live!Jobs
<1>5. OrderlyInv'
  BY <1>2 DEF OrderlyInv, RestKept
<1>6. AgreeInv'
  BY <1>3 DEF AgreeInv
<1>7. QED
  BY <1>4, <1>5, <1>6 DEF LiveInv

\* A post that is lost.
LEMMA LostStep ==
    ASSUME LiveInv, Live!Lost, RestKept, UNCHANGED view
    PROVE  LiveInv'
<1>1. UNCHANGED <<serving, nextSeq, buffer, memory, disk, stream, inFlight, tasks, missed>>
  BY DEF Live!Lost, Live!server
<1>2. LiveTypes'
  BY <1>1 DEF LiveInv, LiveTypes, RestKept, Live!Jobs
<1>3. OrderlyInv' /\ AgreeInv'
  BY <1>1 DEF LiveInv, OrderlyInv, RestKept, AgreeInv
<1>4. QED
  BY <1>2, <1>3 DEF LiveInv

LEMMA StartedLive ==
    ASSUME LiveInv, NEW x \in Live!Jobs \cup Sessions, Live!PostStarted(x)
    PROVE  LiveInv'
<1> DEFINE ev == Live!Event("started", x, {})
<1>1. LiveTypes /\ OrderlyInv
  BY DEF LiveInv
<1>2. EventRight(ev) /\ ev.kind = "started" /\ ev.id = x
  BY <1>1, EventIs DEF EventKinds
<1>3. /\ phase[x] = "idle" /\ phase' = [phase EXCEPT ![x] = "running"]
      /\ UNCHANGED <<view, memory, disk, tasks, missed>>
  BY DEF Live!PostStarted, Live!Lost, Live!server
<1>4. RestKept
  BY <1>1, <1>3 DEF RestKept, LiveTypes, OrderlyInv
<1>5. CASE Live!Stamp(ev) /\ Live!Broadcast(ev) /\ inFlight' = inFlight \cup {x}
  <2>1. Tells(ev, memory, memory', inFlight, inFlight', tasks, tasks')
    <3>1. \A e \in Evals : e = x => tasks[e] = 0
      BY <1>1, <1>3 DEF OrderlyInv
    <3> HIDE DEF ev
    <3>2. QED
      BY <1>2, <1>3, <1>5, <3>1 DEF Tells, Touches, Lists, Starts, Ends, Tasked, Clears
  <2> HIDE DEF ev
  <2>2. QED
    BY <1>2, <1>3, <1>4, <1>5, <2>1, TellStep
<1>6. CASE Live!Lost
  BY <1>3, <1>4, <1>6, LostStep
<1>7. QED
  BY <1>5, <1>6 DEF Live!PostStarted

LEMMA TaskLive ==
    ASSUME LiveInv, NEW e \in Evals, Live!PostTask(e)
    PROVE  LiveInv'
<1> DEFINE ev == Live!Event("task", e, {})
<1>1. LiveTypes /\ OrderlyInv /\ e \in Live!Jobs
  BY JobSets DEF LiveInv
<1>2. EventRight(ev) /\ ev.kind = "task" /\ ev.id = e
  BY <1>1, EventIs DEF EventKinds
<1>3. /\ phase[e] = "running" /\ tasks' = [tasks EXCEPT ![e] = @ + 1]
      /\ UNCHANGED <<view, memory, disk, phase, inFlight, missed>>
      /\ Live!Stamp(ev) /\ Live!Broadcast(ev)
  BY DEF Live!PostTask, Live!Reports
<1>4. RestKept
  BY <1>1, <1>3 DEF RestKept, LiveTypes, OrderlyInv
<1> HIDE DEF ev
<1>5. Tells(ev, memory, memory', inFlight, inFlight', tasks, tasks')
  BY <1>1, <1>2, <1>3 DEF Tells, Touches, Lists, Starts, Ends, Tasked, Clears, LiveTypes
<1>6. QED
  BY <1>2, <1>3, <1>4, <1>5, TellStep

LEMMA FailedLive ==
    ASSUME LiveInv, NEW x \in Live!Jobs, Live!PostFailed(x)
    PROVE  LiveInv'
<1> DEFINE ev == Live!Event("failed", x, {})
<1>1. LiveTypes /\ OrderlyInv
  BY DEF LiveInv
<1>2. EventRight(ev) /\ ev.kind = "failed" /\ ev.id = x
  BY <1>1, EventIs DEF EventKinds
<1>3. /\ phase' = [phase EXCEPT ![x] = "ended"]
      /\ UNCHANGED <<view, memory, disk, tasks, missed>>
  BY DEF Live!PostFailed, Live!Lost, Live!server
<1>4. RestKept
  BY <1>1, <1>3 DEF RestKept, LiveTypes, OrderlyInv
<1>5. CASE Live!Stamp(ev) /\ Live!Broadcast(ev) /\ inFlight' = inFlight \ {x}
  <2> HIDE DEF ev
  <2>1. Tells(ev, memory, memory', inFlight, inFlight', tasks, tasks')
    BY <1>2, <1>3, <1>5 DEF Tells, Touches, Lists, Starts, Ends, Tasked, Clears
  <2>2. QED
    BY <1>2, <1>3, <1>4, <1>5, <2>1, TellStep
<1>6. CASE Live!Lost
  BY <1>3, <1>4, <1>6, LostStep
<1>7. QED
  BY <1>5, <1>6 DEF Live!PostFailed

LEMMA SessionLive ==
    ASSUME LiveInv, NEW s \in Sessions, Live!PostSessionComplete(s)
    PROVE  LiveInv'
<1> DEFINE ev == Live!Event("complete", s, {})
<1>1. LiveTypes /\ OrderlyInv
  BY DEF LiveInv
<1>2. EventRight(ev) /\ ev.kind = "complete" /\ ev.id = s
  BY <1>1, EventIs DEF EventKinds
<1>3. /\ phase' = [phase EXCEPT ![s] = "ended"]
      /\ UNCHANGED <<view, memory, disk, tasks, missed>>
  BY DEF Live!PostSessionComplete, Live!Lost, Live!server
<1>4. RestKept
  BY <1>1, <1>3 DEF RestKept, LiveTypes, OrderlyInv
<1>5. CASE Live!Stamp(ev) /\ Live!Broadcast(ev) /\ inFlight' = inFlight \ {s}
  <2> HIDE DEF ev
  <2>1. Tells(ev, memory, memory', inFlight, inFlight', tasks, tasks')
    BY <1>2, <1>3, <1>5, JobSets DEF Tells, Touches, Lists, Starts, Ends, Tasked, Clears
  <2>2. QED
    BY <1>2, <1>3, <1>4, <1>5, <2>1, TellStep
<1>6. CASE Live!Lost
  BY <1>3, <1>4, <1>6, LostStep
<1>7. QED
  BY <1>5, <1>6 DEF Live!PostSessionComplete

\* The tables.
LEMMA UpsertedIs ==
    ASSUME NEW t \in Seq(Live!Jobs), NEW x \in Live!Jobs
    PROVE  /\ Live!Upserted(t, x) \in Seq(Live!Jobs)
           /\ Live!ToSet(Live!Upserted(t, x)) = Live!ToSet(t) \cup {x}
<1>1. CASE x \in Live!ToSet(t)
  BY <1>1 DEF Live!Upserted
<1>2. CASE x \notin Live!ToSet(t)
  <2> DEFINE p == Append(t, x)
  <2>1. /\ p \in Seq(Live!Jobs) /\ Len(t) \in Nat
        /\ DOMAIN t = 1..Len(t) /\ DOMAIN p = 1..(Len(t) + 1)
        /\ p[Len(t) + 1] = x /\ \A i \in 1..Len(t) : p[i] = t[i]
    OBVIOUS
  <2>2. Live!Upserted(t, x) = p
    BY <1>2 DEF Live!Upserted
  <2> HIDE DEF p
  <2>3. Live!ToSet(p) = Live!ToSet(t) \cup {x}
    BY <2>1 DEF Live!ToSet
  <2>4. QED
    BY <2>1, <2>2, <2>3
<1>3. QED
  BY <1>1, <1>2

LEMMA LoadedIs ==
    ASSUME NEW t \in Seq(Live!Jobs), Len(t) <= LoadLimit
    PROVE  Live!Loaded(t) = Live!ToSet(t)
<1>1. DOMAIN t = 1..Len(t) /\ Len(t) \in Nat
  OBVIOUS
<1>2. QED
  BY <1>1, JobSets DEF Live!Loaded, Live!ToSet

LEMMA UpsertIs ==
    ASSUME LiveTypes, NEW x \in Live!Jobs
    PROVE  /\ Live!upsert(x) \in [runs : Seq(Live!Jobs), evals : Seq(Live!Jobs)]
           /\ Live!ToSet(Live!upsert(x).runs) \cup Live!ToSet(Live!upsert(x).evals)
                = Live!ToSet(disk.runs) \cup Live!ToSet(disk.evals) \cup {x}
<1> DEFINE longer(t) == Live!Upserted(t, x)
<1>1. disk \in [runs : Seq(Live!Jobs), evals : Seq(Live!Jobs)]
  BY DEF LiveTypes
<1>2. disk.runs \in Seq(Live!Jobs) /\ disk.evals \in Seq(Live!Jobs)
  BY <1>1
<1>3. /\ longer(disk.runs) \in Seq(Live!Jobs) /\ longer(disk.evals) \in Seq(Live!Jobs)
      /\ Live!ToSet(longer(disk.runs)) = Live!ToSet(disk.runs) \cup {x}
      /\ Live!ToSet(longer(disk.evals)) = Live!ToSet(disk.evals) \cup {x}
  BY <1>2, UpsertedIs
<1>4. CASE x \in Runs
  <2>1. Live!upsert(x) = [disk EXCEPT !.runs = longer(disk.runs)]
    BY <1>4 DEF Live!upsert
  <2> HIDE DEF longer
  <2>2. /\ Live!upsert(x) \in [runs : Seq(Live!Jobs), evals : Seq(Live!Jobs)]
        /\ Live!upsert(x).runs = longer(disk.runs) /\ Live!upsert(x).evals = disk.evals
    BY <1>1, <1>3, <2>1
  <2>3. QED
    BY <1>3, <2>2
<1>5. CASE x \notin Runs
  <2>1. Live!upsert(x) = [disk EXCEPT !.evals = longer(disk.evals)]
    BY <1>5 DEF Live!upsert
  <2> HIDE DEF longer
  <2>2. /\ Live!upsert(x) \in [runs : Seq(Live!Jobs), evals : Seq(Live!Jobs)]
        /\ Live!upsert(x).runs = disk.runs /\ Live!upsert(x).evals = longer(disk.evals)
    BY <1>1, <1>3, <2>1
  <2>3. QED
    BY <1>3, <2>2
<1>6. QED
  BY <1>4, <1>5

LEMMA CompleteLive ==
    ASSUME LiveInv, NEW x \in Live!Jobs, Live!PostComplete(x)
    PROVE  LiveInv'
<1> DEFINE ev == Live!Event("complete", x, {})
<1>1. LiveTypes /\ OrderlyInv
  BY DEF LiveInv
<1>2. EventRight(ev) /\ ev.kind = "complete" /\ ev.id = x
  BY <1>1, EventIs DEF EventKinds
<1>3. phase' = [phase EXCEPT ![x] = "ended"] /\ UNCHANGED view
  BY DEF Live!PostComplete
<1>4. /\ phase' \in [Live!Jobs \cup Sessions -> {"idle", "running", "ended"}]
      /\ \A e \in Evals : phase'[e] = "idle" => phase[e] = "idle"
  BY <1>1, <1>3, JobSets DEF LiveTypes
<1>5. Live!upsert(x) \in [runs : Seq(Live!Jobs), evals : Seq(Live!Jobs)]
  BY <1>1, UpsertIs
<1>6. CASE Live!Stamp(ev) /\ Live!Stored(x) /\ inFlight' = inFlight \ {x} /\ UNCHANGED tasks
  <2>1. memory' = memory \cup {x}
    BY <1>6 DEF Live!Stored
  <2>2. CASE disk' = Live!upsert(x) /\ Live!Broadcast(ev) /\ UNCHANGED missed
    <3>1. RestKept
      BY <1>1, <1>4, <1>5, <1>6, <2>1, <2>2 DEF RestKept, LiveTypes, OrderlyInv
    <3> HIDE DEF ev
    <3>2. Tells(ev, memory, memory', inFlight, inFlight', tasks, tasks')
      BY <1>2, <1>6, <2>1 DEF Tells, Touches, Lists, Starts, Ends, Tasked, Clears
    <3>3. QED
      BY <1>2, <1>3, <1>6, <2>2, <3>1, <3>2, TellStep
  <2>3. CASE Live!WriteFails /\ UNCHANGED disk
    <3>1. RestKept
      BY <1>1, <1>4, <1>6, <2>1, <2>3 DEF RestKept, LiveTypes, OrderlyInv
    <3> HIDE DEF ev
    <3>2. QED
      BY <1>2, <1>3, <1>6, <2>3, <3>1, FailStep
  <2>4. QED
    BY <1>6, <2>2, <2>3 DEF Live!Stored
<1>7. CASE Live!Lost
  <2>1. RestKept
    BY <1>1, <1>4, <1>7 DEF RestKept, LiveTypes, OrderlyInv, Live!Lost, Live!server
  <2>2. QED
    BY <1>3, <1>7, <2>1, LostStep
<1>8. QED
  BY <1>6, <1>7 DEF Live!PostComplete

LEMMA ResetLive ==
    ASSUME LiveInv, Live!PostReset
    PROVE  LiveInv'
<1> DEFINE ev == Live!Event("reset", NoSession, {})
<1>1. LiveTypes /\ OrderlyInv
  BY DEF LiveInv
<1>2. EventRight(ev) /\ ev.kind = "reset" /\ ev.id = NoSession
  BY <1>1, EventIs DEF EventKinds
<1>3. /\ Live!Stamp(ev) /\ memory' = {}
      /\ UNCHANGED <<view, phase, inFlight, tasks>>
  BY DEF Live!PostReset
<1>4. ASSUME disk' \in [runs : Seq(Live!Jobs), evals : Seq(Live!Jobs)]
      PROVE  RestKept
  BY <1>1, <1>3, <1>4 DEF RestKept, LiveTypes, OrderlyInv
<1>5. CASE disk' = [runs |-> <<>>, evals |-> <<>>] /\ Live!Broadcast(ev) /\ UNCHANGED missed
  <2>1. RestKept
    BY <1>4, <1>5
  <2> HIDE DEF ev
  <2>2. Tells(ev, memory, memory', inFlight, inFlight', tasks, tasks')
    BY <1>2, <1>3 DEF Tells, Touches, Lists, Starts, Ends, Tasked, Clears
  <2>3. QED
    BY <1>2, <1>3, <1>5, <2>1, <2>2, TellStep
<1>6. CASE Live!WriteFails /\ (UNCHANGED disk \/ disk' = [disk EXCEPT !.runs = <<>>])
  <2>1. disk' \in [runs : Seq(Live!Jobs), evals : Seq(Live!Jobs)]
    <3>1. disk \in [runs : Seq(Live!Jobs), evals : Seq(Live!Jobs)] /\ <<>> \in Seq(Live!Jobs)
      BY <1>1 DEF LiveTypes
    <3> DEFINE none == <<>>
    <3>2. UNCHANGED disk \/ disk' = [disk EXCEPT !.runs = none]
      BY <1>6
    <3>3. none \in Seq(Live!Jobs)
      BY <3>1
    <3> HIDE DEF none
    <3>4. QED
      BY <3>1, <3>2, <3>3
  <2>2. RestKept
    BY <1>4, <2>1
  <2> HIDE DEF ev
  <2>3. QED
    BY <1>2, <1>3, <1>6, <2>2, FailStep
<1>7. QED
  BY <1>5, <1>6 DEF Live!PostReset

\* A snapshot, and what the buffer has after a number: that ends with the snapshot too.
LEMMA GreetingIs ==
    ASSUME NEW ev, EventRight(ev), NEW events, EventsRight(events), NEW last,
           events # <<>> => events[Len(events)] = ev
    PROVE  /\ EventsRight(Live!Greeting(ev, Live!EventsSince(events, last)))
           /\ EventsRight(Live!Greeting(ev, <<>>))
           /\ \A missing \in {<<>>, Live!EventsSince(events, last)} :
                LET q == Live!Greeting(ev, missing) IN q # <<>> /\ q[Len(q)] = ev
<1>1. ev \in LiveEvent /\ events \in Seq(LiveEvent) /\ DOMAIN events = 1..Len(events)
      /\ Len(events) \in Nat /\ \A i \in 1..Len(events) : EventRight(events[i])
  BY DEF EventRight, EventsRight
<1> DEFINE later == {i \in DOMAIN events : events[i].seq > last}
<1>2. PICK k \in Nat : k = Cardinality(later) /\ k <= Len(events)
  <2>1. IsFiniteSet(1..Len(events)) /\ Cardinality(1..Len(events)) = Len(events)
    <3> DEFINE n == Len(events)
    <3>1. n \in Nat
      BY <1>1
    <3> HIDE DEF n
    <3>2. IsFiniteSet(1..n) /\ Cardinality(1..n) = IF 1 > n THEN 0 ELSE n - 1 + 1
      BY <3>1, FS_Interval
    <3>3. Cardinality(1..n) = n
      BY <3>1, <3>2
    <3>4. QED
      BY <3>2, <3>3 DEF n
  <2>2. later \subseteq 1..Len(events)
    BY <1>1
  <2> HIDE DEF later
  <2>3. IsFiniteSet(later) /\ Cardinality(later) <= Len(events)
    BY <2>1, <2>2, FS_Subset
  <2>4. QED
    BY <2>3, FS_CardinalityType
<1> DEFINE missing == Live!EventsSince(events, last)
<1>3. missing = SubSeq(events, Len(events) - k + 1, Len(events))
  <2>1. missing = SubSeq(events, Len(events) - Cardinality(later) + 1, Len(events))
    <3>1. Live!Cardinality(later) = Cardinality(later)
      BY DEF Live!Cardinality, Cardinality
    <3>2. missing = SubSeq(events, Len(events) - Live!Cardinality(later) + 1, Len(events))
      BY DEF Live!EventsSince
    <3> HIDE DEF missing, later
    <3>3. QED
      BY <3>1, <3>2
  <2> HIDE DEF missing, later
  <2>2. QED
    BY <1>2, <2>1
<1>4. /\ missing \in Seq(LiveEvent) /\ Len(missing) = k
      /\ DOMAIN missing = 1..k
      /\ \A i \in 1..k : missing[i] = events[Len(events) - k + i]
  <2> DEFINE n == Len(events)
             m == n - k + 1
  <2>1. n \in Nat /\ k \in Nat /\ k <= n
    BY <1>1, <1>2
  <2>2. missing = SubSeq(events, m, n)
    BY <1>3
  <2>3. \A i \in 1..n : events[i] \in LiveEvent
    BY <1>1 DEF EventRight
  <2> HIDE DEF n, missing, later
  <2>4. m \in Int /\ n \in Int /\ m >= 1 /\ n - m + 1 = k /\ (m <= n <=> k > 0)
    BY <2>1
  <2>5. \A i \in 1..k : m + i - 1 = n - k + i
    BY <2>1
  <2> HIDE DEF m
  <2>6. \A i \in m..n : events[i] \in LiveEvent
    BY <2>3, <2>4
  <2>7. /\ missing \in Seq(LiveEvent) /\ Len(missing) = IF m <= n THEN n - m + 1 ELSE 0
        /\ \A i \in 1..(n - m + 1) : missing[i] = events[m + i - 1]
    BY <2>2, <2>4, <2>6, SubSeqProperties
  <2>8. Len(missing) = k
    BY <2>1, <2>4, <2>7
  <2>9. \A i \in 1..k : missing[i] = events[n - k + i]
    BY <2>4, <2>5, <2>7
  <2>10. QED
    BY <2>7, <2>8, <2>9 DEF n
<1> HIDE DEF missing, later
<1>5. \A i \in 1..k : Len(events) - k + i \in 1..Len(events)
  BY <1>1, <1>2
<1>6. EventsRight(missing)
  BY <1>1, <1>4, <1>5 DEF EventsRight
<1>7. k > 0 => missing[k] = ev
  <2>1. SUFFICES ASSUME k > 0 PROVE missing[k] = ev
    OBVIOUS
  <2>2. k \in 1..k /\ Len(events) - k + k = Len(events) /\ Len(events) > 0
    BY <1>1, <1>2, <2>1
  <2>3. missing[k] = events[Len(events)]
    BY <1>4, <2>2
  <2>4. events # <<>>
    BY <2>2
  <2>5. QED
    BY <2>3, <2>4
<1>8. ASSUME NEW m, EventsRight(m), Len(m) > 0 => m[Len(m)] = ev
      PROVE  EventsRight(Live!Greeting(ev, m))
             /\ Live!Greeting(ev, m) # <<>>
             /\ Live!Greeting(ev, m)[Len(Live!Greeting(ev, m))] = ev
  <2> DEFINE q == <<ev>> \o m
  <2>1. m \in Seq(LiveEvent) /\ Len(m) \in Nat /\ DOMAIN m = 1..Len(m)
        /\ \A i \in 1..Len(m) : EventRight(m[i])
    BY <1>8 DEF EventsRight
  <2>2. /\ q \in Seq(LiveEvent) /\ Len(q) = Len(m) + 1 /\ DOMAIN q = 1..(Len(m) + 1)
        /\ q[1] = ev /\ \A i \in 1..Len(m) : q[i + 1] = m[i]
    BY <1>1, <2>1
  <2> HIDE DEF q
  <2>3. \A i \in 1..(Len(m) + 1) : i = 1 \/ (i - 1 \in 1..Len(m) /\ (i - 1) + 1 = i)
    BY <2>1
  <2>4. \A i \in DOMAIN q : EventRight(q[i])
    BY <2>1, <2>2, <2>3
  <2>5. q # <<>> /\ q[Len(q)] = ev
    <3>1. CASE Len(m) = 0
      <4>1. Len(q) = 1
        BY <2>2, <3>1
      <4>2. q # <<>>
        BY <4>1
      <4>3. QED
        BY <2>2, <4>1, <4>2
    <3>2. CASE Len(m) > 0
      <4>1. Len(m) \in 1..Len(m)
        BY <2>1, <3>2
      <4>2. QED
        BY <1>8, <2>1, <2>2, <3>2, <4>1
    <3>3. QED
      BY <2>1, <3>1, <3>2
  <2>6. QED
    BY <2>2, <2>4, <2>5 DEF q, Live!Greeting, EventsRight
<1>9. EventsRight(<<>>) /\ ~(Len(<<>>) > 0)
  BY DEF EventsRight
<1>10. QED
  BY <1>4, <1>6, <1>7, <1>8, <1>9 DEF missing

LEMMA ConnectLive ==
    ASSUME LiveInv, NEW d \in Dashboards, Live!Connect(d)
    PROVE  LiveInv'
<1> DEFINE ev == Live!Event("snapshot", NoSession, memory)
<1>1. LiveTypes /\ OrderlyInv /\ AgreeInv
  BY DEF LiveInv
<1>2. EventRight(ev) /\ ev.kind = "snapshot" /\ ev.records = memory
  BY <1>1, EventIs DEF EventKinds, LiveTypes
<1>3. PICK missing \in {<<>>, Live!EventsSince(buffer', stream[d].lastId)} :
         stream' = [stream EXCEPT ![d] = [@ EXCEPT !.open = TRUE,
                                                   !.queue = Live!Greeting(ev, missing)]]
  BY DEF Live!Connect
<1>4. /\ Live!Stamp(ev) /\ missed' = missed \ {d}
      /\ UNCHANGED <<memory, disk, view, phase, inFlight, tasks>>
  BY DEF Live!Connect
<1> HIDE DEF ev
<1>5. /\ EventsRight(buffer') /\ nextSeq' \in Nat /\ serving /\ UNCHANGED serving
      /\ buffer' # <<>> => buffer'[Len(buffer')] = ev
  BY <1>1, <1>2, <1>4, Stamped
<1> DEFINE q == Live!Greeting(ev, missing)
<1>6. EventsRight(q) /\ q # <<>> /\ q[Len(q)] = ev
  BY <1>2, <1>5, GreetingIs
<1> DEFINE s == [stream[d] EXCEPT !.open = TRUE, !.queue = q]
<1>7. stream' = [stream EXCEPT ![d] = s]
  BY <1>3
<1> HIDE DEF q
<1>8. s \in StreamState /\ s.queue = q
  <2>1. q \in Seq(LiveEvent) /\ stream[d] \in StreamState
    BY <1>1, <1>6 DEF EventsRight, LiveTypes
  <2>2. QED
    BY <2>1 DEF StreamState
<1> HIDE DEF s
<1>9. /\ stream' \in [Dashboards -> StreamState] /\ stream'[d] = s
      /\ \A c \in Dashboards : c # d => stream'[c] = stream[c]
  BY <1>1, <1>7, <1>8 DEF LiveTypes
<1>10. LiveTypes'
  <2>1. \A c \in Dashboards : EventsRight(stream'[c].queue)
    BY <1>1, <1>6, <1>8, <1>9 DEF LiveTypes
  <2>2. QED
    BY <1>1, <1>4, <1>5, <1>9, <2>1 DEF LiveTypes, Live!Jobs
<1>11. OrderlyInv'
  BY <1>1, <1>4, <1>5 DEF OrderlyInv
<1>12. AgreeInv'
  <2>1. SUFFICES ASSUME NEW c \in Dashboards, stream'[c].open, c \notin missed'
                 PROVE  DashRight(stream'[c].queue, view'[c], memory', inFlight', tasks')
    BY DEF AgreeInv
  <2>2. CASE c = d
    <3>1. q \in Seq(LiveEvent) /\ q[Len(q)].kind = "snapshot" /\ q[Len(q)].records = memory
      BY <1>2, <1>6 DEF EventsRight
    <3>2. DashRight(q, view[d], memory, inFlight, tasks)
      BY <1>6, <3>1, ToldAnew
    <3>3. QED
      BY <1>4, <1>8, <1>9, <2>2, <3>2
  <2>3. CASE c # d
    BY <1>1, <1>4, <1>9, <2>1, <2>3 DEF AgreeInv
  <2>4. QED
    BY <2>2, <2>3
<1>13. QED
  BY <1>10, <1>11, <1>12 DEF LiveInv

LEMMA DeliverLive ==
    ASSUME LiveInv, NEW d \in Dashboards, Live!Deliver(d)
    PROVE  LiveInv'
<1> DEFINE q == stream[d].queue
           h == Live!handleEvent(view[d], q[1])
           s == [stream[d] EXCEPT !.queue = Tail(q), !.lastId = q[1].seq]
<1>1. LiveTypes /\ OrderlyInv /\ AgreeInv
  BY DEF LiveInv
<1>2. EventsRight(q) /\ q # <<>> /\ q \in Seq(LiveEvent)
  BY <1>1 DEF LiveTypes, EventsRight, Live!Deliver
<1>3. EventsRight(Tail(q)) /\ EventRight(q[1]) /\ Head(q) = q[1] /\ q[1].seq \in Nat
  BY <1>2, RightShorter
<1>4. /\ view' = [view EXCEPT ![d] = h] /\ stream' = [stream EXCEPT ![d] = s]
      /\ UNCHANGED <<serving, nextSeq, buffer, memory, disk, phase, inFlight, tasks, missed>>
  <2>1. Live!Received(stream[d]) = s
    <3>1. Live!Received(stream[d]) = [stream[d] EXCEPT !.queue = Tail(q), !.lastId = Head(q).seq]
      BY DEF Live!Received
    <3>2. QED
      BY <1>3, <3>1
  <2>2. QED
    BY <1>3, <2>1 DEF Live!Deliver, Live!server
<1>5. view[d] \in ViewState /\ stream[d] \in StreamState /\ tasks \in [Evals -> Nat]
  BY <1>1 DEF LiveTypes
<1>6. HandledRight(view[d], q[1], h)
  BY <1>3, <1>5, Handled
<1>7. s \in StreamState /\ s.queue = Tail(q) /\ s.open = stream[d].open
  <2> DEFINE rest == Tail(q)
             n == q[1].seq
  <2>1. rest \in Seq(LiveEvent) /\ n \in Nat
    BY <1>3 DEF EventsRight
  <2>2. s = [stream[d] EXCEPT !.queue = rest, !.lastId = n]
    OBVIOUS
  <2> HIDE DEF rest, n, s
  <2>3. s \in StreamState /\ s.queue = rest /\ s.open = stream[d].open
    BY <1>5, <2>1, <2>2 DEF StreamState
  <2>4. QED
    BY <2>3 DEF rest
<1> HIDE DEF s, h
<1>8. h \in ViewState
  BY <1>6 DEF HandledRight
<1>9. /\ stream' \in [Dashboards -> StreamState] /\ stream'[d] = s
      /\ view' \in [Dashboards -> ViewState] /\ view'[d] = h
      /\ \A c \in Dashboards : c # d => stream'[c] = stream[c] /\ view'[c] = view[c]
  BY <1>1, <1>4, <1>7, <1>8 DEF LiveTypes
<1>10. LiveTypes'
  <2>1. \A c \in Dashboards : EventsRight(stream'[c].queue)
    BY <1>1, <1>3, <1>7, <1>9 DEF LiveTypes
  <2>2. QED
    BY <1>1, <1>4, <1>9, <2>1 DEF LiveTypes, Live!Jobs
<1>11. OrderlyInv'
  BY <1>1, <1>4, <1>7, <1>9 DEF OrderlyInv
<1>12. AgreeInv'
  <2>1. SUFFICES ASSUME NEW c \in Dashboards, stream'[c].open, c \notin missed'
                 PROVE  DashRight(stream'[c].queue, view'[c], memory', inFlight', tasks')
    BY DEF AgreeInv
  <2>2. CASE c = d
    <3>1. DashRight(q, view[d], memory, inFlight, tasks)
      BY <1>1, <1>4, <1>7, <1>9, <2>1, <2>2 DEF AgreeInv
    <3>2. DashRight(Tail(q), h, memory, inFlight, tasks)
      BY <1>2, <1>5, <1>6, <3>1, ToldLess
    <3>3. QED
      BY <1>4, <1>7, <1>9, <2>2, <3>2
  <2>3. CASE c # d
    BY <1>1, <1>4, <1>9, <2>1, <2>3 DEF AgreeInv
  <2>4. QED
    BY <2>2, <2>3
<1>13. QED
  BY <1>10, <1>11, <1>12 DEF LiveInv

LEMMA BrokenIs ==
    ASSUME NEW s \in StreamState
    PROVE  /\ Live!Broken(s) \in StreamState /\ ~Live!Broken(s).open
           /\ EventsRight(Live!Broken(s).queue)
<1>1. Live!Broken(s) \in StreamState /\ ~Live!Broken(s).open /\ Live!Broken(s).queue = <<>>
  <2> DEFINE none == <<>>
  <2>1. none \in Seq(LiveEvent) /\ Live!Broken(s) = [s EXCEPT !.open = FALSE, !.queue = none]
    BY DEF Live!Broken
  <2> HIDE DEF none
  <2>2. Live!Broken(s) \in StreamState /\ ~Live!Broken(s).open /\ Live!Broken(s).queue = none
    BY <2>1 DEF StreamState
  <2>3. QED
    BY <2>2 DEF none
<1>2. EventsRight(<<>>)
  BY DEF EventsRight
<1>3. QED
  BY <1>1, <1>2

LEMMA DisconnectLive ==
    ASSUME LiveInv, NEW d \in Dashboards, Live!Disconnect(d)
    PROVE  LiveInv'
<1> DEFINE s == Live!Broken(stream[d])
<1>1. LiveTypes /\ OrderlyInv /\ AgreeInv
  BY DEF LiveInv
<1>2. s \in StreamState /\ ~s.open /\ EventsRight(s.queue)
  BY <1>1, BrokenIs DEF LiveTypes
<1>3. /\ stream' = [stream EXCEPT ![d] = s]
      /\ UNCHANGED <<serving, nextSeq, buffer, memory, disk, view, phase, inFlight, tasks, missed>>
  BY DEF Live!Disconnect, Live!server
<1> HIDE DEF s
<1>4. /\ stream' \in [Dashboards -> StreamState] /\ stream'[d] = s
      /\ \A c \in Dashboards : c # d => stream'[c] = stream[c]
  BY <1>1, <1>2, <1>3 DEF LiveTypes
<1>5. LiveTypes'
  <2>1. \A c \in Dashboards : EventsRight(stream'[c].queue)
    BY <1>1, <1>2, <1>4 DEF LiveTypes
  <2>2. QED
    BY <1>1, <1>3, <1>4, <2>1 DEF LiveTypes, Live!Jobs
<1>6. OrderlyInv'
  BY <1>1, <1>2, <1>3, <1>4 DEF OrderlyInv
<1>7. AgreeInv'
  BY <1>1, <1>2, <1>3, <1>4 DEF AgreeInv
<1>8. QED
  BY <1>5, <1>6, <1>7 DEF LiveInv

LEMMA CrashLive ==
    ASSUME LiveInv, Live!Crash
    PROVE  LiveInv'
<1>1. LiveTypes /\ OrderlyInv
  BY DEF LiveInv
<1>2. /\ stream' = [d \in Dashboards |-> Live!Broken(stream[d])]
      /\ serving' = FALSE /\ nextSeq' = 1 /\ buffer' = <<>> /\ memory' = {}
      /\ UNCHANGED <<disk, view, phase, tasks>>
  BY DEF Live!Crash
<1>3. \A d \in Dashboards : /\ Live!Broken(stream[d]) \in StreamState
                            /\ ~Live!Broken(stream[d]).open
                            /\ EventsRight(Live!Broken(stream[d]).queue)
  BY <1>1, BrokenIs DEF LiveTypes
<1>4. /\ stream' \in [Dashboards -> StreamState]
      /\ \A d \in Dashboards : ~stream'[d].open /\ EventsRight(stream'[d].queue)
  BY <1>2, <1>3
<1>5. EventsRight(buffer')
  BY <1>2 DEF EventsRight
<1>6. LiveTypes'
  BY <1>1, <1>2, <1>4, <1>5 DEF LiveTypes, Live!Jobs
<1>7. OrderlyInv' /\ AgreeInv'
  BY <1>1, <1>2, <1>4 DEF OrderlyInv, AgreeInv
<1>8. QED
  BY <1>6, <1>7 DEF LiveInv

LEMMA RestartLive ==
    ASSUME LiveInv, Live!Restart
    PROVE  LiveInv'
<1>1. LiveTypes /\ OrderlyInv
  BY DEF LiveInv
<1>2. /\ ~serving /\ serving' = TRUE
      /\ memory' = Live!Loaded(disk.runs) \cup Live!Loaded(disk.evals)
      /\ UNCHANGED <<nextSeq, buffer, disk, stream, view, phase, tasks>>
  BY DEF Live!Restart
<1>3. disk.runs \in Seq(Live!Jobs) /\ disk.evals \in Seq(Live!Jobs)
  BY <1>1 DEF LiveTypes
<1>4. memory' \subseteq Live!Jobs
  <2>1. Live!Loaded(disk.runs) \subseteq Live!Jobs /\ Live!Loaded(disk.evals) \subseteq Live!Jobs
    BY <1>3 DEF Live!Loaded
  <2>2. QED
    BY <1>2, <2>1
<1>5. LiveTypes'
  BY <1>1, <1>2, <1>4 DEF LiveTypes, Live!Jobs
<1>6. OrderlyInv' /\ AgreeInv'
  BY <1>1, <1>2 DEF OrderlyInv, AgreeInv
<1>7. QED
  BY <1>5, <1>6 DEF LiveInv

LEMMA LiveInit == Live!Init => LiveInv
<1>1. SUFFICES ASSUME Live!Init
               PROVE  LiveInv
  OBVIOUS
<1>2. /\ serving = TRUE /\ nextSeq = 1 /\ buffer = <<>> /\ memory = {}
      /\ disk = [runs |-> <<>>, evals |-> <<>>]
      /\ stream = [d \in Dashboards |-> [open |-> FALSE, queue |-> <<>>, lastId |-> 0]]
      /\ view = [d \in Dashboards |-> [complete |-> {}, running |-> {}, failed |-> {},
                                       sessions |-> {}, done |-> [e \in Evals |-> 0]]]
      /\ phase = [x \in Live!Jobs \cup Sessions |-> "idle"]
      /\ tasks = [e \in Evals |-> 0]
  BY <1>1 DEF Live!Init, Live!Unconnected, Live!EmptyView
<1>3. EventsRight(<<>>)
  BY DEF EventsRight
<1>4. stream \in [Dashboards -> StreamState] /\ \A d \in Dashboards : EventsRight(stream[d].queue)
  BY <1>2, <1>3 DEF StreamState
<1>5. view \in [Dashboards -> ViewState]
  BY <1>2 DEF ViewState
<1>6. LiveTypes
  <2>1. disk \in [runs : Seq(Live!Jobs), evals : Seq(Live!Jobs)]
    <3>1. <<>> \in Seq(Live!Jobs)
      OBVIOUS
    <3> DEFINE none == <<>>
    <3>2. none \in Seq(Live!Jobs) /\ disk = [runs |-> none, evals |-> none]
      BY <1>2, <3>1
    <3> HIDE DEF none
    <3>3. QED
      BY <3>2
  <2>2. /\ phase \in [Live!Jobs \cup Sessions -> {"idle", "running", "ended"}]
        /\ tasks \in [Evals -> Nat]
    BY <1>2
  <2>3. nextSeq \in Nat /\ serving \in BOOLEAN /\ EventsRight(buffer) /\ memory \subseteq Live!Jobs
    BY <1>2, <1>3
  <2>4. QED
    BY <1>4, <1>5, <2>1, <2>2, <2>3 DEF LiveTypes
<1>7. OrderlyInv /\ AgreeInv
  BY <1>2 DEF OrderlyInv, AgreeInv
<1>8. QED
  BY <1>6, <1>7 DEF LiveInv

LEMMA LiveStutters ==
    ASSUME LiveInv, UNCHANGED Live!vars
    PROVE  LiveInv'
BY DEF Live!vars, Live!server, Live!counts, LiveInv, LiveTypes, OrderlyInv, AgreeInv, Live!Jobs

LEMMA LiveSteps == LiveInv /\ [Live!Next]_Live!vars => LiveInv'
<1>1. SUFFICES ASSUME LiveInv, [Live!Next]_Live!vars
               PROVE  LiveInv'
  OBVIOUS
<1>2. ASSUME NEW x \in Live!Jobs \cup Sessions, Live!PostStarted(x)
      PROVE  LiveInv'
  BY <1>1, <1>2, StartedLive
<1>3. ASSUME NEW x \in Live!Jobs, Live!PostFailed(x) \/ Live!PostComplete(x)
      PROVE  LiveInv'
  BY <1>1, <1>3, FailedLive, CompleteLive
<1>4. ASSUME NEW e \in Evals, Live!PostTask(e)
      PROVE  LiveInv'
  BY <1>1, <1>4, TaskLive
<1>5. ASSUME NEW s \in Sessions, Live!PostSessionComplete(s)
      PROVE  LiveInv'
  BY <1>1, <1>5, SessionLive
<1>6. CASE Live!PostReset
  BY <1>1, <1>6, ResetLive
<1>7. ASSUME NEW d \in Dashboards, Live!Connect(d) \/ Live!Deliver(d) \/ Live!Disconnect(d)
      PROVE  LiveInv'
  BY <1>1, <1>7, ConnectLive, DeliverLive, DisconnectLive
<1>8. CASE Live!Crash
  BY <1>1, <1>8, CrashLive
<1>9. CASE Live!Restart
  BY <1>1, <1>9, RestartLive
<1>10. CASE UNCHANGED Live!vars
  BY <1>1, <1>10, LiveStutters
<1>11. QED
  BY <1>1, <1>2, <1>3, <1>4, <1>5, <1>6, <1>7, <1>8, <1>9, <1>10 DEF Live!Next

\* However often a dashboard is cut off, replayed to or restarted under, once it is
\* connected, has handled what was sent and was not passed over by a write that failed,
\* it lists what the server holds, shows nothing as running whose end the server saw,
\* and counts every task of an eval once (LiveEventStore, handleStream, handleEvent).
THEOREM DashboardsShow == Live!Spec => []DashboardsAgree
<1>1. LiveInv => DashboardsAgree
  BY AgreesFrom
<1>2. QED
  BY LiveInit, LiveSteps, <1>1, PTL DEF Live!Spec

(* What was acknowledged stays.                                            *)

OnDisk(tables) == Live!ToSet(tables.runs) \cup Live!ToSet(tables.evals)

HistoryInv == kept \subseteq OnDisk(disk) /\ (serving => kept \subseteq memory)

\* The tables hold no more than is loaded when the server starts: above that the
\* constructor of LiveEventStore leaves the newest out.
TablesFit == Len(disk.runs) <= LoadLimit /\ Len(disk.evals) <= LoadLimit

LEMMA HistorySame ==
    ASSUME HistoryInv, UNCHANGED <<serving, memory, disk, kept>>
    PROVE  HistoryInv'
BY DEF HistoryInv, OnDisk

LEMMA HistoryStep ==
    ASSUME HistoryInv, LiveTypes, TablesFit, [Live!Next]_Live!vars
    PROVE  HistoryInv'
<1>1. ASSUME NEW x \in Live!Jobs \cup Sessions, Live!PostStarted(x)
      PROVE  HistoryInv'
  <2>1. UNCHANGED <<serving, memory, disk, kept>>
    BY <1>1 DEF Live!PostStarted, Live!Stamp, Live!Lost, Live!server
  <2>2. QED
    BY <2>1, HistorySame
<1>2. ASSUME NEW x \in Live!Jobs, Live!PostFailed(x)
      PROVE  HistoryInv'
  <2>1. UNCHANGED <<serving, memory, disk, kept>>
    BY <1>2 DEF Live!PostFailed, Live!Stamp, Live!Lost, Live!server
  <2>2. QED
    BY <2>1, HistorySame
<1>3. ASSUME NEW x \in Live!Jobs, Live!PostComplete(x)
      PROVE  HistoryInv'
  <2>1. CASE Live!Lost
    <3>1. UNCHANGED <<serving, memory, disk, kept>>
      BY <2>1 DEF Live!Lost, Live!server
    <3>2. QED
      BY <3>1, HistorySame
  <2>2. CASE Live!Stamp(Live!Event("complete", x, {})) /\ Live!Stored(x)
    <3>1. UNCHANGED serving /\ memory' = memory \cup {x}
      BY <2>2 DEF Live!Stamp, Live!Stored
    <3>2. CASE disk' = Live!upsert(x) /\ kept' = kept \cup {x}
      <4>1. OnDisk(Live!upsert(x)) = OnDisk(disk) \cup {x}
        BY UpsertIs DEF OnDisk
      <4>2. QED
        BY <3>1, <3>2, <4>1 DEF HistoryInv
    <3>3. CASE UNCHANGED <<disk, kept>>
      BY <3>1, <3>3 DEF HistoryInv
    <3>4. QED
      BY <2>2, <3>2, <3>3 DEF Live!Stored
  <2>3. QED
    BY <1>3, <2>1, <2>2 DEF Live!PostComplete
<1>4. ASSUME NEW e \in Evals, Live!PostTask(e)
      PROVE  HistoryInv'
  <2>1. UNCHANGED <<serving, memory, disk, kept>>
    BY <1>4 DEF Live!PostTask, Live!Stamp
  <2>2. QED
    BY <2>1, HistorySame
<1>5. ASSUME NEW s \in Sessions, Live!PostSessionComplete(s)
      PROVE  HistoryInv'
  <2>1. UNCHANGED <<serving, memory, disk, kept>>
    BY <1>5 DEF Live!PostSessionComplete, Live!Stamp, Live!Lost, Live!server
  <2>2. QED
    BY <2>1, HistorySame
<1>6. CASE Live!PostReset
  <2>1. kept' = {}
    BY <1>6 DEF Live!PostReset
  <2>2. QED
    BY <2>1 DEF HistoryInv
<1>7. ASSUME NEW d \in Dashboards, Live!Connect(d) \/ Live!Deliver(d) \/ Live!Disconnect(d)
      PROVE  HistoryInv'
  <2>1. UNCHANGED <<serving, memory, disk, kept>>
    BY <1>7 DEF Live!Connect, Live!Deliver, Live!Disconnect, Live!Stamp, Live!server
  <2>2. QED
    BY <2>1, HistorySame
<1>8. CASE Live!Crash
  <2>1. ~serving' /\ UNCHANGED <<disk, kept>>
    BY <1>8 DEF Live!Crash
  <2>2. QED
    BY <2>1 DEF HistoryInv
<1>9. CASE Live!Restart
  <2>1. /\ memory' = Live!Loaded(disk.runs) \cup Live!Loaded(disk.evals)
        /\ UNCHANGED <<disk, kept>>
    BY <1>9 DEF Live!Restart
  <2>2. disk.runs \in Seq(Live!Jobs) /\ disk.evals \in Seq(Live!Jobs)
    BY DEF LiveTypes
  <2>3. /\ Live!Loaded(disk.runs) = Live!ToSet(disk.runs)
        /\ Live!Loaded(disk.evals) = Live!ToSet(disk.evals)
    BY <2>2, LoadedIs DEF TablesFit
  <2>4. memory' = OnDisk(disk)
    BY <2>1, <2>3 DEF OnDisk
  <2>5. QED
    BY <2>1, <2>4 DEF HistoryInv
<1>10. CASE UNCHANGED Live!vars
  <2>1. UNCHANGED <<serving, memory, disk, kept>>
    BY <1>10 DEF Live!vars, Live!server
  <2>2. QED
    BY <2>1, HistorySame
<1>11. QED
  BY <1>1, <1>2, <1>3, <1>4, <1>5, <1>6, <1>7, <1>8, <1>9, <1>10 DEF Live!Next

\* As long as the tables hold no more than is loaded at startup, every completion that
\* was acknowledged, and not reset since, is listed by the server whenever it runs,
\* after crashes and failed writes too (the constructor and stamps of LiveEventStore).
THEOREM HistoryStays == Live!Spec /\ []TablesFit => []HistoryKept
<1>1. Live!Init => HistoryInv
  BY DEF Live!Init, HistoryInv, OnDisk
<1>2. HistoryInv /\ LiveInv /\ TablesFit /\ [Live!Next]_Live!vars => HistoryInv'
  BY HistoryStep DEF LiveInv
<1>3. HistoryInv => HistoryKept
  BY DEF HistoryInv, HistoryKept, Live!HistoryKept
<1>4. QED
  BY LiveInit, LiveSteps, <1>1, <1>2, <1>3, PTL DEF Live!Spec

(* What is replayed.                                                       *)

\* The buffer holds the last events, with no number left out.
NumbersInv ==
    /\ buffer \in Seq(LiveEvent) /\ nextSeq \in Nat
    /\ \A i \in DOMAIN buffer : buffer[i].seq = nextSeq - 1 - Len(buffer) + i

\* The last events that a replay takes are those with a number above the one given.
ReplayRight(last) ==
    \A i \in DOMAIN buffer :
        buffer[i].seq > last <=> i > Len(buffer) - Len(Live!EventsSince(buffer, last))

\* With numbers that follow one another, those above one given are the last.
AboveAreLast(n, b, last) ==
    \E k \in 0..n : /\ Cardinality({i \in 1..n : b + i > last}) = k
                    /\ \A i \in 1..n : b + i > last <=> i > n - k

LEMMA SuffixIs ==
    ASSUME NEW n \in Nat, NEW b \in Int, NEW last \in Nat
    PROVE  AboveAreLast(n, b, last)
<1>1. CASE last - b < 0
  <2>1. {i \in 1..n : b + i > last} = 1..n
    BY <1>1
  <2>2. Cardinality(1..n) = IF 1 > n THEN 0 ELSE n - 1 + 1
    BY FS_Interval
  <2>3. Cardinality(1..n) = n
    BY <2>2
  <2>4. n \in 0..n /\ \A i \in 1..n : b + i > last <=> i > n - n
    BY <1>1
  <2>5. Cardinality({i \in 1..n : b + i > last}) = n
    BY <2>1, <2>3
  <2>6. QED
    BY <2>4, <2>5 DEF AboveAreLast
<1>2. CASE last - b > n
  <2>1. {i \in 1..n : b + i > last} = {}
    BY <1>2
  <2>2. \A i \in 1..n : b + i > last <=> i > n - 0
    BY <1>2
  <2>3. QED
    BY <2>1, <2>2, FS_EmptySet DEF AboveAreLast
<1>3. CASE 0 <= last - b /\ last - b <= n
  <2> DEFINE t == last - b
  <2>1. t \in 0..n /\ t + 1 \in Int /\ \A i \in 1..n : b + i > last <=> i > t
    BY <1>3
  <2> HIDE DEF t
  <2>2. {i \in 1..n : b + i > last} = (t + 1)..n
    BY <2>1
  <2>3. Cardinality((t + 1)..n) = IF t + 1 > n THEN 0 ELSE n - (t + 1) + 1
    BY <2>1, FS_Interval
  <2>4. Cardinality((t + 1)..n) = n - t
    BY <2>1, <2>3
  <2>5. n - t \in 0..n /\ \A i \in 1..n : b + i > last <=> i > n - (n - t)
    BY <2>1
  <2>6. QED
    BY <2>2, <2>4, <2>5 DEF AboveAreLast
<1>4. last - b < 0 \/ last - b > n \/ (0 <= last - b /\ last - b <= n)
  <2> DEFINE t == last - b
  <2>1. t \in Int
    OBVIOUS
  <2> HIDE DEF t
  <2>2. t < 0 \/ t > n \/ (0 <= t /\ t <= n)
    BY <2>1
  <2>3. QED
    BY <2>2 DEF t
<1>5. QED
  BY <1>1, <1>2, <1>3, <1>4

LEMMA NumbersReplay ==
    ASSUME NumbersInv, NEW last \in Nat
    PROVE  ReplayRight(last)
<1> DEFINE n == Len(buffer)
           b == nextSeq - 1 - n
           later == {i \in DOMAIN buffer : buffer[i].seq > last}
<1>1. /\ n \in Nat /\ b \in Int /\ DOMAIN buffer = 1..n
      /\ \A i \in 1..n : buffer[i].seq = b + i /\ buffer[i] \in LiveEvent
  BY DEF NumbersInv
<1> HIDE DEF b
<1>2. later = {i \in 1..n : b + i > last}
  BY <1>1
<1>3. Live!EventsSince(buffer, last) = SubSeq(buffer, n - Cardinality(later) + 1, n)
  <2>1. Live!Cardinality(later) = Cardinality(later)
    BY DEF Live!Cardinality, Cardinality
  <2>2. Live!EventsSince(buffer, last) = SubSeq(buffer, n - Live!Cardinality(later) + 1, n)
    BY DEF Live!EventsSince
  <2> HIDE DEF later, n
  <2>3. QED
    BY <2>1, <2>2
<1> HIDE DEF n, later
<1>4. PICK k \in 0..n : /\ Cardinality(later) = k
                        /\ \A i \in 1..n : b + i > last <=> i > n - k
  BY <1>1, <1>2, SuffixIs DEF AboveAreLast
<1> DEFINE m == n - k + 1
<1>5. m \in Int /\ m >= 1 /\ (m <= n <=> k > 0) /\ n - m + 1 = k
  BY <1>1, <1>4
<1>6. Live!EventsSince(buffer, last) = SubSeq(buffer, m, n)
  BY <1>3, <1>4
<1> HIDE DEF m
<1>7. \A i \in m..n : buffer[i] \in LiveEvent
  BY <1>1, <1>5
<1>8. Len(SubSeq(buffer, m, n)) = IF m <= n THEN n - m + 1 ELSE 0
  BY <1>1, <1>5, <1>7, SubSeqProperties
<1>9. Len(SubSeq(buffer, m, n)) = k
  BY <1>1, <1>4, <1>5, <1>8
<1>10. \A i \in 1..n : buffer[i].seq > last <=> i > n - k
  BY <1>1, <1>4
<1>11. QED
  BY <1>1, <1>6, <1>9, <1>10 DEF ReplayRight, n

LEMMA NumbersStamp ==
    ASSUME NumbersInv, NEW ev \in LiveEvent, ev.seq = nextSeq, Live!Stamp(ev)
    PROVE  NumbersInv'
<1> DEFINE longer == Append(buffer, ev)
           n == Len(buffer)
<1>1. buffer \in Seq(LiveEvent) /\ nextSeq \in Nat /\ n \in Nat
      /\ \A i \in 1..n : buffer[i].seq = nextSeq - 1 - n + i
  BY DEF NumbersInv
<1>2. /\ longer \in Seq(LiveEvent) /\ Len(longer) = n + 1 /\ DOMAIN longer = 1..(n + 1)
      /\ longer[n + 1] = ev /\ \A i \in 1..n : longer[i] = buffer[i]
  BY <1>1, Longer
<1>3. nextSeq' = nextSeq + 1 /\ (buffer' = longer \/ buffer' = Tail(longer))
  BY DEF Live!Stamp
<1> HIDE DEF longer, n
<1>4. \A i \in 1..(n + 1) : longer[i].seq = nextSeq - 1 - n + i
  <2>1. SUFFICES ASSUME NEW i \in 1..(n + 1)
                 PROVE  longer[i].seq = nextSeq - 1 - n + i
    OBVIOUS
  <2>2. CASE i = n + 1
    <3>1. longer[i].seq = nextSeq
      BY <1>2, <2>2
    <3>2. QED
      BY <1>1, <2>2, <3>1
  <2>3. CASE i # n + 1
    <3>1. i \in 1..n
      BY <1>1, <2>1, <2>3
    <3>2. longer[i].seq = buffer[i].seq
      BY <1>2, <3>1
    <3>3. QED
      BY <1>1, <3>1, <3>2
  <2>4. QED
    BY <2>2, <2>3
<1>5. CASE buffer' = longer
  <2>1. Len(buffer') = n + 1 /\ nextSeq' - 1 - Len(buffer') = nextSeq - 1 - n
    BY <1>1, <1>2, <1>3, <1>5
  <2>2. \A i \in DOMAIN buffer' : buffer'[i].seq = nextSeq - 1 - n + i
    BY <1>2, <1>4, <1>5
  <2>3. buffer' \in Seq(LiveEvent) /\ nextSeq' \in Nat
    BY <1>1, <1>2, <1>3, <1>5
  <2>4. QED
    BY <2>1, <2>2, <2>3 DEF NumbersInv
<1>6. CASE buffer' = Tail(longer)
  <2>1. longer # <<>>
    BY <1>1, <1>2
  <2>2. /\ Tail(longer) \in Seq(LiveEvent) /\ DOMAIN Tail(longer) = 1..n /\ Len(Tail(longer)) = n
        /\ \A i \in 1..n : Tail(longer)[i] = longer[i + 1]
    <3>1. /\ Tail(longer) \in Seq(LiveEvent)
          /\ DOMAIN Tail(longer) = 1..(Len(longer) - 1)
          /\ \A i \in 1..(Len(longer) - 1) : Tail(longer)[i] = longer[i + 1]
      BY <1>2, <2>1, Shorter
    <3>2. Len(longer) - 1 = n
      BY <1>1, <1>2
    <3>3. Len(Tail(longer)) = n
      BY <1>2, <2>1, <3>2
    <3>4. QED
      BY <3>1, <3>2, <3>3
  <2>3. \A i \in 1..n : i + 1 \in 1..(n + 1)
    BY <1>1
  <2>4. \A i \in 1..n : longer[i + 1].seq = nextSeq - 1 - n + (i + 1)
    BY <1>4, <2>3
  <2>5. \A i \in 1..n : nextSeq - 1 - n + (i + 1) = nextSeq' - 1 - n + i
    BY <1>1, <1>3
  <2>6. \A i \in 1..n : Tail(longer)[i].seq = nextSeq' - 1 - n + i
    BY <2>2, <2>4, <2>5
  <2>7. nextSeq' \in Nat
    BY <1>1, <1>3
  <2>8. QED
    BY <1>6, <2>2, <2>6, <2>7 DEF NumbersInv
<1>7. QED
  BY <1>3, <1>5, <1>6

\* The events that are stamped, by whatever action.
Stamping(kind, x, listed) ==
    /\ Live!Stamp(Live!Event(kind, x, listed))
    /\ EventRight(Live!Event(kind, x, listed))

LEMMA StampingNumbers ==
    ASSUME NumbersInv, NEW kind, NEW x, NEW listed, Stamping(kind, x, listed)
    PROVE  NumbersInv'
<1> DEFINE ev == Live!Event(kind, x, listed)
<1>1. ev.seq = nextSeq /\ ev \in LiveEvent /\ Live!Stamp(ev)
  BY DEF Live!Event, Stamping, EventRight
<1> HIDE DEF ev
<1>2. QED
  BY <1>1, NumbersStamp

LEMMA NumbersSame ==
    ASSUME NumbersInv, UNCHANGED <<buffer, nextSeq>>
    PROVE  NumbersInv'
BY DEF NumbersInv

LEMMA NumbersStep ==
    ASSUME NumbersInv, LiveTypes, [Live!Next]_Live!vars
    PROVE  NumbersInv'
<1>1. ASSUME NEW x \in Live!Jobs \cup Sessions, Live!PostStarted(x)
      PROVE  NumbersInv'
  <2>1. CASE Live!Stamp(Live!Event("started", x, {}))
    <3>1. Stamping("started", x, {})
      BY <2>1, EventIs DEF Stamping, EventKinds
    <3>2. QED
      BY <3>1, StampingNumbers
  <2>2. CASE Live!Lost
    BY <2>2, NumbersSame DEF Live!Lost, Live!server
  <2>3. QED
    BY <1>1, <2>1, <2>2 DEF Live!PostStarted
<1>2. ASSUME NEW x \in Live!Jobs, Live!PostFailed(x)
      PROVE  NumbersInv'
  <2>1. CASE Live!Stamp(Live!Event("failed", x, {}))
    <3>1. Stamping("failed", x, {})
      BY <2>1, EventIs DEF Stamping, EventKinds
    <3>2. QED
      BY <3>1, StampingNumbers
  <2>2. CASE Live!Lost
    BY <2>2, NumbersSame DEF Live!Lost, Live!server
  <2>3. QED
    BY <1>2, <2>1, <2>2 DEF Live!PostFailed
<1>3. ASSUME NEW x \in Live!Jobs, Live!PostComplete(x)
      PROVE  NumbersInv'
  <2>1. CASE Live!Stamp(Live!Event("complete", x, {}))
    <3>1. Stamping("complete", x, {})
      BY <2>1, EventIs DEF Stamping, EventKinds
    <3>2. QED
      BY <3>1, StampingNumbers
  <2>2. CASE Live!Lost
    BY <2>2, NumbersSame DEF Live!Lost, Live!server
  <2>3. QED
    BY <1>3, <2>1, <2>2 DEF Live!PostComplete
<1>4. ASSUME NEW e \in Evals, Live!PostTask(e)
      PROVE  NumbersInv'
  <2>1. Stamping("task", e, {})
    BY <1>4, EventIs, JobSets DEF Stamping, EventKinds, Live!PostTask
  <2>2. QED
    BY <2>1, StampingNumbers
<1>5. ASSUME NEW s \in Sessions, Live!PostSessionComplete(s)
      PROVE  NumbersInv'
  <2>1. CASE Live!Stamp(Live!Event("complete", s, {}))
    <3>1. Stamping("complete", s, {})
      BY <2>1, EventIs DEF Stamping, EventKinds
    <3>2. QED
      BY <3>1, StampingNumbers
  <2>2. CASE Live!Lost
    BY <2>2, NumbersSame DEF Live!Lost, Live!server
  <2>3. QED
    BY <1>5, <2>1, <2>2 DEF Live!PostSessionComplete
<1>6. CASE Live!PostReset
  <2>1. Stamping("reset", NoSession, {})
    BY <1>6, EventIs DEF Stamping, EventKinds, Live!PostReset
  <2>2. QED
    BY <2>1, StampingNumbers
<1>7. ASSUME NEW d \in Dashboards, Live!Connect(d)
      PROVE  NumbersInv'
  <2>1. Live!Stamp(Live!Event("snapshot", NoSession, memory)) /\ memory \subseteq Live!Jobs
    BY <1>7 DEF Live!Connect, LiveTypes
  <2>2. Stamping("snapshot", NoSession, memory)
    BY <2>1, EventIs DEF Stamping, EventKinds
  <2>3. QED
    BY <2>2, StampingNumbers
<1>8. ASSUME NEW d \in Dashboards, Live!Deliver(d) \/ Live!Disconnect(d)
      PROVE  NumbersInv'
  BY <1>8, NumbersSame DEF Live!Deliver, Live!Disconnect, Live!server
<1>9. CASE Live!Crash
  BY <1>9 DEF Live!Crash, NumbersInv
<1>10. CASE Live!Restart
  BY <1>10, NumbersSame DEF Live!Restart
<1>11. CASE UNCHANGED Live!vars
  BY <1>11, NumbersSame DEF Live!vars, Live!server
<1>12. QED
  BY <1>1, <1>2, <1>3, <1>4, <1>5, <1>6, <1>7, <1>8, <1>9, <1>10, <1>11 DEF Live!Next

\* What a replay takes off the end of the buffer is every event above the number given
\* that the server still has, and no other, however the buffer has turned over and
\* however often the server was restarted (eventsSince, which filters the buffer).
THEOREM ReplaysRight == Live!Spec => [](\A last \in Nat : ReplayRight(last))
<1>1. Live!Init => NumbersInv
  BY DEF Live!Init, NumbersInv
<1>2. NumbersInv /\ LiveInv /\ [Live!Next]_Live!vars => NumbersInv'
  BY NumbersStep DEF LiveInv
<1>3. NumbersInv => \A last \in Nat : ReplayRight(last)
  BY NumbersReplay
<1>4. QED
  BY LiveInit, LiveSteps, <1>1, <1>2, <1>3, PTL DEF Live!Spec
=============================================================================
