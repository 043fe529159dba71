------------------------------ MODULE Generation ------------------------------
(***************************************************************************)
(* The generation loop (inference/generation.ts, Generator.generate): it   *)
(* prefills, samples, hands over, decodes, and steers what is sampled so   *)
(* that a chat model that thinks first closes its block and then answers.  *)
(* The steering is a handful of flags that say which tokens to mask, and   *)
(* whether the token comes from an argmax on the GPU, from a reduced set   *)
(* of candidates or from all logits.  A token is what the loop tells apart *)
(* of it; logits are left out, so any token that is not masked may be      *)
(* sampled.  The loop is cut at its awaits and yields: the signal may be   *)
(* aborted at any time, a forward may reject, a consumer may leave.        *)
(***************************************************************************)
EXTENDS Naturals, Sequences

CONSTANTS
    MaxTokens,  \* config.maxTokens
    Rooms       \* what the session's maxTokens may leave after its history and the prompt

ASSUME GenerationAssumption == MaxTokens \in Nat /\ Rooms \subseteq Nat

VARIABLES
    config,       \* how the engine set the request up
    aborted,      \* config.signal.aborted
    pc,           \* where the loop is suspended
    sampledId,
    thinkDepth,
    thinkClosed,
    hasVisibleAnswerText,
    waitingForVisibleAnswer,
    requireLeadingWhitespaceForNextStep,
    emitted,      \* tokens yielded
    decoderDepth, \* blocks open for the visible decoder, which counts the tags it is given
    channel,      \* where the text of each token went: to a decoder or nowhere
    finishReason  \* "" until the loop returns

steering == <<thinkDepth, thinkClosed, hasVisibleAnswerText, waitingForVisibleAnswer,
              requireLeadingWhitespaceForNextStep>>
output == <<emitted, decoderDepth, channel>>
vars == <<config, aborted, pc, sampledId, steering, output, finishReason>>

\* The tags of a think block; eosTokenId; the stop token the engine adds for the model,
\* and one the caller asks for; <|im_start|>; text with a visible character, with and
\* without whitespace before it; whitespace alone.
Tokens == {"open", "close", "eos", "turnEnd", "stop", "reentry", "lead", "word", "blank"}

StopTokens == {"turnEnd", "stop"}

VisibleText == {"lead", "word"}
WhitespaceOnly == {"blank"}
StartsWithWhitespace == {"lead", "blank"}

\* "qwen": what generateStream and chatCompletion configure for a Qwen model with think
\* tags; "plain": what they configure for the others, to which tags are tokens like any
\* other; "answerFirst": an option of the loop that no path of the engine sets, by which a
\* visible answer is required before any stop.
\* greedy: temperature 0 without penalty; topk: a top-K is set; full: neither, or no
\* forwardDecode.
Configs == [style : {"qwen", "plain", "answerFirst"}, sampler : {"greedy", "topk", "full"},
            room : Rooms]

Steered == config.style = "qwen"
AnswerFirst == config.style = "answerFirst"

TypeOK ==
    /\ config \in Configs
    /\ aborted \in BOOLEAN
    /\ pc \in {"prefill", "yielded", "decoding", "returned", "left", "thrown"}
    /\ sampledId \in Tokens \cup {""}
    /\ thinkDepth \in Nat
    /\ thinkClosed \in BOOLEAN
    /\ hasVisibleAnswerText \in BOOLEAN
    /\ waitingForVisibleAnswer \in BOOLEAN
    /\ requireLeadingWhitespaceForNextStep \in BOOLEAN
    /\ emitted \in Seq(Tokens)
    /\ decoderDepth \in Nat
    /\ channel \in Seq({"visible", "thinking", "none"})
    /\ finishReason \in {"", "aborted", "eos", "max-tokens", "stop-token"}

Init ==
    /\ config \in Configs
    /\ aborted \in BOOLEAN
    /\ pc = "prefill"
    /\ sampledId = ""
    /\ thinkDepth = 0
    /\ thinkClosed = FALSE
    /\ hasVisibleAnswerText = FALSE
    /\ waitingForVisibleAnswer = AnswerFirst
    /\ requireLeadingWhitespaceForNextStep = FALSE
    /\ emitted = <<>>
    /\ decoderDepth = 0
    /\ channel = <<>>
    /\ finishReason = ""

-----------------------------------------------------------------------------
\* Sampling

\* What each state of the steering masks.  <|im_end|> is the eos of these models.
MaskedTokensWhileThinking == IF Steered THEN {"open", "reentry", "eos", "turnEnd"} ELSE {}
MaskedTokensAfterThinkingUntilAnswer ==
    IF Steered THEN {"open", "reentry", "eos", "turnEnd"} ELSE {}
MaskedTokensAfterAnswerStarts == IF Steered THEN {"open", "reentry"} ELSE {}

\* Tokens the sampler may return for logits in which M is masked.
Sampled(M) == IF Tokens \subseteq M THEN Tokens ELSE Tokens \ M

\* Samples until a token of the wanted ones comes, masking what came, or a masked one.
Resampled(M, wanted) == IF wanted \subseteq M THEN Tokens ELSE wanted \ M

SampleVisibleAnswerToken(M, guard, leadingWhitespace, suppressWhitespaceOnly) ==
    IF ~guard THEN Sampled(M)
    ELSE IF leadingWhitespace THEN Resampled(M, StartsWithWhitespace)
    ELSE IF suppressWhitespaceOnly THEN Resampled(M, Tokens \ WhitespaceOnly)
    ELSE Sampled(M)

\* Mutant: candidates are asked for while an answer is awaited, too.
ModeReduced == config.sampler

\* gpuMode of a step.
Mode ==
    IF config.sampler = "topk" /\ waitingForVisibleAnswer THEN "full" ELSE config.sampler

\* The masks of a step on candidates: there are ten more than topK, and fewer than ten
\* masked tokens, so some are left.
CandidateMask ==
    IF thinkDepth > 0 THEN MaskedTokensWhileThinking
    ELSE IF hasVisibleAnswerText THEN MaskedTokensAfterAnswerStarts
    ELSE {}

LogitsMask ==
    IF thinkDepth > 0 THEN MaskedTokensWhileThinking
    ELSE IF waitingForVisibleAnswer
      THEN MaskedTokensAfterThinkingUntilAnswer
             \cup (IF Steered \/ AnswerFirst THEN {"eos"} \cup StopTokens ELSE {})
    ELSE IF hasVisibleAnswerText THEN MaskedTokensAfterAnswerStarts
    ELSE {}

\* The guard of the first token after a block, and a step that takes it into account.
LeadingWhitespaceGuard == waitingForVisibleAnswer /\ requireLeadingWhitespaceForNextStep
GuardUsed == Mode = "full" /\ LeadingWhitespaceGuard

\* Tokens a decode step may sample.
Candidates ==
    CASE Mode = "greedy" -> Tokens
      [] Mode = "topk"   -> Sampled(CandidateMask)
      [] Mode = "full"   ->
            SampleVisibleAnswerToken(LogitsMask, waitingForVisibleAnswer,
                                     LeadingWhitespaceGuard,
                                     IF thinkClosed THEN Steered ELSE AnswerFirst)

FirstCandidates ==
    SampleVisibleAnswerToken(IF waitingForVisibleAnswer THEN {"eos"} \cup StopTokens ELSE {},
                             waitingForVisibleAnswer, FALSE, AnswerFirst)

-----------------------------------------------------------------------------
\* The loop

Tags == IF Steered THEN {"open", "close"} ELSE {}
ForbiddenReentryTokens == IF Steered THEN {"reentry"} ELSE {}

\* A tag that enforceSingleThinkBlock refuses: a block in a block, an end without one.
StrayTag(t) == t \in Tags /\ (t = "open" <=> thinkDepth > 0)

Closes(t) == t \in Tags /\ t = "close" /\ thinkDepth = 1

\* The answer begins.
Answers(t) == waitingForVisibleAnswer /\ ~hasVisibleAnswerText /\ t \in VisibleText

\* The steering once t has been sampled; used says whether the guard of the first
\* token after a block was used for it.
Steer(t, used) ==
    /\ sampledId' = t
    /\ thinkDepth' = IF t \notin Tags THEN thinkDepth
                     ELSE IF t = "open" THEN thinkDepth + 1 ELSE thinkDepth - 1
    /\ thinkClosed' = (thinkClosed \/ Closes(t))
    /\ hasVisibleAnswerText' = (hasVisibleAnswerText \/ Answers(t))
    /\ waitingForVisibleAnswer' = ((waitingForVisibleAnswer \/ Closes(t)) /\ ~Answers(t))
    /\ requireLeadingWhitespaceForNextStep' =
          (Closes(t) \/ (requireLeadingWhitespaceForNextStep /\ ~used))

Return(reason) ==
    /\ pc' = "returned"
    /\ finishReason' = reason
    /\ UNCHANGED output

\* Mutant: the depth of the loop is not asked for.
DecoderPlain(t, depth) == IF t \in {"open", "close"} THEN "none" ELSE "visible"

\* The decoder that emitDeltas lets t grow, depth being the loop's after t.  Where the
\* loop knows no tags, the visible decoder gets them, and swallows what is between.
Decoder(t, depth) ==
    IF t \in {"open", "close"} THEN "none"
    ELSE IF depth > 0 THEN "thinking"
    ELSE IF decoderDepth > 0 THEN "none" ELSE "visible"

EmitAndYield(t) ==
    /\ emitted' = Append(emitted, t)
    /\ channel' = Append(channel, Decoder(t, thinkDepth'))
    /\ decoderDepth' = IF t \in Tags THEN decoderDepth
                       ELSE IF t = "open" THEN decoderDepth + 1
                       ELSE IF t = "close" /\ decoderDepth > 0 THEN decoderDepth - 1
                       ELSE decoderDepth
    /\ pc' = "yielded"
    /\ UNCHANGED finishReason

\* The prompt is forwarded and the first token sampled from its logits.  It is handed
\* over whatever it is, but for the end of a block.
Prefill ==
    /\ pc = "prefill"
    /\ \/ /\ aborted
          /\ Return("aborted")
          /\ UNCHANGED <<sampledId, steering>>
       \/ /\ ~aborted
          /\ \E t \in FirstCandidates :
                \/ /\ StrayTag(t)
                   /\ Return("stop-token")
                   /\ sampledId' = t
                   /\ UNCHANGED steering
                \/ /\ ~StrayTag(t)
                   /\ Steer(t, FALSE)
                   /\ EmitAndYield(t)
    /\ UNCHANGED <<config, aborted>>

BudgetUsed == Len(emitted) >= MaxTokens \/ Len(emitted) >= config.room

\* Mutant: the last token is not looked at.
ReasonAtTopForgetful == IF aborted THEN "aborted" ELSE "max-tokens"

\* Why the loop is left, shouldStop and the conditions after it taken together.
ReasonAtTop ==
    IF aborted THEN "aborted" ELSE IF sampledId = "eos" THEN "eos" ELSE "max-tokens"

\* The consumer asks for the next token: the last one is pushed, and forwarded unless
\* the loop ends.
Resume ==
    /\ pc = "yielded"
    /\ IF sampledId = "eos" \/ aborted \/ BudgetUsed
       THEN Return(ReasonAtTop)
       ELSE pc' = "decoding" /\ UNCHANGED <<output, finishReason>>
    /\ UNCHANGED <<config, aborted, sampledId, steering>>

\* Why the loop breaks after t, "" if it does not.
BreakReason(t) ==
    IF t \in StopTokens \cup ForbiddenReentryTokens THEN "stop-token"
    ELSE IF t = "eos" THEN "eos" ELSE ""

\* A forward has ended.
DecodeDone ==
    /\ pc = "decoding"
    /\ \/ /\ aborted
          /\ Return("aborted")
          /\ UNCHANGED <<sampledId, steering>>
       \/ /\ ~aborted
          /\ \E t \in Candidates :
                \/ /\ StrayTag(t)
                   /\ Return("stop-token")
                   /\ sampledId' = t
                   /\ requireLeadingWhitespaceForNextStep' =
                         (requireLeadingWhitespaceForNextStep /\ ~GuardUsed)
                   /\ UNCHANGED <<thinkDepth, thinkClosed, hasVisibleAnswerText,
                                  waitingForVisibleAnswer>>
                \/ /\ ~StrayTag(t)
                   /\ Steer(t, GuardUsed)
                   /\ IF BreakReason(t) # "" THEN Return(BreakReason(t)) ELSE EmitAndYield(t)
    /\ UNCHANGED <<config, aborted>>

Abort ==
    /\ ~aborted
    /\ pc \in {"prefill", "yielded", "decoding"}
    /\ aborted' = TRUE
    /\ UNCHANGED <<config, pc, sampledId, steering, output, finishReason>>

\* A forward rejects; the consumer leaves its loop.
Throw ==
    /\ pc \in {"prefill", "decoding"}
    /\ pc' = "thrown"
    /\ UNCHANGED <<config, aborted, sampledId, steering, output, finishReason>>

Leave ==
    /\ pc = "yielded"
    /\ pc' = "left"
    /\ UNCHANGED <<config, aborted, sampledId, steering, output, finishReason>>

Next == Prefill \/ Resume \/ DecodeDone \/ Abort \/ Throw \/ Leave

Spec == Init /\ [][Next]_vars

-----------------------------------------------------------------------------
\* Properties

\* Position i of a text lies in a think block: one was opened before and not closed since.
InBlock(text, i) ==
    \E j \in 1 .. (i - 1) :
        text[j] = "open" /\ \A k \in (j + 1) .. (i - 1) : text[k] # "close"

\* Nothing the model wrote inside a think block is shown as its answer, whatever is
\* sampled, in every mode.  Where the loop knows the tags, what is written inside is
\* shown as reasoning and what is written outside as the answer, all of it.
ThoughtsApart ==
    \A i \in 1 .. Len(emitted) :
        /\ channel[i] = "visible" => ~InBlock(emitted, i) /\ emitted[i] \notin {"open", "close"}
        /\ Steered /\ emitted[i] \notin {"open", "close"} =>
              channel[i] = IF InBlock(emitted, i) THEN "thinking" ELSE "visible"

\* The loop came to its end by itself, with an end of turn or a stop token.
Stopped ==
    /\ finishReason \in {"eos", "stop-token"}
    /\ sampledId \in {"eos", "reentry"} \cup StopTokens

\* Position i is the end of a block, and nothing visible follows it.
Unanswered(i) ==
    emitted[i] = "close" /\ \A k \in (i + 1) .. Len(emitted) : emitted[k] \notin VisibleText

\* A model that thinks answers: unless the argmax is taken on the GPU, where nothing can be
\* masked, a Qwen chat never stops within a think block, but for a stop token of the
\* caller's, nor after one without an answer, and what follows a block begins with
\* whitespace.
\* Where an answer is required first, nothing stops before there is one.
ThinkingThenAnswer ==
    config.sampler # "greedy" =>
        /\ Steered /\ Stopped =>
              /\ InBlock(emitted, Len(emitted) + 1) => sampledId = "stop"
              /\ \A i \in 1 .. Len(emitted) : ~Unanswered(i)
        /\ Steered => \A i \in 1 .. (Len(emitted) - 1) :
              emitted[i] = "close" => emitted[i + 1] \in StartsWithWhitespace
        /\ AnswerFirst /\ Stopped => \E i \in 1 .. Len(emitted) : emitted[i] \in VisibleText

\* The reason at the end is the true one, and nothing comes after an end of turn.  A stop
\* token is looked for in decoded tokens only: the first token may be one and is followed.
EndIsTrue ==
    /\ finishReason = "eos" => sampledId = "eos"
    /\ finishReason = "max-tokens" => BudgetUsed
    /\ finishReason = "max-tokens" => sampledId # "eos"
    /\ finishReason = "aborted" => aborted
    /\ \A i \in 1 .. Len(emitted) :
          /\ emitted[i] = "eos" => i = 1 /\ Len(emitted) = 1
          /\ emitted[i] \in StopTokens => i = 1
=============================================================================
