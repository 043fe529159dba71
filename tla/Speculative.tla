------------------------------ MODULE Speculative ------------------------------
(***************************************************************************)
(* Speculative decoding (inference/speculative.ts): a drafter proposes K   *)
(* tokens, the target verifies them in one forward, acceptPrefix keeps a   *)
(* prefix and adds a token of the target's, and both KV caches are rolled  *)
(* back.  A cache is the sequence of its slots, each the token it was      *)
(* computed from and the position it was given.  Probabilities are left    *)
(* out: any token may be drafted, accepted, refused or sampled.  The       *)
(* generator awaits at each forward and hands over at each yield; an abort *)
(* may come at any time and the consumer may leave at a yield.             *)
(***************************************************************************)
EXTENDS Naturals, Sequences, FiniteSets

CONSTANTS
    Tokens,     \* token ids
    Stop,       \* eosTokenId and config.stopTokens
    Prompt,     \* promptTokenIds
    K,          \* draftLength
    MaxTokens   \* config.maxTokens

ASSUME SpeculativeAssumption ==
    /\ Stop \subseteq Tokens
    /\ Prompt \in Seq(Tokens) \ {<<>>}
    /\ K \in Nat /\ K >= 2
    /\ MaxTokens \in Nat \ {0}

VARIABLES
    pc,            \* where the generator is
    aborted,       \* signal.aborted
    target,        \* KV cache of the target
    drafter,       \* KV cache of the drafter
    pastLen,       \* positions decided so far
    draft,         \* draftTokens of the step
    yielding,      \* what acceptPrefix found and is still to be handed out
    emitted,       \* tokens handed out
    finishReason,  \* "" until the generator returns
    bonuses        \* history: full accepts that added a bonus token

vars == <<pc, aborted, target, drafter, pastLen, draft, yielding, emitted, finishReason, bonuses>>

Slot    == Tokens \X Nat
Reasons == {"stop-token", "max-tokens", "aborted"}
Verdict == [rest: Seq(Tokens), advance: 0 .. (K + 1), reason: Reasons \cup {""}]
Nothing == [rest |-> <<>>, advance |-> 0, reason |-> ""]

TypeOK ==
    /\ pc \in {"prefill", "first", "top", "draft", "emit", "finished", "left"}
    /\ aborted \in BOOLEAN
    /\ target \in Seq(Slot) /\ drafter \in Seq(Slot)
    /\ pastLen \in Nat
    /\ draft \in Seq(Tokens) /\ Len(draft) <= K
    /\ yielding \in Verdict
    /\ emitted \in Seq(Tokens)
    /\ finishReason \in Reasons \cup {""}
    /\ bonuses \in Nat

Init ==
    /\ pc = "prefill" /\ aborted = FALSE
    /\ target = <<>> /\ drafter = <<>> /\ pastLen = 0
    /\ draft = <<>> /\ yielding = Nothing
    /\ emitted = <<>> /\ finishReason = "" /\ bonuses = 0

-----------------------------------------------------------------------------
Last == emitted[Len(emitted)]

\* forward and forwardVerify: slots are added at the end of the cache, with the
\* positions the caller gives.
Forwarded(cache, tokens, pos) == cache \o [i \in 1 .. Len(tokens) |-> <<tokens[i], pos + i - 1>>]

\* truncateKVCache(min(cachedTokenCount, n))
Truncated(cache, n) == SubSeq(cache, 1, IF n < Len(cache) THEN n ELSE Len(cache))

Finishes(reason) == pc' = "finished" /\ finishReason' = reason

\* The prompt is in the target's cache; its first token is handed out.
Prefill ==
    /\ pc = "prefill"
    /\ target' = Forwarded(target, Prompt, 0)
    /\ \E t \in Tokens : emitted' = <<t>>
    /\ pc' = "first"
    /\ UNCHANGED <<aborted, drafter, pastLen, draft, yielding, finishReason, bonuses>>

DrafterPrefill ==
    /\ pc = "first"
    /\ drafter' = Forwarded(drafter, Prompt, 0)
    /\ pastLen' = Len(Prompt)
    /\ IF Last \in Stop THEN Finishes("stop-token")
                        ELSE pc' = "top" /\ UNCHANGED finishReason
    /\ UNCHANGED <<aborted, target, draft, yielding, emitted, bonuses>>

\* The top of the decode loop.
BeginStep ==
    /\ pc = "top"
    /\ IF aborted THEN Finishes("aborted")
       ELSE IF Len(emitted) >= MaxTokens THEN Finishes("max-tokens")
       ELSE pc' = "draft" /\ UNCHANGED finishReason
    /\ draft' = <<>>
    /\ UNCHANGED <<aborted, target, drafter, pastLen, yielding, emitted, bonuses>>

BurstOver == Len(draft) = K

\* One forward of the drafter.
DraftForward ==
    LET prev == IF draft = <<>> THEN Last ELSE draft[Len(draft)]
    IN  /\ pc = "draft" /\ ~aborted /\ ~BurstOver
        /\ drafter' = Forwarded(drafter, <<prev>>, pastLen + Len(draft))
        /\ \E t \in Tokens : draft' = Append(draft, t)
        /\ UNCHANGED <<pc, aborted, target, pastLen, yielding, emitted, finishReason, bonuses>>

\* Mutant: the drafter keeps what it drafted.
DraftKept == drafter

DraftUndone == Truncated(drafter, Len(target))

\* The abort is seen before a forward of the drafter or before the verify.
DraftAborted ==
    /\ pc = "draft" /\ aborted
    /\ Finishes("aborted")
    /\ drafter' = DraftUndone
    /\ UNCHANGED <<aborted, target, pastLen, draft, yielding, emitted, bonuses>>

-----------------------------------------------------------------------------
(* acceptPrefix: the results it may return for the draft, given the number *)
(* of tokens handed out before.                                            *)

\* Mutant: the budget is compared with > after a token.
ReasonLate(t, count) ==
    IF t \in Stop THEN "stop-token" ELSE IF count > MaxTokens THEN "max-tokens" ELSE ""

\* Why the loop ends with token t, the count-th handed out; "" if it goes on.
Reason(t, count) ==
    IF t \in Stop THEN "stop-token" ELSE IF count >= MaxTokens THEN "max-tokens" ELSE ""

\* The first n drafted tokens are accepted and none of them ends the loop.
Accepted(n, count) == \A k \in 1 .. n : Reason(draft[k], count + k) = ""

\* An accepted token ends the loop.
EndedByDraft(count) ==
    {[rest |-> SubSeq(draft, 1, n), advance |-> n, reason |-> Reason(draft[n], count + n)] :
        n \in {m \in 1 .. K : Accepted(m - 1, count) /\ Reason(draft[m], count + m) # ""}}

\* Mutant: a refusal is followed by no sample.
EndedByRefusal(count) ==
    {[rest |-> SubSeq(draft, 1, n), advance |-> n, reason |-> ""] :
        n \in {m \in 0 .. K : Accepted(m, count) /\ count + m + 1 <= MaxTokens}}

\* The token after the accepted ones: a residual sample or, after all K, the bonus.
EndedBySample(count) ==
    {[rest |-> Append(SubSeq(draft, 1, nt[1]), nt[2]), advance |-> nt[1] + 1,
      reason |-> Reason(nt[2], count + nt[1] + 1)] :
        nt \in {mt \in (0 .. K) \X Tokens :
                   Accepted(mt[1], count) /\ count + mt[1] + 1 <= MaxTokens}}

\* The budget is spent before the sample.
EndedUnsampled(count) ==
    {[rest |-> SubSeq(draft, 1, n), advance |-> n, reason |-> "max-tokens"] :
        n \in {m \in 0 .. K : Accepted(m, count) /\ count + m + 1 > MaxTokens}}

AcceptPrefix(count) == EndedByDraft(count) \cup EndedBySample(count) \cup EndedUnsampled(count)

\* Mutant: the drafted tokens are verified one place too early.
VerifyShifted == draft

\* The inputs of the verify: the last token handed out and all drafted but one.
VerifyInputs == <<Last>> \o SubSeq(draft, 1, K - 1)

Verify ==
    /\ pc = "draft" /\ ~aborted /\ BurstOver
    /\ target' = Forwarded(target, VerifyInputs, pastLen)
    /\ yielding' \in AcceptPrefix(Len(emitted))
    /\ bonuses' = IF yielding'.advance = K + 1 THEN bonuses + 1 ELSE bonuses
    /\ pc' = "emit"
    /\ UNCHANGED <<aborted, drafter, pastLen, draft, emitted, finishReason>>

EmitToken ==
    /\ pc = "emit" /\ yielding.rest # <<>>
    /\ emitted' = Append(emitted, Head(yielding.rest))
    /\ yielding' = [yielding EXCEPT !.rest = Tail(@)]
    /\ UNCHANGED <<pc, aborted, target, drafter, pastLen, draft, finishReason, bonuses>>

\* Mutant: the residual sample is counted among the cached tokens.
KeptOneMore(n) == n + 1

Kept(n) == n

Rollback ==
    LET past == pastLen + yielding.advance
    IN  /\ pc = "emit" /\ yielding.rest = <<>>
        /\ pastLen' = past
        /\ target' = Truncated(target, Kept(past))
        /\ drafter' = Truncated(drafter, Kept(past))
        /\ IF yielding.reason # "" THEN Finishes(yielding.reason)
           ELSE IF Len(emitted) >= MaxTokens THEN Finishes("max-tokens")
           ELSE pc' = "top" /\ UNCHANGED finishReason
        /\ yielding' = Nothing /\ draft' = <<>>
        /\ UNCHANGED <<aborted, emitted, bonuses>>

-----------------------------------------------------------------------------
Abort ==
    /\ ~aborted /\ pc \notin {"finished", "left"}
    /\ aborted' = TRUE
    /\ UNCHANGED <<pc, target, drafter, pastLen, draft, yielding, emitted, finishReason, bonuses>>

\* The consumer leaves at a yield instead of asking for the next token.
Leave ==
    /\ \/ pc = "first"
       \/ pc = "emit" /\ Len(yielding.rest) < yielding.advance
    /\ pc' = "left"
    /\ UNCHANGED <<aborted, target, drafter, pastLen, draft, yielding, emitted, finishReason, bonuses>>

\* A forward rejects: the generator throws.
ForwardFails ==
    /\ pc \in {"prefill", "first"} \/ (pc = "draft" /\ ~aborted)
    /\ pc' = "left"
    /\ UNCHANGED <<aborted, target, drafter, pastLen, draft, yielding, emitted, finishReason, bonuses>>

Ended == pc \in {"finished", "left"}

GeneratorStep ==
    Prefill \/ DrafterPrefill \/ BeginStep \/ DraftForward \/ DraftAborted \/ Verify \/ EmitToken \/ Rollback

Next ==
    \/ Prefill \/ DrafterPrefill \/ BeginStep \/ DraftForward \/ DraftAborted
    \/ Verify \/ EmitToken \/ Rollback
    \/ Abort \/ Leave \/ ForwardFails
    \/ Ended /\ UNCHANGED vars

Spec == Init /\ [][Next]_vars

\* A forward settles and a consumer asks for the next token or leaves.
FairSpec == Spec /\ WF_vars(GeneratorStep \/ Leave \/ ForwardFails)

-----------------------------------------------------------------------------
\* Between steps, and when the generator has returned, the drafter's cache is
\* the target's, slot by slot: whatever was accepted, refused or aborted.
AtRest      == pc \in {"top", "finished"}
CachesAgree == AtRest => drafter = target

Own == Prompt \o emitted

\* Until a bonus has been added the target's cache (and the drafter's, by CachesAgree)
\* holds between steps the prompt and the tokens handed out but the last, which has yet
\* to be forwarded, each at its position: no refused token stays, no accepted one is
\* missing.  After a bonus neither is true, and nothing is said.
CacheIsOwnText ==
    AtRest /\ bonuses = 0 => target = [i \in 1 .. Len(Own) - 1 |-> <<Own[i], i - 1>>]

\* The generator implements the promise of a token stream: nothing follows a stop
\* token, the budget is kept across the steps, and the finish reason is the true one.
Stream ==
    INSTANCE TokenStream WITH text <- emitted, ending <- finishReason,
                              Vocabulary <- Tokens, Stops <- Stop, Limit <- MaxTokens
ImplementsTokenStream == Stream!Spec

\* The generator ends, although a step may hand out a single token.
Terminates == <>Ended
=============================================================================
