-------------------------- MODULE ModelSessionProofs --------------------------
(***************************************************************************)
(* Theorems about ModelSession, for any calls, lists of messages and       *)
(* bounds.  A chat that has had the cache to itself finds the session and  *)
(* the cache as its own steps left them; the rest follows from what        *)
(* prepareChatPrompt compared when it began.                               *)
(***************************************************************************)
EXTENDS ModelSession, SequenceTheorems, FiniteSetTheorems, TLAPS

USE SessionAssumption

-----------------------------------------------------------------------------
(* Sequences and the operators of the module *)

LEMMA SubSeqPieces ==
    ASSUME NEW S, NEW s \in Seq(S), NEW m \in Nat \ {0}, NEW n \in 0 .. Len(s)
    PROVE  /\ SubSeq(s, m, n) \in Seq(S)
           /\ Len(SubSeq(s, m, n)) = IF m <= n THEN n - m + 1 ELSE 0
           /\ ToSet(SubSeq(s, m, n)) \subseteq ToSet(s)
<1>1. \A i \in m .. n : s[i] \in S
  OBVIOUS
<1>2. /\ SubSeq(s, m, n) \in Seq(S)
      /\ Len(SubSeq(s, m, n)) = IF m <= n THEN n - m + 1 ELSE 0
      /\ \A i \in 1 .. Len(SubSeq(s, m, n)) : SubSeq(s, m, n)[i] = s[m + i - 1]
  BY <1>1, SubSeqProperties
<1>3. \A i \in 1 .. Len(SubSeq(s, m, n)) : m + i - 1 \in 1 .. Len(s)
  BY <1>2
<1>4. QED
  BY <1>2, <1>3 DEF ToSet

LEMMA ConcatSet ==
    ASSUME NEW S, NEW s \in Seq(S), NEW t \in Seq(S)
    PROVE  /\ s \o t \in Seq(S)
           /\ Len(s \o t) = Len(s) + Len(t)
           /\ ToSet(s \o t) = ToSet(s) \cup ToSet(t)
<1>1. /\ s \o t \in Seq(S)
      /\ Len(s \o t) = Len(s) + Len(t)
      /\ \A i \in 1 .. Len(s) + Len(t) :
            (s \o t)[i] = IF i <= Len(s) THEN s[i] ELSE t[i - Len(s)]
  BY ConcatProperties
<1>2. ASSUME NEW x \in ToSet(s \o t) PROVE x \in ToSet(s) \cup ToSet(t)
  <2>1. PICK i \in 1 .. Len(s) + Len(t) : x = (s \o t)[i]
    BY <1>1 DEF ToSet
  <2>2. CASE i <= Len(s)
    BY <1>1, <2>1, <2>2 DEF ToSet
  <2>3. CASE i > Len(s)
    <3>1. i - Len(s) \in 1 .. Len(t) /\ x = t[i - Len(s)]
      BY <1>1, <2>1, <2>3
    <3>2. QED
      BY <3>1 DEF ToSet
  <2>4. QED
    BY <2>1, <2>2, <2>3
<1>3. ASSUME NEW x \in ToSet(s) PROVE x \in ToSet(s \o t)
  <2>1. PICK i \in 1 .. Len(s) : x = s[i]
    BY DEF ToSet
  <2>2. i \in 1 .. Len(s) + Len(t) /\ x = (s \o t)[i]
    BY <1>1, <2>1
  <2>3. QED
    BY <1>1, <2>2 DEF ToSet
<1>4. ASSUME NEW x \in ToSet(t) PROVE x \in ToSet(s \o t)
  <2>1. PICK i \in 1 .. Len(t) : x = t[i]
    BY DEF ToSet
  <2>2. Len(s) + i \in 1 .. Len(s) + Len(t) /\ x = (s \o t)[Len(s) + i]
    BY <1>1, <2>1
  <2>3. QED
    BY <1>1, <2>2 DEF ToSet
<1>5. QED
  BY <1>1, <1>2, <1>3, <1>4

\* What a forward leaves in the cache; nothing is lost when nobody has cut it.
LEMMA WrittenProperties ==
    ASSUME cache \in Seq(Pieces), NEW past \in Nat, NEW pieces \in Seq(Pieces)
    PROVE  /\ Written(past, pieces) \in Seq(Pieces)
           /\ Len(Written(past, pieces)) = past + Len(pieces)
           /\ ToSet(Written(past, pieces)) \subseteq ToSet(cache) \cup {Foreign} \cup ToSet(pieces)
           /\ ToSet(pieces) \subseteq ToSet(Written(past, pieces))
           /\ past = nCached =>
                ToSet(Written(past, pieces)) = ToSet(cache) \cup ToSet(pieces)
<1> DEFINE kept == [i \in 1 .. past |-> IF i <= nCached THEN cache[i] ELSE Foreign]
<1>1. \A i \in 1 .. past : kept[i] \in ToSet(cache) \cup {Foreign}
  BY DEF nCached, ToSet
<1>2. ToSet(cache) \subseteq Pieces /\ Foreign \in Pieces
  BY DEF ToSet, Pieces
<1>3. kept \in Seq(Pieces) /\ Len(kept) = past
  BY <1>1, <1>2
<1>4. ToSet(kept) \subseteq ToSet(cache) \cup {Foreign}
  BY <1>1 DEF ToSet
<1>5. past = nCached => ToSet(kept) = ToSet(cache)
  BY DEF nCached, ToSet
<1> HIDE DEF kept
<1>6. Written(past, pieces) = kept \o pieces
  BY DEF Written, kept
<1>7. /\ kept \o pieces \in Seq(Pieces)
      /\ Len(kept \o pieces) = Len(kept) + Len(pieces)
      /\ ToSet(kept \o pieces) = ToSet(kept) \cup ToSet(pieces)
  BY <1>3, ConcatSet
<1>8. QED
  BY <1>3, <1>4, <1>5, <1>6, <1>7

LEMMA IdleTyped == Idle \in Invocation
BY DEF Idle, Invocation

\* The pieces that a forward of call c writes.
Pushed(c, pieces) ==
    IF Lone(c) THEN pieces ELSE [i \in DOMAIN pieces |-> Foreign]

LEMMA PushedTyped ==
    ASSUME NEW c \in Calls, NEW pieces \in Seq(Pieces)
    PROVE  /\ Pushed(c, pieces) \in Seq(Pieces)
           /\ Len(Pushed(c, pieces)) = Len(pieces)
           /\ ToSet(Pushed(c, pieces))
                \subseteq IF Lone(c) THEN ToSet(pieces) ELSE {Foreign}
           /\ ~Lone(c) /\ pieces # <<>> => Foreign \in ToSet(Pushed(c, pieces))
<1> DEFINE other == [i \in 1 .. Len(pieces) |-> Foreign]
<1>1. other \in Seq(Pieces) /\ Len(other) = Len(pieces) /\ DOMAIN other = 1 .. Len(pieces)
  BY DEF Pieces
<1>2. ToSet(other) \subseteq {Foreign}
  BY DEF ToSet
<1>3. pieces # <<>> => 1 \in 1 .. Len(pieces)
  OBVIOUS
<1>4. pieces # <<>> => Foreign \in ToSet(other)
  BY <1>3 DEF ToSet
<1>5. Pushed(c, pieces) = IF Lone(c) THEN pieces ELSE other
  BY DEF Pushed
<1> HIDE DEF other
<1>6. QED
  BY <1>1, <1>2, <1>4, <1>5

\* What prepareChatPrompt decides.
LEMMA PreparedProperties ==
    ASSUME TypeOK, NEW list \in Chats
    PROVE  /\ list \in Seq(Messages) /\ list # <<>>
           /\ ToForward(list) \in Seq(Pieces) /\ ToForward(list) # <<>>
           /\ ToSet(ToForward(list)) \subseteq ToSet(list)
           /\ Prepared(list) \in Session
           /\ Prepared(list).messages = list
           /\ Prepared(list).position = Len(CacheAfterPrepare(list))
           /\ CacheAfterPrepare(list) \in Seq(Pieces)
           /\ FastPath(list) => /\ ToSet(session.messages) \subseteq ToSet(list)
                                /\ Prepared(list).position = session.position
                                /\ Prepared(list).history = session.history
           /\ ~FastPath(list) => Prepared(list).position = 0 /\ Prepared(list).history = 0
<1>1. list \in Seq(Messages) /\ list # <<>>
  OBVIOUS
<1>2. /\ session.position \in Nat /\ session.history \in Nat
      /\ session.messages \in Seq(Messages) /\ cache \in Seq(Pieces)
  BY DEF TypeOK, Session
<1>3. list \in Seq(Pieces)
  BY <1>1 DEF Pieces
<1>4. CASE FastPath(list)
  <2>1. Len(session.messages) \in Nat /\ Len(list) > Len(session.messages)
    BY <1>2, <1>4 DEF FastPath
  <2>2. ToForward(list) = SubSeq(list, Len(session.messages) + 1, Len(list))
    BY <1>4 DEF ToForward, Delta
  <2>3. /\ ToForward(list) \in Seq(Pieces)
        /\ Len(ToForward(list)) = Len(list) - Len(session.messages)
        /\ ToSet(ToForward(list)) \subseteq ToSet(list)
    <3> DEFINE m == Len(session.messages) + 1
               delta == SubSeq(list, m, Len(list))
    <3>1. m \in Nat \ {0} /\ Len(list) \in 0 .. Len(list) /\ m <= Len(list)
      BY <1>3, <2>1
    <3>2. /\ delta \in Seq(Pieces) /\ ToSet(delta) \subseteq ToSet(list)
          /\ Len(delta) = IF m <= Len(list) THEN Len(list) - m + 1 ELSE 0
      <4> HIDE DEF m
      <4>1. QED
        BY <1>3, <3>1, SubSeqPieces
    <3>3. Len(delta) = Len(list) - Len(session.messages)
      <4> HIDE DEF delta
      <4>1. QED
        BY <1>3, <2>1, <3>1, <3>2
    <3>4. QED
      BY <2>2, <3>2, <3>3
  <2>4. Prepared(list) = [session EXCEPT !.messages = list]
    BY <1>4 DEF Prepared
  <2>5. /\ Prepared(list) \in Session /\ Prepared(list).messages = list
        /\ Prepared(list).position = session.position
        /\ Prepared(list).history = session.history
    BY <1>1, <2>4 DEF TypeOK, Session
  <2>6. CacheAfterPrepare(list) = cache /\ session.position = Len(cache)
    BY <1>4 DEF CacheAfterPrepare, FastPath, nCached
  <2>7. ToSet(session.messages) \subseteq ToSet(list)
    <3>1. /\ Len(session.messages) <= Len(list)
          /\ SubSeq(session.messages, 1, Len(session.messages))
               = SubSeq(list, 1, Len(session.messages))
      BY <1>4 DEF FastPath, LeadingMessagesMatch, IsPrefix
    <3>2. SubSeq(session.messages, 1, Len(session.messages)) = session.messages
      BY <1>2
    <3>3. ToSet(SubSeq(list, 1, Len(session.messages))) \subseteq ToSet(list)
      BY <1>1, <2>1, SubSeqPieces
    <3>4. QED
      BY <3>1, <3>2, <3>3
  <2>8. QED
    BY <1>1, <1>2, <1>4, <2>1, <2>3, <2>5, <2>6, <2>7
<1>5. CASE ~FastPath(list)
  <2>1. ToForward(list) = list /\ CacheAfterPrepare(list) = <<>>
    BY <1>5 DEF ToForward, CacheAfterPrepare
  <2>2. Prepared(list) = [position |-> 0, history |-> 0, messages |-> list]
    BY <1>5 DEF Prepared, Fresh
  <2>3. Prepared(list) \in Session
    BY <1>1, <2>2 DEF Session
  <2>4. QED
    BY <1>1, <1>3, <1>5, <2>1, <2>2, <2>3
<1>6. QED
  BY <1>4, <1>5

\* A call that has been interrupted goes on as it was, but is not alone any more.
LEMMA InterruptedProperties ==
    ASSUME TypeOK
    PROVE  /\ Interrupted \in [Calls -> Invocation]
           /\ \A d \in Calls : /\ Interrupted[d].alone = FALSE
                                /\ Interrupted[d].phase = call[d].phase
                                /\ Interrupted[d].todo = call[d].todo
                                /\ Interrupted[d].size = call[d].size
                                /\ Interrupted[d].own = call[d].own
<1>1. ASSUME NEW d \in Calls
      PROVE  /\ Interrupted[d] \in Invocation
             /\ Interrupted[d].alone = FALSE
             /\ Interrupted[d].phase = call[d].phase
             /\ Interrupted[d].todo = call[d].todo
             /\ Interrupted[d].size = call[d].size
             /\ Interrupted[d].own = call[d].own
  <2> DEFINE was == call[d]
             is == Interrupted[d]
  <2>1. is = [was EXCEPT !.alone = FALSE]
    BY DEF Interrupted
  <2>2. was \in Invocation
    BY DEF TypeOK
  <2> HIDE DEF was, is
  <2>3. /\ is \in Invocation /\ is.alone = FALSE /\ is.phase = was.phase
        /\ is.todo = was.todo /\ is.size = was.size /\ is.own = was.own
    BY <2>1, <2>2 DEF Invocation
  <2>4. QED
    BY <2>3 DEF was, is
<1>2. Interrupted = [d \in Calls |-> Interrupted[d]]
  BY DEF Interrupted
<1>3. QED
  BY <1>1, <1>2

\* A call that starts is alone if nobody else is under way, and interrupts all.
LEMMA StartedProperties ==
    ASSUME TypeOK, NEW c \in Calls, NEW list \in Seq(Messages), NEW pieces \in Seq(Pieces),
           NEW pos \in Nat, NEW n \in Nat, NEW aborted \in BOOLEAN,
           Started(c, list, pieces, pos, n, aborted)
    PROVE  /\ call' \in [Calls -> Invocation]
           /\ \A d \in Calls \ {c} : call'[d] = Interrupted[d]
           /\ aborted => call'[c] = Idle
           /\ ~aborted => call'[c] =
                [phase |-> "prefill", list |-> list, own |-> (list = <<>>), todo |-> pieces,
                 size |-> Len(pieces), at |-> pos, past |-> n, generated |-> 0,
                 aborted |-> FALSE, alone |-> \A d \in Calls : ~Active(d)]
<1> DEFINE own == (list = <<>>)
           alone == \A d \in Calls : ~Active(d)
           begun == [phase |-> "prefill", list |-> list, own |-> own, todo |-> pieces,
                     size |-> Len(pieces), at |-> pos, past |-> n, generated |-> 0,
                     aborted |-> FALSE, alone |-> alone]
<1>1. call' = [Interrupted EXCEPT ![c] = IF aborted THEN Idle ELSE begun]
  BY DEF Started
<1>2. own \in BOOLEAN /\ alone \in BOOLEAN
  OBVIOUS
<1> HIDE DEF own, alone
<1>3. begun \in Invocation
  BY <1>2 DEF Invocation
<1> HIDE DEF begun
<1>4. Interrupted \in [Calls -> Invocation]
  BY InterruptedProperties
<1>5. \A d \in Calls \ {c} : call'[d] = Interrupted[d]
  BY <1>1, <1>4
<1>6. call' \in [Calls -> Invocation]
  BY <1>1, <1>3, <1>4, IdleTyped
<1>7. call'[c] = IF aborted THEN Idle ELSE begun
  BY <1>1, <1>4
<1>8. QED
  BY <1>5, <1>6, <1>7 DEF begun, own, alone

\* A forward that ends, and what it does to the cache.
LEMMA ForwardedProperties ==
    ASSUME TypeOK, NEW c \in Calls, NEW pieces \in Seq(Pieces), Forwarded(c, pieces)
    PROVE  /\ cache' \in Seq(Pieces)
           /\ Len(cache') = call[c].past + Len(pieces)
           /\ ToSet(cache') \subseteq ToSet(cache) \cup {Foreign}
                                   \cup IF Lone(c) THEN ToSet(pieces) ELSE {}
           /\ ~Lone(c) /\ pieces # <<>> => Foreign \in ToSet(cache')
           /\ Lone(c) /\ call[c].past = nCached =>
                ToSet(cache') = ToSet(cache) \cup ToSet(pieces)
<1> DEFINE pushed == Pushed(c, pieces)
<1>1. cache' = Written(call[c].past, pushed)
  BY DEF Forwarded, Pushed
<1>2. call[c].past \in Nat /\ cache \in Seq(Pieces)
  BY DEF TypeOK, Invocation
<1>3. /\ pushed \in Seq(Pieces)
      /\ Len(pushed) = Len(pieces)
      /\ ToSet(pushed) \subseteq IF Lone(c) THEN ToSet(pieces) ELSE {Foreign}
      /\ ~Lone(c) /\ pieces # <<>> => Foreign \in ToSet(pushed)
      /\ Lone(c) => pushed = pieces
  BY PushedTyped DEF Pushed
<1> HIDE DEF pushed
<1>4. /\ Written(call[c].past, pushed) \in Seq(Pieces)
      /\ Len(Written(call[c].past, pushed)) = call[c].past + Len(pushed)
      /\ ToSet(Written(call[c].past, pushed))
           \subseteq ToSet(cache) \cup {Foreign} \cup ToSet(pushed)
      /\ ToSet(pushed) \subseteq ToSet(Written(call[c].past, pushed))
      /\ call[c].past = nCached =>
           ToSet(Written(call[c].past, pushed)) = ToSet(cache) \cup ToSet(pushed)
  BY <1>2, <1>3, WrittenProperties
<1>5. QED
  BY <1>1, <1>3, <1>4

LEMMA SessionMovedProperties ==
    ASSUME TypeOK, NEW c \in Calls, NEW positions \in Nat, NEW tokens \in Nat,
           SessionMoved(c, positions, tokens)
    PROVE  /\ session' \in Session
           /\ session'.messages = session.messages
           /\ call[c].own => session' = session
           /\ ~call[c].own => /\ session'.position = session.position + positions
                              /\ session'.history = session.history + tokens
<1>1. session \in Session /\ call[c].own \in BOOLEAN
  BY DEF TypeOK, Invocation
<1>2. CASE call[c].own
  BY <1>1, <1>2 DEF SessionMoved
<1>3. CASE ~call[c].own
  <2> DEFINE p == session.position + positions
             h == session.history + tokens
  <2>1. session' = [session EXCEPT !.position = p, !.history = h]
    BY <1>3 DEF SessionMoved
  <2>2. p \in Nat /\ h \in Nat
    BY <1>1 DEF Session
  <2> HIDE DEF p, h
  <2>3. /\ session' \in Session /\ session'.messages = session.messages
        /\ session'.position = p /\ session'.history = h
    BY <1>1, <2>1, <2>2 DEF Session
  <2>4. QED
    BY <1>3, <2>3 DEF p, h
<1>4. QED
  BY <1>1, <1>2, <1>3

\* The outcome of a forward: the call is over, or it has yielded one token more.
LEMMA SampledProperties ==
    ASSUME TypeOK, NEW c \in Calls, Sampled(c)
    PROVE  /\ call' \in [Calls -> Invocation]
           /\ \A d \in Calls \ {c} : call'[d] = call[d]
           /\ \/ call'[c] = Idle
              \/ /\ call'[c].phase = "yielded"
                 /\ call'[c].list = call[c].list
                 /\ call'[c].own = call[c].own
                 /\ call'[c].alone = call[c].alone
<1>1. call[c] \in Invocation
  BY DEF TypeOK
<1>2. CASE call' = [call EXCEPT ![c] = Idle]
  BY <1>2, IdleTyped DEF TypeOK
<1>3. CASE call' = [call EXCEPT ![c] = Yielded(c)]
  <2>1. /\ Yielded(c) \in Invocation /\ Yielded(c).phase = "yielded"
        /\ Yielded(c).list = call[c].list /\ Yielded(c).own = call[c].own
        /\ Yielded(c).alone = call[c].alone
    BY <1>1 DEF Yielded, Invocation
  <2>2. QED
    BY <1>3, <2>1 DEF TypeOK
<1>4. QED
  BY <1>2, <1>3 DEF Sampled

-----------------------------------------------------------------------------
(* Types, and the lone chats *)

\* A call waits for a forward of something.
TodoInv == \A c \in Calls : Waiting(c) => call[c].todo # <<>>

\* Nobody else is under way during a lone chat; the session is the one it
\* prepared, and the cache has grown with the session's position.
LonePrefill(c) ==
    /\ call[c].past = nCached
    /\ call[c].at = nCached
    /\ session.position + call[c].size = call[c].at + Len(call[c].todo)
    /\ ToSet(call[c].todo) \subseteq ToSet(call[c].list)

LoneDecode(c) ==
    /\ session.position = nCached
    /\ call[c].past = nCached
    /\ call[c].at = nCached
    /\ call[c].todo = <<Reply>>

LoneInv ==
    \A c \in Calls :
        Lone(c) =>
            /\ \A d \in Calls : Active(d) => d = c
            /\ ~call[c].own
            /\ session.messages = call[c].list
            /\ call[c].phase = "prefill" => LonePrefill(c)
            /\ call[c].phase = "yielded" => session.position = nCached
            /\ call[c].phase = "decode" => LoneDecode(c)

\* What lone chats wrote belongs to the messages that the session records.
KnownInv == ToSet(cache) \subseteq ToSet(session.messages) \cup {Reply, Foreign}

Inv == TypeOK /\ TodoInv /\ LoneInv /\ KnownInv

LEMMA InitInv == Init => Inv
<1> SUFFICES ASSUME Init PROVE Inv
  OBVIOUS
<1>1. TypeOK
  <2>1. Fresh \in Session
    BY DEF Fresh, Session
  <2>2. <<>> \in Seq(Pieces)
    OBVIOUS
  <2>3. QED
    BY <2>1, <2>2, IdleTyped DEF Init, TypeOK
<1>2. \A c \in Calls : ~Active(c)
  BY DEF Init, Idle, Active, Waiting
<1>3. TodoInv /\ LoneInv
  BY <1>2 DEF TodoInv, LoneInv, Lone, Active
<1>4. KnownInv
  BY DEF Init, KnownInv, ToSet
<1>5. QED
  BY <1>1, <1>3, <1>4 DEF Inv

\* A step of a call under way: no other call is lone, and if this one is, it was.
LEMMA OwnStep ==
    ASSUME LoneInv, NEW c \in Calls, Active(c),
           \A d \in Calls \ {c} : call'[d] = call[d],
           Active(c)' => call'[c].list = call[c].list /\ call'[c].alone = call[c].alone
    PROVE  /\ \A d \in Calls : Lone(d)' => d = c
           /\ Lone(c)' => Lone(c) /\ \A d \in Calls : Active(d)' => d = c
<1>1. ASSUME NEW d \in Calls \ {c} PROVE (Lone(d)' <=> Lone(d)) /\ (Active(d)' <=> Active(d))
  BY DEF Lone, Active, Waiting
<1>2. ASSUME NEW d \in Calls, Lone(d)', d # c PROVE FALSE
  BY <1>1, <1>2 DEF LoneInv
<1>3. ASSUME Lone(c)' PROVE Lone(c)
  BY <1>3 DEF Lone
<1>4. ASSUME Lone(c)', NEW d \in Calls, Active(d)', d # c PROVE FALSE
  BY <1>1, <1>3, <1>4 DEF LoneInv
<1>5. QED
  BY <1>2, <1>3, <1>4

LEMMA IdleInactive ==
    ASSUME NEW c \in Calls, call'[c] = Idle
    PROVE  ~Active(c)'
BY DEF Idle, Active, Waiting

LEMMA BeginChatInv ==
    ASSUME Inv, NEW c \in Calls, NEW list \in Chats, NEW aborted \in BOOLEAN,
           BeginChat(c, list, aborted)
    PROVE  Inv'
<1> DEFINE pieces == ToForward(list)
           pos == Prepared(list).position
           n == Len(CacheAfterPrepare(list))
<1>1. TypeOK /\ skipped \in BOOLEAN
  BY DEF Inv, TypeOK
<1>2. /\ list \in Seq(Messages) /\ list # <<>>
      /\ pieces \in Seq(Pieces) /\ pieces # <<>>
      /\ ToSet(pieces) \subseteq ToSet(list)
      /\ Prepared(list) \in Session
      /\ Prepared(list).messages = list
      /\ pos = n
      /\ CacheAfterPrepare(list) \in Seq(Pieces)
  BY <1>1, PreparedProperties
<1>3. pos \in Nat /\ n \in Nat
  BY <1>2
<1>4. Started(c, list, pieces, pos, n, aborted)
  BY DEF BeginChat
<1>5. /\ session' = Prepared(list) /\ session'.position = pos
      /\ cache' = CacheAfterPrepare(list) /\ nCached' = n
  BY DEF BeginChat, nCached
<1> HIDE DEF pieces, pos, n
<1>6. /\ call' \in [Calls -> Invocation]
      /\ \A d \in Calls \ {c} : call'[d] = Interrupted[d]
      /\ aborted => call'[c] = Idle
      /\ ~aborted => call'[c] =
           [phase |-> "prefill", list |-> list, own |-> (list = <<>>), todo |-> pieces,
            size |-> Len(pieces), at |-> pos, past |-> n, generated |-> 0,
            aborted |-> FALSE, alone |-> \A d \in Calls : ~Active(d)]
  BY <1>1, <1>2, <1>3, <1>4, StartedProperties
<1>7. \A d \in Calls \ {c} :
         /\ call'[d].alone = FALSE /\ call'[d].phase = call[d].phase
         /\ call'[d].todo = call[d].todo
  BY <1>1, <1>6, InterruptedProperties
<1>8. TypeOK'
  BY <1>1, <1>2, <1>5, <1>6 DEF TypeOK, BeginChat
<1>9. TodoInv'
  <2>1. ASSUME NEW d \in Calls, Waiting(d)', d # c PROVE call'[d].todo # <<>>
    BY <1>7, <2>1 DEF Inv, TodoInv, Waiting
  <2>2. ASSUME Waiting(c)' PROVE call'[c].todo # <<>>
    BY <1>2, <1>6, <2>2, IdleInactive DEF Active, Waiting
  <2>3. QED
    BY <2>1, <2>2 DEF TodoInv
<1>10. LoneInv'
  <2>1. SUFFICES ASSUME NEW d \in Calls, Lone(d)'
                 PROVE  /\ \A e \in Calls : Active(e)' => e = d
                        /\ ~call'[d].own
                        /\ session'.messages = call'[d].list
                        /\ call'[d].phase = "prefill" /\ LonePrefill(d)'
    BY DEF LoneInv
  <2>2. d = c
    BY <1>7, <2>1 DEF Lone
  <2>3. ~aborted /\ \A e \in Calls : ~Active(e)
    BY <1>6, <2>1, <2>2, IdleInactive DEF Lone
  <2>4. \A e \in Calls : Active(e)' => e = d
    BY <1>7, <2>2, <2>3 DEF Active, Waiting
  <2>5. LonePrefill(c)'
    <3>1. /\ call'[c].past = n /\ call'[c].at = pos /\ call'[c].size = Len(pieces)
          /\ call'[c].todo = pieces /\ call'[c].list = list
      BY <1>6, <2>3
    <3>2. QED
      BY <1>2, <1>5, <3>1 DEF LonePrefill
  <2>6. QED
    BY <1>2, <1>5, <1>6, <2>2, <2>3, <2>4, <2>5
<1>11. KnownInv'
  <2>1. CASE FastPath(list)
    BY <1>1, <1>2, <1>5, <2>1, PreparedProperties DEF Inv, KnownInv, CacheAfterPrepare
  <2>2. CASE ~FastPath(list)
    BY <1>5, <2>2 DEF KnownInv, CacheAfterPrepare, ToSet
  <2>3. QED
    BY <2>1, <2>2
<1>12. QED
  BY <1>8, <1>9, <1>10, <1>11 DEF Inv

LEMMA BeginPromptInv ==
    ASSUME Inv, NEW c \in Calls, BeginPrompt(c)
    PROVE  Inv'
<1> DEFINE pieces == <<Foreign>>
           list == <<>>
           pos == 0
           n == nCached
           aborted == FALSE
<1>1. TypeOK
  BY DEF Inv
<1>2. /\ pieces \in Seq(Pieces) /\ pieces # <<>> /\ n \in Nat
      /\ list \in Seq(Messages) /\ pos \in Nat /\ aborted \in BOOLEAN
  BY <1>1 DEF Pieces, TypeOK, nCached
<1>3. list = <<>> /\ ~aborted
  OBVIOUS
<1>4. Started(c, list, pieces, pos, n, aborted)
  BY DEF BeginPrompt
<1>5. UNCHANGED <<session, cache, skipped>>
  BY DEF BeginPrompt
<1> HIDE DEF pieces, list, pos, n, aborted
<1>6. /\ call' \in [Calls -> Invocation]
      /\ \A d \in Calls \ {c} : call'[d] = Interrupted[d]
      /\ ~aborted => call'[c] =
           [phase |-> "prefill", list |-> list, own |-> (list = <<>>), todo |-> pieces,
            size |-> Len(pieces), at |-> pos, past |-> n, generated |-> 0,
            aborted |-> FALSE, alone |-> \A d \in Calls : ~Active(d)]
  BY <1>1, <1>2, <1>4, StartedProperties
<1>7. /\ \A d \in Calls \ {c} :
            /\ call'[d].alone = FALSE /\ call'[d].phase = call[d].phase
            /\ call'[d].todo = call[d].todo
      /\ call'[c].list = <<>> /\ call'[c].todo = pieces
  <2>1. \A d \in Calls \ {c} :
            /\ call'[d].alone = FALSE /\ call'[d].phase = call[d].phase
            /\ call'[d].todo = call[d].todo
    BY <1>1, <1>6, InterruptedProperties
  <2>2. call'[c].list = list /\ call'[c].todo = pieces
    BY <1>6, <1>3
  <2>3. QED
    BY <1>3, <2>1, <2>2
<1>8. TypeOK'
  BY <1>1, <1>5, <1>6 DEF TypeOK
<1>9. TodoInv'
  BY <1>2, <1>7 DEF Inv, TodoInv, Waiting
<1>10. \A d \in Calls : ~Lone(d)'
  BY <1>7 DEF Lone
<1>11. LoneInv' /\ KnownInv'
  BY <1>5, <1>10 DEF LoneInv, Inv, KnownInv
<1>12. QED
  BY <1>8, <1>9, <1>11 DEF Inv

\* The steps in which a call is over without touching anything else.
LEMMA EndInv ==
    ASSUME Inv, NEW c \in Calls, Active(c), call' = [call EXCEPT ![c] = Idle],
           session' \in Session, session'.messages = session.messages, cache' = cache,
           skipped' \in BOOLEAN
    PROVE  Inv'
<1>1. TypeOK /\ LoneInv
  BY DEF Inv
<1>2. call'[c] = Idle /\ \A d \in Calls \ {c} : call'[d] = call[d]
  BY <1>1 DEF TypeOK
<1>3. ~Active(c)'
  BY <1>2, IdleInactive
<1>4. TypeOK'
  BY <1>1, IdleTyped DEF TypeOK
<1>5. TodoInv'
  BY <1>2, <1>3 DEF Inv, TodoInv, Active, Waiting
<1>6. \A d \in Calls : ~Lone(d)'
  BY <1>1, <1>2, <1>3, OwnStep DEF Lone
<1>7. LoneInv' /\ KnownInv'
  BY <1>6 DEF LoneInv, Inv, KnownInv
<1>8. QED
  BY <1>4, <1>5, <1>7 DEF Inv

LEMMA PrefillTileInv ==
    ASSUME Inv, NEW c \in Calls, PrefillTile(c)
    PROVE  Inv'
<1> DEFINE todo == call[c].todo
           tile == Tile(c)
           rest == SubSeq(todo, TileSize + 1, Len(todo))
           at == call[c].at + TileSize
           past == call[c].past + TileSize
           next == AtNextTile(c)
<1>1. TypeOK /\ LoneInv /\ Active(c) /\ call[c].phase = "prefill"
  BY DEF Inv, PrefillTile, Active, Waiting
<1>2. todo \in Seq(Pieces) /\ call[c] \in Invocation /\ Len(todo) > TileSize
  BY <1>1 DEF TypeOK, Invocation, PrefillTile
<1>3. /\ tile \in Seq(Pieces) /\ Len(tile) = TileSize /\ ToSet(tile) \subseteq ToSet(todo)
      /\ tile # <<>>
  <2>1. 1 \in Nat \ {0} /\ TileSize \in 0 .. Len(todo)
    BY <1>2
  <2>2. /\ tile \in Seq(Pieces) /\ ToSet(tile) \subseteq ToSet(todo)
        /\ Len(tile) = IF 1 <= TileSize THEN TileSize - 1 + 1 ELSE 0
    BY <1>2, <2>1, SubSeqPieces DEF Tile
  <2> HIDE DEF tile
  <2>3. QED
    BY <2>2
<1>4. /\ rest \in Seq(Pieces) /\ Len(rest) = Len(todo) - TileSize
      /\ ToSet(rest) \subseteq ToSet(todo) /\ rest # <<>>
  <2> DEFINE m == TileSize + 1
  <2>1. m \in Nat \ {0} /\ Len(todo) \in 0 .. Len(todo) /\ m <= Len(todo)
    BY <1>2
  <2>2. /\ SubSeq(todo, m, Len(todo)) \in Seq(Pieces)
        /\ ToSet(SubSeq(todo, m, Len(todo))) \subseteq ToSet(todo)
        /\ Len(SubSeq(todo, m, Len(todo)))
             = IF m <= Len(todo) THEN Len(todo) - m + 1 ELSE 0
    <3> HIDE DEF m
    <3>1. QED
      BY <1>2, <2>1, SubSeqPieces
  <2>3. Len(todo) \in Nat /\ Len(todo) - m + 1 = Len(todo) - TileSize
    BY <1>2
  <2>4. rest = SubSeq(todo, m, Len(todo))
    OBVIOUS
  <2> HIDE DEF rest, m
  <2>5. rest \in Seq(Pieces) /\ ToSet(rest) \subseteq ToSet(todo)
    BY <2>2, <2>4
  <2>6. Len(rest) = Len(todo) - TileSize
    BY <2>1, <2>2, <2>3, <2>4
  <2>7. QED
    BY <1>2, <2>5, <2>6
<1>5. /\ Forwarded(c, tile) /\ UNCHANGED <<session, skipped>>
      /\ call' = [call EXCEPT ![c] = next]
  <2>1. Forwarded(c, tile) /\ UNCHANGED <<session, skipped>>
    BY DEF PrefillTile
  <2>2. call' = [call EXCEPT ![c] = next]
    BY DEF PrefillTile
  <2>3. QED
    BY <2>1, <2>2
<1> HIDE DEF tile, rest
<1>6. /\ next \in Invocation /\ next.phase = "prefill" /\ next.todo = rest /\ next.at = at
      /\ next.past = past /\ next.list = call[c].list /\ next.own = call[c].own
      /\ next.alone = call[c].alone /\ next.size = call[c].size
  <2>1. at \in Nat /\ past \in Nat
    BY <1>2 DEF Invocation
  <2> HIDE DEF at, past
  <2>2. QED
    <3>1. next = [call[c] EXCEPT !.todo = rest, !.at = at, !.past = past]
      BY DEF AtNextTile, rest, at, past
    <3> HIDE DEF next
    <3>2. QED
      BY <1>1, <1>2, <1>4, <2>1, <3>1 DEF Invocation
<1> HIDE DEF next
<1>7. call'[c] = next /\ \A d \in Calls \ {c} : call'[d] = call[d]
  BY <1>1, <1>5 DEF TypeOK
<1>8. /\ cache' \in Seq(Pieces) /\ Len(cache') = call[c].past + Len(tile)
      /\ ToSet(cache') \subseteq ToSet(cache) \cup {Foreign}
                              \cup IF Lone(c) THEN ToSet(tile) ELSE {}
  BY <1>1, <1>3, <1>5, ForwardedProperties
<1>9. TypeOK'
  BY <1>1, <1>5, <1>6, <1>8 DEF TypeOK
<1>10. TodoInv'
  BY <1>1, <1>4, <1>6, <1>7 DEF Inv, TodoInv, Waiting
<1>11. /\ \A d \in Calls : Lone(d)' => d = c
       /\ Lone(c)' => Lone(c) /\ \A d \in Calls : Active(d)' => d = c
  BY <1>1, <1>6, <1>7, OwnStep
<1>12. LoneInv'
  <2>1. SUFFICES ASSUME Lone(c)'
                 PROVE  ~call'[c].own /\ session'.messages = call'[c].list /\ LonePrefill(c)'
    BY <1>6, <1>7, <1>11 DEF LoneInv
  <2>2. /\ ~call[c].own /\ session.messages = call[c].list /\ LonePrefill(c)
    BY <1>1, <1>11, <2>1 DEF LoneInv
  <2>3. call[c].past \in Nat /\ call[c].at \in Nat /\ call[c].size \in Nat
        /\ session.position \in Nat
    BY <1>1, <1>2 DEF Invocation, TypeOK, Session
  <2>4. nCached' = past /\ past = at
    BY <1>3, <1>8, <2>2 DEF nCached, LonePrefill
  <2>5. session'.position + call'[c].size = call'[c].at + Len(call'[c].todo)
    BY <1>2, <1>4, <1>5, <1>6, <1>7, <2>2, <2>3 DEF LonePrefill
  <2>6. QED
    BY <1>4, <1>5, <1>6, <1>7, <2>2, <2>4, <2>5 DEF LonePrefill
<1>13. KnownInv'
  <2>1. CASE Lone(c)
    <3>1. session.messages = call[c].list /\ ToSet(todo) \subseteq ToSet(call[c].list)
      BY <1>1, <2>1 DEF LoneInv, LonePrefill
    <3>2. QED
      BY <1>3, <1>5, <1>8, <2>1, <3>1 DEF Inv, KnownInv
  <2>2. CASE ~Lone(c)
    BY <1>5, <1>8, <2>2 DEF Inv, KnownInv
  <2>3. QED
    BY <2>1, <2>2
<1>14. QED
  BY <1>9, <1>10, <1>12, <1>13 DEF Inv

\* A forward of all that is left ends and a token is sampled, or the call is over.
LEMMA ForwardDoneInv ==
    ASSUME Inv, NEW c \in Calls, Waiting(c), NEW positions \in Nat, NEW tokens \in Nat,
           Forwarded(c, call[c].todo), SessionMoved(c, positions, tokens), Sampled(c),
           UNCHANGED skipped,
           Lone(c) => /\ session.position + positions = call[c].past + Len(call[c].todo)
                      /\ ToSet(call[c].todo) \subseteq ToSet(call[c].list) \cup {Reply}
    PROVE  Inv'
<1> DEFINE todo == call[c].todo
<1>1. TypeOK /\ LoneInv /\ Active(c)
  BY DEF Inv, Active
<1>2. todo \in Seq(Pieces) /\ call[c] \in Invocation
  BY <1>1 DEF TypeOK, Invocation
<1>3. /\ cache' \in Seq(Pieces) /\ Len(cache') = call[c].past + Len(todo)
      /\ ToSet(cache') \subseteq ToSet(cache) \cup {Foreign}
                              \cup IF Lone(c) THEN ToSet(todo) ELSE {}
  BY <1>1, <1>2, ForwardedProperties
<1>4. /\ session' \in Session /\ session'.messages = session.messages
      /\ ~call[c].own => session'.position = session.position + positions
  BY <1>1, SessionMovedProperties
<1>5. /\ call' \in [Calls -> Invocation]
      /\ \A d \in Calls \ {c} : call'[d] = call[d]
      /\ \/ call'[c] = Idle
         \/ /\ call'[c].phase = "yielded"
            /\ call'[c].list = call[c].list
            /\ call'[c].own = call[c].own
            /\ call'[c].alone = call[c].alone
  BY <1>1, SampledProperties
<1> HIDE DEF todo
<1>6. TypeOK'
  BY <1>1, <1>3, <1>4, <1>5 DEF TypeOK
<1>7. TodoInv'
  BY <1>5 DEF Inv, TodoInv, Waiting, Idle
<1>8. /\ \A d \in Calls : Lone(d)' => d = c
      /\ Lone(c)' => Lone(c) /\ \A d \in Calls : Active(d)' => d = c
  BY <1>1, <1>5, OwnStep, IdleInactive
<1>9. LoneInv'
  <2>1. SUFFICES ASSUME Lone(c)'
                 PROVE  /\ ~call'[c].own /\ session'.messages = call'[c].list
                        /\ call'[c].phase = "yielded" /\ session'.position = nCached'
    BY <1>8 DEF LoneInv
  <2>2. ~call[c].own /\ session.messages = call[c].list /\ Lone(c)
    BY <1>1, <1>8, <2>1 DEF LoneInv
  <2>3. call'[c] # Idle
    BY <2>1, IdleInactive DEF Lone
  <2>4. QED
    BY <1>3, <1>4, <1>5, <2>2, <2>3 DEF nCached, todo
<1>10. KnownInv'
  <2>1. CASE Lone(c)
    <3>1. session.messages = call[c].list
      BY <1>1, <2>1 DEF LoneInv
    <3>2. QED
      BY <1>3, <1>4, <2>1, <3>1 DEF Inv, KnownInv, todo
  <2>2. CASE ~Lone(c)
    BY <1>3, <1>4, <2>2 DEF Inv, KnownInv
  <2>3. QED
    BY <2>1, <2>2
<1>11. QED
  BY <1>6, <1>7, <1>9, <1>10 DEF Inv

LEMMA PrefillDoneInv ==
    ASSUME Inv, NEW c \in Calls, PrefillDone(c)
    PROVE  Inv'
<1>1. TypeOK /\ LoneInv /\ Waiting(c) /\ call[c].phase = "prefill"
  BY DEF Inv, PrefillDone, Waiting
<1>2. call[c].size \in Nat /\ Len(call[c].todo) \in Nat
  BY <1>1 DEF TypeOK, Invocation
<1>3. Lone(c) => LonePrefill(c)
  BY <1>1 DEF LoneInv
<1>4. Lone(c) => /\ session.position + call[c].size = call[c].past + Len(call[c].todo)
                 /\ ToSet(call[c].todo) \subseteq ToSet(call[c].list) \cup {Reply}
  BY <1>3 DEF LonePrefill
<1>5. /\ Forwarded(c, call[c].todo) /\ SessionMoved(c, call[c].size, call[c].size)
      /\ Sampled(c) /\ UNCHANGED skipped
  BY DEF PrefillDone
<1>6. QED
  BY <1>1, <1>2, <1>4, <1>5, ForwardDoneInv

LEMMA DecodeDoneInv ==
    ASSUME Inv, NEW c \in Calls, DecodeDone(c)
    PROVE  Inv'
<1>1. TypeOK /\ LoneInv /\ Waiting(c) /\ call[c].phase = "decode"
  BY DEF Inv, DecodeDone, Waiting
<1>2. Lone(c) => LoneDecode(c)
  BY <1>1 DEF LoneInv
<1>3. ASSUME NEW s, s = <<Reply>> PROVE Len(s) = 1 /\ ToSet(s) = {Reply}
  BY <1>3 DEF ToSet
<1>4. Lone(c) => /\ session.position + 1 = call[c].past + Len(call[c].todo)
                 /\ ToSet(call[c].todo) \subseteq ToSet(call[c].list) \cup {Reply}
  BY <1>2, <1>3 DEF LoneDecode
<1>5. /\ Forwarded(c, call[c].todo) /\ SessionMoved(c, 1, 0) /\ Sampled(c)
      /\ UNCHANGED skipped
  BY DEF DecodeDone
<1>6. QED
  BY <1>1, <1>4, <1>5, ForwardDoneInv

LEMMA ResumeInv ==
    ASSUME Inv, NEW c \in Calls, Resume(c)
    PROVE  Inv'
<1>1. TypeOK /\ LoneInv /\ Active(c) /\ call[c].phase = "yielded" /\ call[c] \in Invocation
  BY DEF Inv, Resume, Active, TypeOK
<1>2. SessionMoved(c, 0, 1) /\ UNCHANGED <<cache, skipped>>
  BY DEF Resume
<1>3. /\ session' \in Session /\ session'.messages = session.messages
      /\ ~call[c].own => session'.position = session.position + 0
  BY <1>1, <1>2, SessionMovedProperties
<1>4. session.position \in Nat /\ nCached \in Nat
  BY <1>1 DEF TypeOK, Session, nCached
<1>5. CASE call' = [call EXCEPT ![c] = Idle]
  BY <1>1, <1>2, <1>3, <1>5, EndInv DEF TypeOK
<1>6. CASE call' = [call EXCEPT ![c] = Decoding(c)]
  <2> DEFINE next == Decoding(c)
             pos == session.position
  <2>1. <<Reply>> \in Seq(Pieces) /\ <<Reply>> # <<>>
    BY DEF Pieces
  <2>2. /\ next \in Invocation /\ next.phase = "decode" /\ next.at = pos
        /\ next.past = nCached /\ next.todo = <<Reply>> /\ next.list = call[c].list
        /\ next.own = call[c].own /\ next.alone = call[c].alone
    <3>1. next = [call[c] EXCEPT !.phase = "decode", !.at = pos, !.past = nCached,
                                 !.todo = <<Reply>>]
      BY DEF Decoding
    <3> HIDE DEF next, pos
    <3>2. pos \in Nat
      BY <1>4 DEF pos
    <3>3. QED
      BY <1>1, <1>4, <2>1, <3>1, <3>2 DEF Invocation
  <2>3. call' = [call EXCEPT ![c] = next]
    BY <1>6
  <2> HIDE DEF next
  <2>4. call'[c] = next /\ \A d \in Calls \ {c} : call'[d] = call[d]
    BY <1>1, <2>3 DEF TypeOK
  <2>5. TypeOK'
    BY <1>1, <1>2, <1>3, <2>2, <2>3 DEF TypeOK
  <2>6. TodoInv'
    BY <2>1, <2>2, <2>4 DEF Inv, TodoInv, Waiting
  <2>7. /\ \A d \in Calls : Lone(d)' => d = c
        /\ Lone(c)' => Lone(c) /\ \A d \in Calls : Active(d)' => d = c
    BY <1>1, <2>2, <2>4, OwnStep
  <2>8. LoneInv'
    <3>1. SUFFICES ASSUME Lone(c)'
                   PROVE  ~call'[c].own /\ session'.messages = call'[c].list /\ LoneDecode(c)'
      BY <2>2, <2>4, <2>7 DEF LoneInv
    <3>2. ~call[c].own /\ session.messages = call[c].list /\ session.position = nCached
      BY <1>1, <2>7, <3>1 DEF LoneInv
    <3>3. nCached' = nCached /\ session'.position = session.position
      BY <1>2, <1>3, <1>4, <3>2 DEF nCached
    <3>4. QED
      BY <1>3, <2>2, <2>4, <3>2, <3>3 DEF LoneDecode
  <2>9. KnownInv'
    BY <1>2, <1>3 DEF Inv, KnownInv
  <2>10. QED
    BY <2>5, <2>6, <2>8, <2>9 DEF Inv
<1>7. QED
  BY <1>5, <1>6 DEF Resume

LEMMA AbortInv ==
    ASSUME Inv, NEW c \in Calls, Abort(c)
    PROVE  Inv'
<1>1. TypeOK /\ call[c] \in Invocation
  BY DEF Inv, TypeOK
<1>2. call' = [call EXCEPT ![c].aborted = TRUE] /\ UNCHANGED <<session, cache, skipped>>
  BY DEF Abort
<1>3. /\ call' \in [Calls -> Invocation]
      /\ \A d \in Calls :
            /\ call'[d].phase = call[d].phase /\ call'[d].list = call[d].list
            /\ call'[d].own = call[d].own /\ call'[d].todo = call[d].todo
            /\ call'[d].size = call[d].size /\ call'[d].at = call[d].at
            /\ call'[d].past = call[d].past /\ call'[d].alone = call[d].alone
  BY <1>1, <1>2 DEF TypeOK, Invocation
<1>4. TypeOK'
  BY <1>1, <1>2, <1>3 DEF TypeOK
<1>5. TodoInv'
  BY <1>3 DEF Inv, TodoInv, Waiting
<1>6. LoneInv'
  BY <1>2, <1>3 DEF Inv, LoneInv, Lone, Active, Waiting, LonePrefill, LoneDecode, nCached
<1>7. KnownInv'
  BY <1>2 DEF Inv, KnownInv
<1>8. QED
  BY <1>4, <1>5, <1>6, <1>7 DEF Inv

\* The steps of others: no call is lone after them.
LEMMA OthersInv ==
    ASSUME Inv, session' \in Session, cache' \in Seq(Pieces), skipped' \in BOOLEAN,
           ToSet(cache') \subseteq {Foreign},
           call' \in [Calls -> Invocation],
           \A c \in Calls : /\ call'[c].phase = call[c].phase
                            /\ call'[c].todo = call[c].todo
                            /\ call'[c].alone = FALSE
    PROVE  Inv'
<1>1. TypeOK'
  BY DEF TypeOK
<1>2. TodoInv'
  BY DEF Inv, TodoInv, Waiting
<1>3. LoneInv' /\ KnownInv'
  BY DEF LoneInv, Lone, KnownInv
<1>4. QED
  BY <1>1, <1>2, <1>3 DEF Inv

\* The calls after a reset.
LEMMA ResetCalls ==
    ASSUME TypeOK, ResetModelSession
    PROVE  /\ call' \in [Calls -> Invocation]
           /\ \A c \in Calls : /\ call'[c].alone = FALSE
                                /\ call'[c].phase = call[c].phase
                                /\ call'[c].todo = call[c].todo
                                /\ call'[c].size = call[c].size
<1> DEFINE own(c) == Interrupted[c].own \/ Active(c)
           after(c) == [Interrupted[c] EXCEPT !.own = own(c)]
<1>1. call' = [c \in Calls |-> after(c)]
  BY DEF ResetModelSession
<1>2. ASSUME NEW c \in Calls
      PROVE  /\ after(c) \in Invocation
             /\ after(c).alone = FALSE
             /\ after(c).phase = call[c].phase
             /\ after(c).todo = call[c].todo
             /\ after(c).size = call[c].size
  <2> DEFINE last == Interrupted[c]
             next == after(c)
  <2>1. own(c) \in BOOLEAN
    OBVIOUS
  <2> HIDE DEF own
  <2>2. next = [last EXCEPT !.own = own(c)]
    OBVIOUS
  <2>3. /\ last \in Invocation /\ last.alone = FALSE /\ last.phase = call[c].phase
        /\ last.todo = call[c].todo /\ last.size = call[c].size
    BY InterruptedProperties
  <2> HIDE DEF next, last
  <2>4. /\ next \in Invocation /\ next.alone = last.alone /\ next.phase = last.phase
        /\ next.todo = last.todo /\ next.size = last.size
    BY <2>1, <2>2, <2>3 DEF Invocation
  <2>5. QED
    BY <2>3, <2>4 DEF next
<1> HIDE DEF after
<1>3. QED
  BY <1>1, <1>2

LEMMA ResetInv ==
    ASSUME Inv, ResetModelSession
    PROVE  Inv'
<1>1. /\ call' \in [Calls -> Invocation]
      /\ \A c \in Calls : /\ call'[c].phase = call[c].phase
                           /\ call'[c].todo = call[c].todo
                           /\ call'[c].alone = FALSE
  BY ResetCalls DEF Inv
<1>2. session' \in Session /\ cache' \in Seq(Pieces) /\ ToSet(cache') \subseteq {Foreign}
  BY DEF ResetModelSession, Fresh, Session, ToSet
<1>3. skipped' \in BOOLEAN
  BY DEF ResetModelSession
<1>4. QED
  BY <1>1, <1>2, <1>3, OthersInv

LEMMA ConversationStepInv ==
    ASSUME Inv, NEW n \in 0 .. MaxForeign, ConversationStep(n)
    PROVE  Inv'
<1>1. /\ cache' = [i \in 1 .. n |-> Foreign] /\ call' = Interrupted
      /\ UNCHANGED <<session, skipped>>
  BY DEF ConversationStep
<1>2. cache' \in Seq(Pieces) /\ ToSet(cache') \subseteq {Foreign}
  BY <1>1 DEF Pieces, ToSet
<1>3. TypeOK
  BY DEF Inv
<1>4. /\ call' \in [Calls -> Invocation]
      /\ \A c \in Calls : /\ call'[c].phase = call[c].phase
                           /\ call'[c].todo = call[c].todo
                           /\ call'[c].alone = FALSE
  BY <1>1, <1>3, InterruptedProperties
<1>5. session' \in Session /\ skipped' \in BOOLEAN
  BY <1>1 DEF Inv, TypeOK
<1>6. QED
  BY <1>2, <1>4, <1>5, OthersInv

LEMMA NextInv == Inv /\ [Next]_vars => Inv'
<1> SUFFICES ASSUME Inv, [Next]_vars PROVE Inv'
  OBVIOUS
<1>1. ASSUME NEW c \in Calls, NEW list \in Chats,
             BeginChat(c, list, FALSE) \/ BeginChat(c, list, TRUE)
      PROVE  Inv'
  BY <1>1, BeginChatInv
<1>2. ASSUME NEW c \in Calls, BeginPrompt(c) PROVE Inv'
  BY <1>2, BeginPromptInv
<1>3. ASSUME NEW c \in Calls, CallStep(c) PROVE Inv'
  <2>1. CASE PrefillTile(c)
    BY <2>1, PrefillTileInv
  <2>2. CASE PrefillDone(c)
    BY <2>2, PrefillDoneInv
  <2>3. CASE DecodeDone(c)
    BY <2>3, DecodeDoneInv
  <2>4. CASE Fail(c)
    <3>1. /\ Active(c) /\ call' = [call EXCEPT ![c] = Idle]
          /\ session' = session /\ cache' = cache /\ skipped' \in BOOLEAN
      BY <2>4 DEF Fail, Active
    <3>2. session' \in Session /\ session'.messages = session.messages
      BY <3>1 DEF Inv, TypeOK
    <3>3. QED
      BY <3>1, <3>2, EndInv
  <2>5. CASE Resume(c)
    BY <2>5, ResumeInv
  <2>6. CASE Leave(c)
    <3>1. /\ Active(c) /\ call' = [call EXCEPT ![c] = Idle]
          /\ session' = session /\ cache' = cache /\ skipped' = skipped
      BY <2>6 DEF Leave, Active
    <3>2. session' \in Session /\ session'.messages = session.messages
          /\ skipped' \in BOOLEAN
      BY <3>1 DEF Inv, TypeOK
    <3>3. QED
      BY <3>1, <3>2, EndInv
  <2>7. QED
    BY <1>3, <2>1, <2>2, <2>3, <2>4, <2>5, <2>6 DEF CallStep
<1>4. ASSUME NEW c \in Calls, Abort(c) PROVE Inv'
  BY <1>4, AbortInv
<1>5. CASE ResetModelSession
  BY <1>5, ResetInv
<1>6. ASSUME NEW n \in 0 .. MaxForeign, ConversationStep(n) PROVE Inv'
  BY <1>6, ConversationStepInv
<1>7. CASE UNCHANGED vars
  BY <1>7 DEF vars, Inv, TypeOK, TodoInv, LoneInv, Lone, Active, Waiting, LonePrefill,
              LoneDecode, KnownInv, nCached
<1>8. QED
  BY <1>1, <1>2, <1>3, <1>4, <1>5, <1>6, <1>7 DEF Next

THEOREM InvHolds == Spec => []Inv
<1>1. QED
  BY InitInv, NextInv, PTL DEF Spec

-----------------------------------------------------------------------------
\* Type correctness of the model-id path of the engine, whatever calls overlap.
THEOREM TypeCorrect == Spec => []TypeOK
<1>1. Inv => TypeOK
  BY DEF Inv
<1>2. QED
  BY <1>1, InvHolds, PTL

\* A lone chat forwards every token at the position of the slot it is written to,
\* whatever resets, conversations and other calls came before (prepareChatPrompt
\* and Generator.generate keep the session's position and nCached together).
THEOREM PositionsMatchHolds == Spec => []PositionsMatch
<1>1. Inv => PositionsMatch
  BY DEF Inv, PositionsMatch, LoneInv, LonePrefill, LoneDecode, Lone, Waiting, Active
<1>2. QED
  BY <1>1, InvHolds, PTL

\* A lone chat never reads what was cached for another list of messages
\* (leadingMessagesMatch, and the emptying of the cache where it fails).
THEOREM NoForeignContextHolds == Spec => []NoForeignContext
<1>1. Inv => NoForeignContext
  BY DEF Inv, NoForeignContext, LoneInv, KnownInv, Unmixed
<1>2. QED
  BY <1>1, InvHolds, PTL

-----------------------------------------------------------------------------
(* The session's own limit *)

\* On an unmixed cache the history covers the position: shouldStop counts the
\* history, forwards go by the position.
HistoryInv ==
    Unmixed =>
        /\ session.position = nCached => session.position <= session.history
        /\ \A c \in Calls :
              Lone(c) =>
                  /\ call[c].phase = "prefill" => session.position <= session.history
                  /\ call[c].phase = "decode" => /\ session.position < session.history
                                                 /\ session.history < SessionMax

\* Only a lone chat leaves an unmixed cache, and it found one.
LEMMA ForwardUnmixed ==
    ASSUME Inv, NEW c \in Calls, Waiting(c), NEW pieces \in Seq(Pieces), pieces # <<>>,
           Forwarded(c, pieces), Unmixed'
    PROVE  Lone(c) /\ Unmixed
<1>1. TypeOK
  BY DEF Inv
<1>2. /\ ~Lone(c) => Foreign \in ToSet(cache')
      /\ Lone(c) /\ call[c].past = nCached => ToSet(cache') = ToSet(cache) \cup ToSet(pieces)
  BY <1>1, ForwardedProperties
<1>3. Foreign \notin ToSet(cache')
  BY DEF Unmixed
<1>4. Lone(c) => call[c].past = nCached
  BY DEF Inv, LoneInv, LonePrefill, LoneDecode, Waiting
<1>5. QED
  BY <1>2, <1>3, <1>4 DEF Unmixed

\* After the last forward of a prefill, and after one of the decode loop.
LEMMA ForwardDoneHistory ==
    ASSUME Inv, HistoryInv, NEW c \in Calls, Waiting(c), NEW positions \in Nat,
           NEW tokens \in Nat, Forwarded(c, call[c].todo),
           SessionMoved(c, positions, tokens), Sampled(c),
           Lone(c) /\ Unmixed =>
               session.position + positions <= session.history + tokens
    PROVE  HistoryInv'
<1> SUFFICES ASSUME Unmixed'
             PROVE  /\ session'.position <= session'.history
                    /\ \A d \in Calls : Lone(d)' => call'[d].phase = "yielded"
  BY DEF HistoryInv
<1>1. TypeOK /\ LoneInv /\ Active(c)
  BY DEF Inv, Active
<1>2. call[c].todo \in Seq(Pieces) /\ call[c].todo # <<>>
  BY DEF Inv, TypeOK, Invocation, TodoInv
<1>3. Lone(c) /\ Unmixed
  BY <1>2, ForwardUnmixed
<1>4. ~call[c].own
  BY <1>1, <1>3 DEF LoneInv
<1>5. session'.position <= session'.history
  BY <1>1, <1>3, <1>4, SessionMovedProperties
<1>6. /\ \A d \in Calls \ {c} : call'[d] = call[d]
      /\ \/ call'[c] = Idle
         \/ /\ call'[c].phase = "yielded" /\ call'[c].list = call[c].list
            /\ call'[c].alone = call[c].alone
  BY <1>1, SampledProperties
<1>7. \A d \in Calls : Lone(d)' => d = c
  BY <1>1, <1>6, OwnStep, IdleInactive
<1>8. Lone(c)' => call'[c].phase = "yielded"
  BY <1>6, IdleInactive DEF Lone
<1>9. QED
  BY <1>5, <1>7, <1>8

LEMMA HistoryBegin ==
    ASSUME Inv, HistoryInv, NEW c \in Calls, NEW list \in Chats, NEW aborted \in BOOLEAN,
           BeginChat(c, list, aborted)
    PROVE  HistoryInv'
<1> DEFINE pieces == ToForward(list)
           pos == Prepared(list).position
           n == Len(CacheAfterPrepare(list))
<1>1. TypeOK
  BY DEF Inv
<1>2. /\ list \in Seq(Messages) /\ pieces \in Seq(Pieces)
      /\ Prepared(list) \in Session /\ CacheAfterPrepare(list) \in Seq(Pieces)
      /\ FastPath(list) => /\ pos = session.position
                           /\ Prepared(list).history = session.history
      /\ ~FastPath(list) => pos = 0 /\ Prepared(list).history = 0
  BY <1>1, PreparedProperties
<1>3. pos \in Nat /\ n \in Nat
  BY <1>2 DEF Session
<1>4. Started(c, list, pieces, pos, n, aborted)
  BY DEF BeginChat
<1>5. session' = Prepared(list) /\ cache' = CacheAfterPrepare(list)
  BY DEF BeginChat
<1>6. Unmixed' => session'.position <= session'.history
  <2>1. CASE FastPath(list)
    <3>1. cache' = cache /\ session.position = nCached
      BY <1>5, <2>1 DEF CacheAfterPrepare, FastPath
    <3>2. QED
      BY <1>2, <1>5, <2>1, <3>1 DEF HistoryInv, Unmixed
  <2>2. CASE ~FastPath(list)
    BY <1>2, <1>5, <2>2
  <2>3. QED
    BY <2>1, <2>2
<1> HIDE DEF pieces, pos, n
<1>7. /\ \A d \in Calls \ {c} : call'[d] = Interrupted[d]
      /\ aborted => call'[c] = Idle
      /\ ~aborted => call'[c] =
           [phase |-> "prefill", list |-> list, own |-> (list = <<>>), todo |-> pieces,
            size |-> Len(pieces), at |-> pos, past |-> n, generated |-> 0,
            aborted |-> FALSE, alone |-> \A d \in Calls : ~Active(d)]
  BY <1>1, <1>2, <1>3, <1>4, StartedProperties
<1>8. \A d \in Calls \ {c} : ~Lone(d)'
  BY <1>1, <1>7, InterruptedProperties DEF Lone
<1>9. Lone(c)' => call'[c].phase = "prefill"
  BY <1>7, IdleInactive DEF Lone
<1>10. QED
  BY <1>6, <1>8, <1>9 DEF HistoryInv

LEMMA HistoryResume ==
    ASSUME Inv, HistoryInv, NEW c \in Calls, Resume(c)
    PROVE  HistoryInv'
<1>1. TypeOK /\ LoneInv /\ Active(c) /\ call[c] \in Invocation
  BY DEF Inv, Resume, Active, TypeOK
<1>2. SessionMoved(c, 0, 1) /\ cache' = cache
  BY DEF Resume
<1>3. /\ call[c].own => session' = session
      /\ ~call[c].own => /\ session'.position = session.position + 0
                         /\ session'.history = session.history + 1
  BY <1>1, <1>2, SessionMovedProperties
<1>4. session.position \in Nat /\ session.history \in Nat
  BY <1>1 DEF TypeOK, Session
<1>5. session'.position = session.position /\ session.history <= session'.history
  BY <1>3, <1>4
<1>6. Unmixed' => Unmixed /\ (session'.position = nCached' =>
                                session'.position <= session'.history)
  <2>1. Unmixed' <=> Unmixed
    BY <1>2 DEF Unmixed
  <2>2. nCached' = nCached
    BY <1>2 DEF nCached
  <2>3. session'.history \in Nat
    BY <1>3, <1>4
  <2>4. QED
    BY <1>4, <1>5, <2>1, <2>2, <2>3 DEF HistoryInv
<1>7. CASE call' = [call EXCEPT ![c] = Idle]
  <2>1. call'[c] = Idle /\ \A d \in Calls \ {c} : call'[d] = call[d]
    BY <1>1, <1>7 DEF TypeOK
  <2>2. \A d \in Calls : ~Lone(d)'
    BY <1>1, <2>1, IdleInactive, OwnStep DEF Lone
  <2>3. QED
    BY <1>6, <2>2 DEF HistoryInv
<1>8. CASE ~MustStop(c) /\ call' = [call EXCEPT ![c] = Decoding(c)]
  <2>1. /\ call'[c].list = call[c].list /\ call'[c].alone = call[c].alone
        /\ call'[c].phase = "decode" /\ \A d \in Calls \ {c} : call'[d] = call[d]
    BY <1>1, <1>8 DEF TypeOK, Decoding, Invocation
  <2>2. (\A d \in Calls : Lone(d)' => d = c) /\ (Lone(c)' => Lone(c))
    BY <1>1, <2>1, OwnStep
  <2>3. ASSUME Lone(c)', Unmixed'
        PROVE  session'.position < session'.history /\ session'.history < SessionMax
    <3>1. ~call[c].own /\ session.position = nCached
      BY <1>1, <2>2, <2>3 DEF LoneInv, Resume
    <3>2. session.position <= session.history
      BY <1>6, <2>3, <3>1 DEF HistoryInv
    <3>3. session.history + 1 < SessionMax
      BY <1>4, <1>8, <3>1 DEF MustStop
    <3>4. QED
      BY <1>3, <1>4, <3>1, <3>2, <3>3
  <2>4. QED
    BY <1>6, <2>1, <2>2, <2>3 DEF HistoryInv
<1>9. QED
  BY <1>7, <1>8 DEF Resume

LEMMA HistoryTile ==
    ASSUME Inv, HistoryInv, NEW c \in Calls, PrefillTile(c)
    PROVE  HistoryInv'
<1> DEFINE tile == Tile(c)
<1> SUFFICES ASSUME Unmixed'
             PROVE  /\ session'.position <= session'.history
                    /\ \A d \in Calls : Lone(d)' => call'[d].phase = "prefill"
  BY DEF HistoryInv
<1>1. TypeOK /\ LoneInv /\ Active(c) /\ Waiting(c) /\ call[c].phase = "prefill"
  BY DEF Inv, PrefillTile, Active, Waiting
<1>2. call[c].todo \in Seq(Pieces) /\ Len(call[c].todo) > TileSize
  BY <1>1 DEF TypeOK, Invocation, PrefillTile
<1>3. tile \in Seq(Pieces) /\ tile # <<>>
  <2>1. TileSize \in 0 .. Len(call[c].todo) /\ 1 \in Nat \ {0}
    BY <1>2
  <2>2. /\ tile \in Seq(Pieces)
        /\ Len(tile) = IF 1 <= TileSize THEN TileSize - 1 + 1 ELSE 0
    BY <1>2, <2>1, SubSeqPieces DEF Tile
  <2> HIDE DEF tile
  <2>3. QED
    BY <2>2
<1> HIDE DEF tile
<1>4. Forwarded(c, tile) /\ session' = session
  BY DEF PrefillTile, tile
<1>5. Lone(c) /\ Unmixed
  BY <1>1, <1>3, <1>4, ForwardUnmixed
<1>6. session'.position <= session'.history
  BY <1>1, <1>4, <1>5 DEF HistoryInv
<1>7. call' = [call EXCEPT ![c] = AtNextTile(c)]
  BY DEF PrefillTile
<1>8. /\ AtNextTile(c).phase = "prefill" /\ AtNextTile(c).list = call[c].list
      /\ AtNextTile(c).alone = call[c].alone
  BY <1>1 DEF AtNextTile, TypeOK, Invocation
<1>9. call'[c] = AtNextTile(c) /\ \A d \in Calls \ {c} : call'[d] = call[d]
  BY <1>1, <1>7 DEF TypeOK
<1>10. \A d \in Calls : Lone(d)' => d = c
  BY <1>1, <1>8, <1>9, OwnStep
<1>11. QED
  BY <1>6, <1>8, <1>9, <1>10

LEMMA HistoryPrefillDone ==
    ASSUME Inv, HistoryInv, NEW c \in Calls, PrefillDone(c)
    PROVE  HistoryInv'
<1>1. TypeOK /\ Waiting(c) /\ call[c].phase = "prefill"
  BY DEF Inv, PrefillDone, Waiting
<1>2. /\ call[c].size \in Nat /\ session.position \in Nat /\ session.history \in Nat
  BY <1>1 DEF TypeOK, Invocation, Session
<1>3. Lone(c) /\ Unmixed =>
          session.position + call[c].size <= session.history + call[c].size
  BY <1>1, <1>2 DEF HistoryInv
<1>4. /\ Forwarded(c, call[c].todo) /\ SessionMoved(c, call[c].size, call[c].size)
      /\ Sampled(c)
  BY DEF PrefillDone
<1>5. QED
  BY <1>1, <1>2, <1>3, <1>4, ForwardDoneHistory

LEMMA HistoryDecodeDone ==
    ASSUME Inv, HistoryInv, NEW c \in Calls, DecodeDone(c)
    PROVE  HistoryInv'
<1>1. TypeOK /\ Waiting(c) /\ call[c].phase = "decode"
  BY DEF Inv, DecodeDone, Waiting
<1>2. session.position \in Nat /\ session.history \in Nat
  BY <1>1 DEF TypeOK, Session
<1>3. Lone(c) /\ Unmixed => session.position + 1 <= session.history + 0
  BY <1>1, <1>2 DEF HistoryInv
<1>4. Forwarded(c, call[c].todo) /\ SessionMoved(c, 1, 0) /\ Sampled(c)
  BY DEF DecodeDone
<1>5. QED
  BY <1>1, <1>3, <1>4, ForwardDoneHistory

LEMMA HistoryEnd ==
    ASSUME Inv, HistoryInv, NEW c \in Calls, Fail(c) \/ Leave(c)
    PROVE  HistoryInv'
<1>1. /\ TypeOK /\ LoneInv /\ Active(c) /\ call' = [call EXCEPT ![c] = Idle]
      /\ UNCHANGED <<session, cache>>
  BY DEF Inv, Fail, Leave, Active
<1>2. call'[c] = Idle /\ \A d \in Calls \ {c} : call'[d] = call[d]
  BY <1>1 DEF TypeOK
<1>3. \A d \in Calls : ~Lone(d)'
  BY <1>1, <1>2, IdleInactive, OwnStep DEF Lone
<1>4. QED
  BY <1>1, <1>3 DEF HistoryInv, Unmixed, nCached

LEMMA HistoryOthers ==
    ASSUME Inv, HistoryInv,
           \/ \E c \in Calls : BeginPrompt(c) \/ Abort(c)
           \/ ResetModelSession
           \/ \E n \in 0 .. MaxForeign : ConversationStep(n)
           \/ UNCHANGED vars
    PROVE  HistoryInv'
<1>1. TypeOK /\ session.position \in Nat /\ session.history \in Nat
  BY DEF Inv, TypeOK, Session
<1>2. ASSUME NEW c \in Calls, BeginPrompt(c) PROVE HistoryInv'
  <2> DEFINE pieces == <<Foreign>>
             list == <<>>
             pos == 0
             n == nCached
             aborted == FALSE
  <2>1. /\ pieces \in Seq(Pieces) /\ n \in Nat /\ list \in Seq(Messages) /\ pos \in Nat
        /\ aborted \in BOOLEAN
    BY <1>1 DEF Pieces, TypeOK, nCached
  <2>2. list = <<>> /\ ~aborted
    OBVIOUS
  <2>3. Started(c, list, pieces, pos, n, aborted) /\ UNCHANGED <<session, cache>>
    BY <1>2 DEF BeginPrompt
  <2> HIDE DEF pieces, list, pos, n, aborted
  <2>4. TypeOK
    BY <1>1
  <2>5. /\ \A d \in Calls \ {c} : call'[d] = Interrupted[d]
        /\ ~aborted => call'[c] =
             [phase |-> "prefill", list |-> list, own |-> (list = <<>>), todo |-> pieces,
              size |-> Len(pieces), at |-> pos, past |-> n, generated |-> 0,
              aborted |-> FALSE, alone |-> \A d \in Calls : ~Active(d)]
    BY <2>4, <2>1, <2>3, StartedProperties
  <2>6. call'[c].list = list
    BY <2>2, <2>5
  <2>7. \A d \in Calls : ~Lone(d)'
    BY <2>2, <2>4, <2>5, <2>6, InterruptedProperties DEF Lone
  <2>8. QED
    BY <2>3, <2>7 DEF HistoryInv, Unmixed, nCached
<1>3. ASSUME NEW c \in Calls, Abort(c) PROVE HistoryInv'
  <2>1. call' = [call EXCEPT ![c].aborted = TRUE] /\ UNCHANGED <<session, cache>>
    BY <1>3 DEF Abort
  <2>2. \A d \in Calls : /\ call'[d].phase = call[d].phase
                         /\ call'[d].list = call[d].list /\ call'[d].alone = call[d].alone
    BY <1>1, <2>1 DEF TypeOK, Invocation
  <2>3. QED
    BY <2>1, <2>2 DEF HistoryInv, Unmixed, nCached, Lone, Active, Waiting
<1>4. CASE ResetModelSession
  <2>1. \A c \in Calls : call'[c].alone = FALSE
    BY <1>1, <1>4, ResetCalls
  <2>2. session'.position = 0 /\ session'.history = 0
    BY <1>4 DEF ResetModelSession, Fresh
  <2>3. QED
    BY <2>1, <2>2 DEF HistoryInv, Lone
<1>5. ASSUME NEW n \in 0 .. MaxForeign, ConversationStep(n) PROVE HistoryInv'
  <2>1. cache' = [i \in 1 .. n |-> Foreign] /\ call' = Interrupted /\ session' = session
    BY <1>5 DEF ConversationStep
  <2>2. \A c \in Calls : call'[c].alone = FALSE
    BY <1>1, <2>1, InterruptedProperties
  <2>3. CASE n = 0
    <3>1. nCached' = 0
      BY <2>1, <2>3 DEF nCached
    <3>2. QED
      BY <1>1, <2>1, <2>2, <3>1 DEF HistoryInv, Lone
  <2>4. CASE n # 0
    <3>1. Len(cache') = n /\ 1 \in 1 .. n /\ cache'[1] = Foreign
      BY <2>1, <2>4
    <3>2. ~Unmixed'
      BY <3>1 DEF Unmixed, ToSet
    <3>3. QED
      BY <3>2 DEF HistoryInv
  <2>5. QED
    BY <2>3, <2>4
<1>6. CASE UNCHANGED vars
  BY <1>6 DEF vars, HistoryInv, Unmixed, nCached, Lone, Active, Waiting
<1>7. QED
  BY <1>2, <1>3, <1>4, <1>5, <1>6

\* Decoding never carries a session past its maxTokens, over however many chats
\* (InferenceSession.shouldStop looks at the history, a forward goes by the
\* position).
THEOREM DecodeWithinSessionHolds == Spec => []DecodeWithinSession
<1>1. Init => HistoryInv
  BY DEF Init, HistoryInv, Fresh, Idle, Lone, Active, Waiting
<1>2. Inv /\ HistoryInv /\ [Next]_vars => HistoryInv'
  <2> SUFFICES ASSUME Inv, HistoryInv, [Next]_vars PROVE HistoryInv'
    OBVIOUS
  <2>1. ASSUME NEW c \in Calls, NEW list \in Chats,
               BeginChat(c, list, FALSE) \/ BeginChat(c, list, TRUE)
        PROVE  HistoryInv'
    BY <2>1, HistoryBegin
  <2>2. ASSUME NEW c \in Calls, CallStep(c) PROVE HistoryInv'
    BY <2>2, HistoryTile, HistoryPrefillDone, HistoryDecodeDone, HistoryEnd,
       HistoryResume DEF CallStep
  <2>3. QED
    BY <2>1, <2>2, HistoryOthers DEF Next
<1>3. Inv /\ HistoryInv => DecodeWithinSession
  <2> SUFFICES ASSUME Inv, HistoryInv, Unmixed, NEW c \in Calls, Lone(c),
                      call[c].phase = "decode"
               PROVE  call[c].at < SessionMax
    BY DEF DecodeWithinSession
  <2>1. call[c].at = session.position
    BY DEF Inv, LoneInv, LoneDecode
  <2>2. session.position \in Nat /\ session.history \in Nat
    BY DEF Inv, TypeOK, Session
  <2>3. session.position < session.history /\ session.history < SessionMax
    BY DEF HistoryInv
  <2>4. QED
    BY <2>1, <2>2, <2>3
<1>4. QED
  BY <1>1, <1>2, <1>3, InvHolds, PTL DEF Spec
-----------------------------------------------------------------------------
(* What the cache says *)

LEMMA NothingSaid == Says(<<>>, <<>>)
<1>1. {j \in 1 .. 0 : (<<>>)[j] # Reply} = {}
  OBVIOUS
<1>2. Len(<<>>) = 0
  OBVIOUS
<1>3. QED
  BY <1>1, <1>2, FS_EmptySet DEF Says, SaidBy

\* The messages said by the slots of the cache are said with others after them.
LEMMA SaidByStart ==
    ASSUME NEW q \in Seq(Pieces), NEW d \in Seq(Pieces), NEW i \in 0 .. Len(q)
    PROVE  SaidBy(q \o d, i) = SaidBy(q, i)
<1>1. \A j \in 1 .. i : (q \o d)[j] = q[j]
  BY ConcatProperties
<1>2. {j \in 1 .. i : (q \o d)[j] # Reply} = {j \in 1 .. i : q[j] # Reply}
  BY <1>1
<1>3. QED
  BY <1>2 DEF SaidBy

\* Messages written after the cache are said after what it said.
LEMMA SaysMore ==
    ASSUME NEW q \in Seq(Pieces), NEW list \in Seq(Messages), NEW d \in Seq(Messages),
           Says(q, list)
    PROVE  Says(q \o d, list \o d)
<1> DEFINE all == q \o d
           both == list \o d
           said == {j \in 1 .. Len(q) : q[j] # Reply}
<1>1. /\ d \in Seq(Pieces) /\ Len(q) \in Nat /\ Len(d) \in Nat /\ Len(list) \in Nat
      /\ \A k \in 1 .. Len(d) : d[k] # Reply
  BY DEF Pieces
<1>2. /\ Len(all) = Len(q) + Len(d)
      /\ \A i \in 1 .. Len(q) + Len(d) : all[i] = IF i <= Len(q) THEN q[i] ELSE d[i - Len(q)]
  BY <1>1, ConcatProperties
<1>3. /\ Len(both) = Len(list) + Len(d)
      /\ \A i \in 1 .. Len(list) + Len(d) :
             both[i] = IF i <= Len(list) THEN list[i] ELSE d[i - Len(list)]
  BY <1>1, ConcatProperties
<1>4. IsFiniteSet(said) /\ Cardinality(said) = Len(list)
  <2>1. IsFiniteSet(1 .. Len(q)) /\ said \subseteq 1 .. Len(q)
    BY <1>1, FS_Interval
  <2>2. Cardinality(said) = Len(list)
    BY DEF Says, SaidBy
  <2>3. QED
    BY <2>1, <2>2, FS_Subset
<1>5. ASSUME NEW k \in 0 .. Len(d) PROVE SaidBy(all, Len(q) + k) = Len(list) + k
  <2> DEFINE new == Len(q) + 1 .. Len(q) + k
             allsaid == {j \in 1 .. Len(q) + k : all[j] # Reply}
  <2>1. allsaid = said \cup new
    <3>1. ASSUME NEW j \in 1 .. Len(q) + k PROVE j \in allsaid <=> j \in said \cup new
      <4>1. CASE j <= Len(q)
        BY <1>1, <1>2, <4>1
      <4>2. CASE j > Len(q)
        <5>1. j - Len(q) \in 1 .. Len(d) /\ all[j] = d[j - Len(q)]
          BY <1>1, <1>2, <4>2
        <5>2. QED
          BY <1>1, <4>2, <5>1
      <4>3. QED
        BY <1>1, <4>1, <4>2
    <3>2. said \subseteq 1 .. Len(q) + k /\ new \subseteq 1 .. Len(q) + k
      BY <1>1
    <3>3. QED
      BY <3>1, <3>2
  <2>2. IsFiniteSet(new) /\ Cardinality(new) = k
    <3> DEFINE lo == Len(q) + 1
               hi == Len(q) + k
    <3>1. lo \in Int /\ hi \in Int /\ (IF lo > hi THEN 0 ELSE hi - lo + 1) = k
      BY <1>1
    <3>2. new = lo .. hi
      OBVIOUS
    <3> HIDE DEF lo, hi, new
    <3>3. QED
      BY <3>1, <3>2, FS_Interval
  <2>3. said \cap new = {}
    BY <1>1
  <2> HIDE DEF said, new, allsaid
  <2>4. Cardinality(said \cup new) = Len(list) + k
    <3>1. Cardinality(said \cap new) = 0
      BY <2>3, FS_EmptySet
    <3>2. Cardinality(said \cup new)
            = Cardinality(said) + Cardinality(new) - Cardinality(said \cap new)
      BY <1>4, <2>2, FS_Union
    <3>3. QED
      BY <1>1, <1>4, <2>2, <3>1, <3>2
  <2>5. QED
    BY <2>1, <2>4 DEF SaidBy, allsaid
<1>6. SaidBy(all, Len(all)) = Len(both)
  BY <1>1, <1>2, <1>3, <1>5
<1>7. ASSUME NEW i \in 1 .. Len(all), all[i] # Reply
      PROVE  all[i] = both[SaidBy(all, i)]
  <2>1. CASE i <= Len(q)
    <3>1. i \in 1 .. Len(q) /\ i \in 0 .. Len(q) /\ all[i] = q[i]
      BY <1>1, <1>2, <2>1
    <3>2. SaidBy(all, i) = SaidBy(q, i)
      BY <1>1, <3>1, SaidByStart
    <3>3. q[i] = list[SaidBy(q, i)]
      BY <1>7, <3>1 DEF Says
    <3>4. SaidBy(q, i) \in 1 .. Len(list)
      <4> DEFINE upto == {j \in 1 .. i : q[j] # Reply}
      <4>1. upto \subseteq said /\ i \in upto
        BY <1>7, <3>1
      <4> HIDE DEF upto, said
      <4>2. IsFiniteSet(upto) /\ Cardinality(upto) <= Len(list)
        BY <1>4, <4>1, FS_Subset
      <4>3. Cardinality(upto) \in Nat /\ Cardinality(upto) # 0
        BY <4>1, <4>2, FS_CardinalityType, FS_EmptySet
      <4>4. QED
        BY <1>1, <4>2, <4>3 DEF SaidBy, upto
    <3>5. both[SaidBy(q, i)] = list[SaidBy(q, i)]
      BY <1>1, <1>3, <3>4
    <3>6. QED
      BY <3>1, <3>2, <3>3, <3>5
  <2>2. CASE i > Len(q)
    <3> DEFINE k == i - Len(q)
    <3>1. /\ k \in 1 .. Len(d) /\ k \in 0 .. Len(d) /\ all[i] = d[k] /\ i = Len(q) + k
          /\ Len(list) + k \in 1 .. Len(list) + Len(d) /\ (Len(list) + k) - Len(list) = k
          /\ ~(Len(list) + k <= Len(list))
      BY <1>1, <1>2, <2>2
    <3> HIDE DEF k
    <3>2. SaidBy(all, i) = Len(list) + k
      BY <1>5, <3>1
    <3>3. QED
      BY <1>3, <3>1, <3>2
  <2>3. i \in Nat /\ (i <= Len(q) \/ i > Len(q))
    BY <1>1
  <2>4. QED
    BY <2>1, <2>2, <2>3
<1>8. QED
  BY <1>6, <1>7 DEF Says

\* A sampled token adds nothing to what is said.
LEMMA SaysReply ==
    ASSUME NEW q \in Seq(Pieces), NEW list \in Seq(Messages), Says(q, list)
    PROVE  Says(q \o <<Reply>>, list)
<1> DEFINE all == q \o <<Reply>>
<1>1. <<Reply>> \in Seq(Pieces) /\ Len(<<Reply>>) = 1 /\ Len(q) \in Nat
  BY DEF Pieces
<1>2. /\ Len(all) = Len(q) + 1 /\ all[Len(q) + 1] = Reply
      /\ \A i \in 1 .. Len(q) : all[i] = q[i]
  BY <1>1, ConcatProperties
<1>3. SaidBy(all, Len(q) + 1) = SaidBy(q, Len(q))
  <2>1. {j \in 1 .. Len(q) + 1 : all[j] # Reply} = {j \in 1 .. Len(q) : q[j] # Reply}
    BY <1>1, <1>2
  <2>2. QED
    BY <2>1 DEF SaidBy
<1>4. ASSUME NEW i \in 1 .. Len(all), all[i] # Reply
      PROVE  all[i] = list[SaidBy(all, i)]
  <2>1. i \in 1 .. Len(q) /\ i \in 0 .. Len(q)
    BY <1>1, <1>2, <1>4
  <2>2. SaidBy(all, i) = SaidBy(q, i) /\ all[i] = q[i]
    BY <1>1, <1>2, <2>1, SaidByStart
  <2>3. QED
    BY <1>4, <2>1, <2>2 DEF Says
<1>5. QED
  BY <1>2, <1>3, <1>4 DEF Says

-----------------------------------------------------------------------------
(* Completeness: what the session records is in the cache, or waits to be *)
(* forwarded, or a prefill was cut short.                                 *)

Prefilling(c) == call[c].phase = "prefill"

\* A prompt is not empty, so that its prefill moves the session.
SizeInv == \A c \in Calls : Prefilling(c) => call[c].size # 0

\* A session that has not moved records what is still being prefilled.
BegunInv ==
    ~skipped /\ session.messages # <<>> /\ session.position = 0 =>
        \E c \in Calls : Prefilling(c) /\ ~call[c].own

SaidInv ==
    Unmixed /\ ~skipped =>
        /\ \A c \in Calls :
              Lone(c) /\ Prefilling(c) => Says(cache \o call[c].todo, call[c].list)
        /\ session.position = nCached /\ (\A c \in Calls : ~Prefilling(c)) =>
              Says(cache, session.messages)

CompleteInv == SizeInv /\ BegunInv /\ SaidInv

\* A step after which nothing is prefilled that was not before, and nobody who was
\* has stopped, unless the session has moved.
LEMMA RecordKept ==
    ASSUME SizeInv, BegunInv, ~skipped' => ~skipped,
           session'.messages # <<>> => session.messages # <<>>,
           session'.position = 0 => session.position = 0,
           \A c \in Calls : Prefilling(c)' => Prefilling(c) /\ call'[c].size = call[c].size,
           ~skipped' /\ session'.position = 0 =>
               \A c \in Calls : Prefilling(c) /\ ~call[c].own => Prefilling(c)' /\ ~call'[c].own
    PROVE  SizeInv' /\ BegunInv'
BY DEF SizeInv, BegunInv

\* A step that leaves the cache and what the session says of it.
LEMMA SaidKept ==
    ASSUME SaidInv, cache' = cache, session'.messages = session.messages,
           session'.position = session.position, ~skipped' => ~skipped,
           \A c \in Calls :
               Lone(c)' /\ Prefilling(c)' =>
                   Lone(c) /\ call'[c].todo = call[c].todo /\ call'[c].list = call[c].list,
           ~skipped' => \A c \in Calls : Prefilling(c)' <=> Prefilling(c)
    PROVE  SaidInv'
BY DEF SaidInv, Unmixed, nCached

\* What a lone call forwards is added to the cache.
LEMMA LoneForwarded ==
    ASSUME TypeOK, NEW c \in Calls, NEW pieces, Lone(c), call[c].past = nCached,
           Forwarded(c, pieces)
    PROVE  cache' = cache \o pieces
<1>1. [i \in 1 .. nCached |-> IF i <= nCached THEN cache[i] ELSE Foreign] = cache
  BY DEF TypeOK, nCached
<1>2. QED
  BY <1>1 DEF Forwarded, Written

LEMMA CompleteBegin ==
    ASSUME Inv, CompleteInv, NEW c \in Calls, NEW list \in Chats, NEW aborted \in BOOLEAN,
           BeginChat(c, list, aborted)
    PROVE  CompleteInv'
<1> DEFINE pieces == ToForward(list)
           pos == Prepared(list).position
           n == Len(CacheAfterPrepare(list))
<1>1. TypeOK
  BY DEF Inv
<1>2. /\ list \in Seq(Messages) /\ list # <<>> /\ pieces \in Seq(Pieces) /\ pieces # <<>>
      /\ pos \in Nat /\ n \in Nat
  BY <1>1, PreparedProperties DEF Session
<1>3. /\ Started(c, list, pieces, pos, n, aborted)
      /\ cache' = CacheAfterPrepare(list)
      /\ skipped' = ((skipped /\ FastPath(list)) \/ aborted)
  BY DEF BeginChat
<1>4. ASSUME ~aborted, Unmixed', ~skipped', \A d \in Calls : ~Active(d)
      PROVE  Says(cache' \o pieces, list)
  <2>1. CASE FastPath(list)
    <3>1. /\ cache' = cache /\ Len(list) > Len(session.messages) /\ session.position = nCached
          /\ session.messages \in Seq(Messages) /\ cache \in Seq(Pieces)
          /\ pieces = SubSeq(list, Len(session.messages) + 1, Len(list))
      BY <1>1, <1>3, <2>1 DEF CacheAfterPrepare, FastPath, ToForward, Delta, TypeOK, Session
    <3>2. Says(cache, session.messages)
      BY <1>3, <1>4, <2>1, <3>1
         DEF CompleteInv, SaidInv, Unmixed, Prefilling, Active, Waiting
    <3>3. list = session.messages \o pieces /\ pieces \in Seq(Messages)
      <4> DEFINE m == Len(session.messages)
      <4>1. /\ m <= Len(list) /\ m \in Nat
            /\ SubSeq(session.messages, 1, m) = SubSeq(list, 1, m)
        BY <2>1, <3>1 DEF FastPath, LeadingMessagesMatch, IsPrefix
      <4>2. SubSeq(session.messages, 1, m) = session.messages
        BY <3>1, SubSeqFull
      <4> HIDE DEF m
      <4>3. m \in 1 - 1 .. Len(list) /\ Len(list) \in m .. Len(list) /\ 1 \in 1 .. Len(list) + 1
        BY <1>2, <4>1
      <4>4. SubSeq(list, 1, m) \o SubSeq(list, m + 1, Len(list)) = SubSeq(list, 1, Len(list))
        BY <1>2, <4>3, ConcatAdjacentSubSeq
      <4>5. SubSeq(list, 1, Len(list)) = list
        BY <1>2, SubSeqFull
      <4>6. \A i \in m + 1 .. Len(list) : list[i] \in Messages
        BY <1>2, <4>1
      <4>7. pieces = SubSeq(list, m + 1, Len(list))
        BY <3>1 DEF m
      <4>8. SubSeq(list, m + 1, Len(list)) \in Seq(Messages)
        BY <1>2, <4>1, <4>6, SubSeqProperties
      <4> HIDE DEF pieces
      <4>9. QED
        BY <4>1, <4>2, <4>4, <4>5, <4>7, <4>8
    <3> HIDE DEF pieces
    <3>4. QED
      BY <3>1, <3>2, <3>3, SaysMore
  <2>2. CASE ~FastPath(list)
    <3>1. cache' = <<>> /\ pieces = list /\ <<>> \in Seq(Pieces) /\ <<>> \in Seq(Messages)
      BY <1>3, <2>2 DEF CacheAfterPrepare, ToForward
    <3>2. Says(<<>> \o list, <<>> \o list)
      BY <1>2, <3>1, NothingSaid, SaysMore
    <3>3. <<>> \o list = list
      BY <1>2, ConcatEmptySeq
    <3>4. QED
      BY <3>1, <3>2, <3>3
  <2>3. QED
    BY <2>1, <2>2
<1> HIDE DEF pieces, pos, n
<1>5. /\ \A d \in Calls \ {c} : call'[d] = Interrupted[d]
      /\ aborted => call'[c] = Idle
      /\ ~aborted => call'[c] =
           [phase |-> "prefill", list |-> list, own |-> (list = <<>>), todo |-> pieces,
            size |-> Len(pieces), at |-> pos, past |-> n, generated |-> 0,
            aborted |-> FALSE, alone |-> \A d \in Calls : ~Active(d)]
  BY <1>1, <1>2, <1>3, StartedProperties
<1>6. \A d \in Calls \ {c} : /\ call'[d].alone = FALSE /\ call'[d].phase = call[d].phase
                             /\ call'[d].size = call[d].size
  BY <1>1, <1>5, InterruptedProperties
<1>7. SizeInv'
  <2>1. Prefilling(c)' => call'[c].size = Len(pieces) /\ Len(pieces) # 0
    BY <1>2, <1>5 DEF Prefilling, Idle
  <2>2. QED
    BY <1>6, <2>1 DEF CompleteInv, SizeInv, Prefilling
<1>8. BegunInv'
  <2>1. ~aborted => call'[c].phase = "prefill" /\ ~call'[c].own
    BY <1>2, <1>5
  <2>2. QED
    BY <1>3, <2>1 DEF BegunInv, Prefilling
<1>9. SaidInv'
  <2>1. SUFFICES ASSUME Unmixed', ~skipped'
                 PROVE  /\ Prefilling(c)'
                        /\ Lone(c)' => Says(cache' \o call'[c].todo, call'[c].list)
    BY <1>6 DEF SaidInv, Lone
  <2>2. ~aborted
    BY <1>3, <2>1
  <2>3. /\ call'[c].phase = "prefill" /\ call'[c].todo = pieces /\ call'[c].list = list
        /\ call'[c].alone => \A d \in Calls : ~Active(d)
    BY <1>5, <2>2
  <2>4. QED
    BY <1>4, <2>1, <2>2, <2>3 DEF Prefilling, Lone
<1>10. QED
  BY <1>7, <1>8, <1>9 DEF CompleteInv

LEMMA CompletePrompt ==
    ASSUME Inv, CompleteInv, NEW c \in Calls, BeginPrompt(c)
    PROVE  CompleteInv'
<1> DEFINE pieces == <<Foreign>>
           list == <<>>
           pos == 0
           n == nCached
           aborted == FALSE
<1>1. TypeOK
  BY DEF Inv
<1>2. /\ pieces \in Seq(Pieces) /\ n \in Nat
      /\ list \in Seq(Messages) /\ pos \in Nat /\ aborted \in BOOLEAN
  BY <1>1 DEF Pieces, TypeOK, nCached
<1>e. Len(pieces) # 0 /\ list = <<>> /\ ~aborted
  OBVIOUS
<1>3. Started(c, list, pieces, pos, n, aborted)
  BY DEF BeginPrompt
<1>u. UNCHANGED <<session, cache, skipped>> /\ ~Prefilling(c)
  BY DEF BeginPrompt, Prefilling
<1> HIDE DEF pieces, list, pos, n, aborted
<1>4. /\ \A d \in Calls \ {c} : call'[d] = Interrupted[d]
      /\ ~aborted => call'[c] =
           [phase |-> "prefill", list |-> list, own |-> (list = <<>>), todo |-> pieces,
            size |-> Len(pieces), at |-> pos, past |-> n, generated |-> 0,
            aborted |-> FALSE, alone |-> \A d \in Calls : ~Active(d)]
  BY <1>1, <1>2, <1>3, StartedProperties
<1>5. /\ call'[c].phase = "prefill" /\ call'[c].size = Len(pieces) /\ call'[c].list = <<>>
      /\ \A d \in Calls \ {c} : /\ call'[d].alone = FALSE /\ call'[d].phase = call[d].phase
                                /\ call'[d].size = call[d].size /\ call'[d].own = call[d].own
  <2>1. call'[c].phase = "prefill" /\ call'[c].size = Len(pieces) /\ call'[c].list = list
    BY <1>e, <1>4
  <2>2. QED
    BY <1>1, <1>e, <1>4, <2>1, InterruptedProperties
<1>6. SizeInv' /\ BegunInv'
  BY <1>e, <1>u, <1>5 DEF CompleteInv, SizeInv, BegunInv, Prefilling
<1>7. SaidInv'
  BY <1>5 DEF SaidInv, Lone, Prefilling
<1>8. QED
  BY <1>6, <1>7 DEF CompleteInv

LEMMA CompleteTile ==
    ASSUME Inv, CompleteInv, NEW c \in Calls, PrefillTile(c)
    PROVE  CompleteInv'
<1> DEFINE todo == call[c].todo
           tile == Tile(c)
           rest == SubSeq(todo, TileSize + 1, Len(todo))
<1>1. /\ TypeOK /\ LoneInv /\ Waiting(c) /\ Active(c) /\ call[c].phase = "prefill"
      /\ todo \in Seq(Pieces) /\ Len(todo) > TileSize /\ call[c] \in Invocation
  BY DEF Inv, PrefillTile, Active, Waiting, TypeOK, Invocation
<1>2. /\ tile \in Seq(Pieces) /\ rest \in Seq(Pieces) /\ tile # <<>> /\ tile \o rest = todo
  <2>1. /\ TileSize \in 1 - 1 .. Len(todo) /\ Len(todo) \in TileSize .. Len(todo)
        /\ 1 \in 1 .. Len(todo) + 1
    BY <1>1
  <2>2. SubSeq(todo, 1, TileSize) \o SubSeq(todo, TileSize + 1, Len(todo)) = SubSeq(todo, 1, Len(todo))
    BY <1>1, <2>1, ConcatAdjacentSubSeq
  <2>3. SubSeq(todo, 1, Len(todo)) = todo
    BY <1>1, SubSeqFull
  <2>4. \A i \in 1 .. Len(todo) : todo[i] \in Pieces
    BY <1>1
  <2>5. SubSeq(todo, 1, TileSize) \in Seq(Pieces) /\ Len(SubSeq(todo, 1, TileSize)) = TileSize
    BY <1>1, <2>4, SubSeqProperties
  <2>6. SubSeq(todo, TileSize + 1, Len(todo)) \in Seq(Pieces)
    BY <1>1, <2>4, SubSeqProperties
  <2>7. SubSeq(todo, 1, TileSize) # <<>>
    BY <2>5
  <2>8. QED
    BY <2>2, <2>3, <2>5, <2>6, <2>7 DEF Tile
<1>3. /\ Forwarded(c, tile) /\ UNCHANGED <<session, skipped>>
      /\ call' = [call EXCEPT ![c] = AtNextTile(c)]
  BY DEF PrefillTile
<1>4. /\ AtNextTile(c).phase = "prefill" /\ AtNextTile(c).list = call[c].list
      /\ AtNextTile(c).alone = call[c].alone /\ AtNextTile(c).todo = rest
      /\ AtNextTile(c).size = call[c].size /\ AtNextTile(c).own = call[c].own
  BY <1>1 DEF AtNextTile, Invocation
<1>5. call'[c] = AtNextTile(c) /\ \A d \in Calls \ {c} : call'[d] = call[d]
  BY <1>1, <1>3 DEF TypeOK
<1> HIDE DEF tile, rest
<1>6. SizeInv' /\ BegunInv'
  <2>1. \A d \in Calls : /\ Prefilling(d)' <=> Prefilling(d)
                         /\ call'[d].size = call[d].size /\ call'[d].own = call[d].own
    BY <1>1, <1>4, <1>5 DEF Prefilling
  <2>2. QED
    BY <1>3, <2>1, RecordKept DEF CompleteInv
<1>7. SaidInv'
  <2>1. SUFFICES ASSUME Unmixed', ~skipped'
                 PROVE  /\ Prefilling(c)'
                        /\ \A d \in Calls : Lone(d)' => d = c
                        /\ Says(cache' \o call'[c].todo, call'[c].list)
    BY DEF SaidInv
  <2>2. Lone(c) /\ Unmixed
    BY <1>1, <1>2, <1>3, <2>1, ForwardUnmixed
  <2>3. Says(cache \o todo, call[c].list)
    BY <1>1, <1>3, <2>1, <2>2 DEF CompleteInv, SaidInv, Prefilling
  <2>4. cache' = cache \o tile
    BY <1>1, <1>3, <2>2, LoneForwarded DEF LoneInv, LonePrefill
  <2>5. cache' \o rest = cache \o todo
    <3>1. cache \in Seq(Pieces) /\ tile \in Seq(Pieces) /\ rest \in Seq(Pieces)
      BY <1>1, <1>2 DEF TypeOK
    <3>2. (cache \o tile) \o rest = cache \o (tile \o rest)
      BY <3>1, ConcatAssociative
    <3>3. QED
      BY <1>2, <2>4, <3>2
  <2>6. \A d \in Calls : Lone(d)' => d = c
    BY <1>1, <1>4, <1>5, OwnStep
  <2>7. QED
    BY <1>4, <1>5, <2>3, <2>5, <2>6 DEF Prefilling
<1>8. QED
  BY <1>6, <1>7 DEF CompleteInv

\* The last forward of a prefill, and one of the decode loop.
LEMMA SaidForwardDone ==
    ASSUME Inv, NEW c \in Calls, Waiting(c), NEW positions \in Nat, NEW tokens \in Nat,
           Forwarded(c, call[c].todo), SessionMoved(c, positions, tokens), Sampled(c),
           Lone(c) /\ Unmixed /\ ~skipped' => Says(cache \o call[c].todo, call[c].list)
    PROVE  SaidInv'
<1>1. TypeOK /\ LoneInv /\ Active(c) /\ call[c].todo \in Seq(Pieces) /\ call[c].todo # <<>>
  BY DEF Inv, Active, TypeOK, Invocation, TodoInv
<1>2. /\ \A d \in Calls \ {c} : call'[d] = call[d]
      /\ \/ call'[c] = Idle
         \/ /\ call'[c].phase = "yielded" /\ call'[c].list = call[c].list
            /\ call'[c].alone = call[c].alone
  BY <1>1, SampledProperties
<1>3. ~Prefilling(c)' /\ \A d \in Calls : Lone(d)' => d = c
  <2>1. ~Prefilling(c)'
    BY <1>2 DEF Prefilling, Idle
  <2>2. QED
    BY <1>1, <1>2, <2>1, OwnStep, IdleInactive
<1>4. SUFFICES ASSUME Unmixed', ~skipped' PROVE Says(cache', session'.messages)
  BY <1>3 DEF SaidInv
<1>5. Lone(c) /\ Unmixed
  BY <1>1, <1>4, ForwardUnmixed
<1>6. cache' = cache \o call[c].todo
  BY <1>1, <1>5, LoneForwarded DEF LoneInv, LonePrefill, LoneDecode, Waiting
<1>7. session'.messages = call[c].list
  BY <1>1, <1>5, SessionMovedProperties DEF LoneInv
<1>8. QED
  BY <1>4, <1>5, <1>6, <1>7

LEMMA CompletePrefillDone ==
    ASSUME Inv, CompleteInv, NEW c \in Calls, PrefillDone(c)
    PROVE  CompleteInv'
<1>1. /\ TypeOK /\ Waiting(c) /\ Prefilling(c)
      /\ call[c].size \in Nat /\ session.position \in Nat /\ call[c].own \in BOOLEAN
  BY DEF Inv, PrefillDone, Waiting, Prefilling, TypeOK, Invocation, Session
<1>2. /\ Forwarded(c, call[c].todo) /\ SessionMoved(c, call[c].size, call[c].size)
      /\ Sampled(c) /\ skipped' = skipped
  BY DEF PrefillDone
<1>3. SaidInv'
  <2>1. Lone(c) /\ Unmixed /\ ~skipped' => Says(cache \o call[c].todo, call[c].list)
    BY <1>1, <1>2 DEF CompleteInv, SaidInv
  <2>2. QED
    BY <1>1, <1>2, <2>1, SaidForwardDone
<1>4. /\ session'.messages = session.messages
      /\ call[c].own => session' = session
      /\ ~call[c].own => session'.position = session.position + call[c].size
  BY <1>1, <1>2, SessionMovedProperties
<1>5. \A d \in Calls \ {c} : call'[d] = call[d]
  BY <1>1, <1>2, SampledProperties
<1>6. ~Prefilling(c)'
  BY <1>1, <1>2, SampledProperties DEF Prefilling, Idle
<1>7. session'.position = 0 => call[c].own /\ session' = session
  <2>1. call[c].size # 0
    BY <1>1 DEF CompleteInv, SizeInv
  <2>2. QED
    BY <1>1, <1>4, <2>1
<1>8. SizeInv' /\ BegunInv'
  <2>1. \A d \in Calls : Prefilling(d)' => Prefilling(d) /\ call'[d].size = call[d].size
    BY <1>5, <1>6 DEF Prefilling
  <2>2. session'.position = 0 =>
            \A d \in Calls : Prefilling(d) /\ ~call[d].own => Prefilling(d)' /\ ~call'[d].own
    BY <1>5, <1>7 DEF Prefilling
  <2>3. session'.position = 0 => session.position = 0
    BY <1>7
  <2>4. QED
    BY <1>2, <1>4, <2>1, <2>2, <2>3, RecordKept DEF CompleteInv
<1>9. QED
  BY <1>3, <1>8 DEF CompleteInv

LEMMA CompleteDecodeDone ==
    ASSUME Inv, CompleteInv, NEW c \in Calls, DecodeDone(c)
    PROVE  CompleteInv'
<1>1. /\ TypeOK /\ LoneInv /\ Waiting(c) /\ call[c].phase = "decode" /\ session.position \in Nat
      /\ call[c].own \in BOOLEAN
      /\ cache \in Seq(Pieces) /\ call[c].list \in Seq(Messages)
  BY DEF Inv, DecodeDone, Waiting, TypeOK, Session, Invocation
<1>2. Forwarded(c, call[c].todo) /\ SessionMoved(c, 1, 0) /\ Sampled(c) /\ skipped' = skipped
  BY DEF DecodeDone
<1>3. SaidInv'
  <2>1. ASSUME Lone(c), Unmixed, ~skipped' PROVE Says(cache \o call[c].todo, call[c].list)
    <3>1. /\ session.messages = call[c].list /\ session.position = nCached
          /\ call[c].todo = <<Reply>> /\ \A d \in Calls : Active(d) => d = c
      BY <1>1, <2>1 DEF LoneInv, LoneDecode
    <3>2. \A d \in Calls : ~Prefilling(d)
      BY <1>1, <3>1 DEF Prefilling, Active, Waiting
    <3>3. Says(cache, call[c].list)
      BY <1>2, <2>1, <3>1, <3>2 DEF CompleteInv, SaidInv
    <3>4. QED
      BY <1>1, <3>1, <3>3, SaysReply
  <2>2. QED
    BY <1>1, <1>2, <2>1, SaidForwardDone
<1>4. /\ session'.messages = session.messages
      /\ session'.position = 0 => session.position = 0
  <2>1. /\ session'.messages = session.messages
        /\ call[c].own => session' = session
        /\ ~call[c].own => session'.position = session.position + 1
    BY <1>1, <1>2, SessionMovedProperties
  <2>2. session.position + 1 # 0
    BY <1>1
  <2>3. QED
    BY <2>1, <2>2
<1>5. /\ \A d \in Calls \ {c} : call'[d] = call[d]
      /\ ~Prefilling(c)' /\ ~Prefilling(c)
  BY <1>1, <1>2, SampledProperties DEF Prefilling, Idle
<1>6. SizeInv' /\ BegunInv'
  <2>1. \A d \in Calls : Prefilling(d)' => Prefilling(d) /\ call'[d].size = call[d].size
    BY <1>5 DEF Prefilling
  <2>2. \A d \in Calls : Prefilling(d) /\ ~call[d].own => Prefilling(d)' /\ ~call'[d].own
    BY <1>5 DEF Prefilling
  <2>3. QED
    BY <1>2, <1>4, <2>1, <2>2, RecordKept DEF CompleteInv
<1>7. QED
  BY <1>3, <1>6 DEF CompleteInv

\* The steps of one call that leave the cache, and the position and the messages
\* of the session.
LEMMA CompleteQuiet ==
    ASSUME Inv, CompleteInv, NEW c \in Calls, Resume(c) \/ Fail(c) \/ Leave(c)
    PROVE  CompleteInv'
<1>1. TypeOK /\ LoneInv /\ Active(c) /\ session.position \in Nat /\ call[c].own \in BOOLEAN
  BY DEF Inv, Resume, Fail, Leave, Active, TypeOK, Session, Invocation
<1>2. /\ cache' = cache
      /\ ~skipped' => ~skipped /\ ~Prefilling(c)
      /\ call' = [call EXCEPT ![c] = Idle] \/ call' = [call EXCEPT ![c] = Decoding(c)]
  <2>1. CASE Resume(c)
    BY <2>1 DEF Resume, Prefilling
  <2>2. CASE Fail(c)
    BY <2>2 DEF Fail, Prefilling
  <2>3. CASE Leave(c)
    BY <2>3 DEF Leave, Prefilling
  <2>4. QED
    BY <2>1, <2>2, <2>3
<1>3. session'.messages = session.messages /\ session'.position = session.position
  <2>1. CASE Resume(c)
    <3>1. SessionMoved(c, 0, 1)
      BY <2>1 DEF Resume
    <3>2. /\ session'.messages = session.messages
          /\ call[c].own => session' = session
          /\ ~call[c].own => session'.position = session.position + 0
      BY <1>1, <3>1, SessionMovedProperties
    <3>3. session.position + 0 = session.position
      BY <1>1
    <3>4. QED
      BY <3>2, <3>3
  <2>2. CASE Fail(c) \/ Leave(c)
    BY <2>2 DEF Fail, Leave
  <2>3. QED
    BY <2>1, <2>2
<1>4. /\ \A d \in Calls \ {c} : call'[d] = call[d]
      /\ call'[c].phase \in {"idle", "decode"}
  <2>1. Idle.phase = "idle" /\ Decoding(c).phase = "decode"
    BY <1>1 DEF TypeOK, Idle, Decoding, Invocation
  <2>2. QED
    BY <1>1, <1>2, <2>1 DEF TypeOK
<1>5. ~Prefilling(c)' /\ \A d \in Calls \ {c} : Prefilling(d)' <=> Prefilling(d)
  BY <1>4 DEF Prefilling
<1>6. SizeInv' /\ BegunInv'
  <2>1. \A d \in Calls : Prefilling(d)' => Prefilling(d) /\ call'[d].size = call[d].size
    BY <1>4, <1>5
  <2>2. ~skipped' =>
            \A d \in Calls : Prefilling(d) /\ ~call[d].own => Prefilling(d)' /\ ~call'[d].own
    BY <1>2, <1>4, <1>5
  <2>3. QED
    BY <1>2, <1>3, <2>1, <2>2, RecordKept DEF CompleteInv
<1>7. SaidInv'
  <2>1. \A d \in Calls : Prefilling(d)' => d # c /\ call'[d] = call[d]
    BY <1>4, <1>5
  <2>2. \A d \in Calls :
            Lone(d)' /\ Prefilling(d)' =>
                Lone(d) /\ call'[d].todo = call[d].todo /\ call'[d].list = call[d].list
    BY <2>1 DEF Lone, Active, Waiting
  <2>3. ~skipped' => \A d \in Calls : Prefilling(d)' <=> Prefilling(d)
    BY <1>2, <1>5
  <2>4. QED
    BY <1>2, <1>3, <2>2, <2>3, SaidKept DEF CompleteInv
<1>8. QED
  BY <1>6, <1>7 DEF CompleteInv

LEMMA CompleteAbort ==
    ASSUME Inv, CompleteInv, NEW c \in Calls, Abort(c)
    PROVE  CompleteInv'
<1>1. /\ call' = [call EXCEPT ![c].aborted = TRUE] /\ UNCHANGED <<session, cache, skipped>>
      /\ TypeOK
  BY DEF Abort, Inv
<1>2. \A d \in Calls : /\ call'[d].phase = call[d].phase /\ call'[d].size = call[d].size
                       /\ call'[d].own = call[d].own /\ call'[d].todo = call[d].todo
                       /\ call'[d].list = call[d].list /\ call'[d].alone = call[d].alone
  BY <1>1 DEF TypeOK, Invocation
<1>3. \A d \in Calls : (Prefilling(d)' <=> Prefilling(d)) /\ (Lone(d)' <=> Lone(d))
  BY <1>2 DEF Prefilling, Lone, Active, Waiting
<1>4. SizeInv' /\ BegunInv'
  BY <1>1, <1>2, <1>3, RecordKept DEF CompleteInv
<1>5. SaidInv'
  BY <1>1, <1>2, <1>3, SaidKept DEF CompleteInv
<1>6. QED
  BY <1>4, <1>5 DEF CompleteInv

LEMMA CompleteReset ==
    ASSUME Inv, CompleteInv, ResetModelSession
    PROVE  CompleteInv'
<1>1. \A c \in Calls : /\ call'[c].alone = FALSE /\ call'[c].phase = call[c].phase
                       /\ call'[c].size = call[c].size
  BY ResetCalls DEF Inv
<1>2. session'.messages = <<>> /\ cache' = <<>>
  BY DEF ResetModelSession, Fresh
<1>3. SizeInv' /\ BegunInv'
  BY <1>1, <1>2 DEF CompleteInv, SizeInv, BegunInv, Prefilling
<1>4. SaidInv'
  BY <1>1, <1>2, NothingSaid DEF SaidInv, Lone
<1>5. QED
  BY <1>3, <1>4 DEF CompleteInv

LEMMA CompleteConversation ==
    ASSUME Inv, CompleteInv, NEW n \in 0 .. MaxForeign, ConversationStep(n)
    PROVE  CompleteInv'
<1>1. /\ cache' = [i \in 1 .. n |-> Foreign] /\ call' = Interrupted
      /\ UNCHANGED <<session, skipped>> /\ TypeOK
  BY DEF ConversationStep, Inv
<1>2. \A c \in Calls : /\ call'[c].alone = FALSE /\ call'[c].phase = call[c].phase
                       /\ call'[c].size = call[c].size /\ call'[c].own = call[c].own
  BY <1>1, InterruptedProperties
<1>3. SizeInv' /\ BegunInv'
  BY <1>1, <1>2, RecordKept DEF CompleteInv, Prefilling
<1>4. SaidInv'
  <2>1. CASE n = 0
    <3>1. cache' = <<>> /\ nCached' = 0
      BY <1>1, <2>1, Z3 DEF nCached
    <3>2. ~skipped' /\ session'.position = 0 /\ (\A c \in Calls : ~Prefilling(c)')
            => session'.messages = <<>>
      BY <1>3 DEF BegunInv
    <3>3. QED
      BY <1>2, <3>1, <3>2, NothingSaid DEF SaidInv, Lone
  <2>2. CASE n # 0
    <3>1. Len(cache') = n /\ 1 \in 1 .. n /\ cache'[1] = Foreign
      BY <1>1, <2>2
    <3>2. ~Unmixed'
      BY <3>1 DEF Unmixed, ToSet
    <3>3. QED
      BY <3>2 DEF SaidInv
  <2>3. QED
    BY <2>1, <2>2
<1>5. QED
  BY <1>3, <1>4 DEF CompleteInv

LEMMA CompleteNext ==
    ASSUME Inv, CompleteInv, [Next]_vars
    PROVE  CompleteInv'
<1>1. ASSUME NEW c \in Calls, NEW list \in Chats,
             BeginChat(c, list, FALSE) \/ BeginChat(c, list, TRUE)
      PROVE  CompleteInv'
  BY <1>1, CompleteBegin
<1>2. ASSUME NEW c \in Calls, CallStep(c) PROVE CompleteInv'
  BY <1>2, CompleteTile, CompletePrefillDone, CompleteDecodeDone, CompleteQuiet DEF CallStep
<1>3. ASSUME NEW c \in Calls, BeginPrompt(c) \/ Abort(c) PROVE CompleteInv'
  BY <1>3, CompletePrompt, CompleteAbort
<1>4. CASE ResetModelSession \/ \E n \in 0 .. MaxForeign : ConversationStep(n)
  BY <1>4, CompleteReset, CompleteConversation
<1>5. CASE UNCHANGED vars
  BY <1>5 DEF vars, CompleteInv, SizeInv, BegunInv, SaidInv, Prefilling, Unmixed, nCached,
              Lone, Active, Waiting
<1>6. QED
  BY <1>1, <1>2, <1>3, <1>4, <1>5 DEF Next

\* A lone chat past its prefill has all its messages in the cache, once each and in
\* order, unless a chat before it ended before its prefill was complete
\* (prepareChatPrompt records the messages before they are forwarded).
THEOREM ContextIsCompleteHolds == Spec => []ContextIsComplete
<1>1. Init => CompleteInv
  <2>1. SUFFICES ASSUME Init PROVE CompleteInv
    OBVIOUS
  <2>2. session.messages = <<>> /\ cache = <<>>
    BY <2>1 DEF Init, Fresh
  <2>3. \A c \in Calls : ~Prefilling(c)
    BY <2>1 DEF Init, Idle, Prefilling
  <2>4. QED
    BY <2>2, <2>3, NothingSaid DEF CompleteInv, SizeInv, BegunInv, SaidInv
<1>2. Inv /\ CompleteInv => ContextIsComplete
  <2>1. SUFFICES ASSUME Inv, CompleteInv, NEW c \in Calls, Lone(c), Prefilled(c), Unmixed, ~skipped
                 PROVE  Says(cache, call[c].list)
    BY DEF ContextIsComplete
  <2>2. /\ session.messages = call[c].list /\ session.position = nCached
        /\ \A d \in Calls : Active(d) => d = c
    BY <2>1 DEF Inv, LoneInv, LoneDecode, Prefilled
  <2>3. \A d \in Calls : ~Prefilling(d)
    BY <2>1, <2>2 DEF Prefilling, Prefilled, Active, Waiting
  <2>4. QED
    BY <2>1, <2>2, <2>3 DEF CompleteInv, SaidInv
<1>3. Inv /\ CompleteInv /\ [Next]_vars => CompleteInv'
  BY CompleteNext
<1>4. QED
  BY <1>1, <1>2, <1>3, InvHolds, PTL DEF Spec
=============================================================================
