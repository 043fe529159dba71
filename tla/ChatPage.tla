------------------------------- MODULE ChatPage -------------------------------
(***************************************************************************)
(* The chat page: one engine in a worker, one conversation, one saved slot *)
(* (metadata in localStorage, the exported cache in IndexedDB).  Its       *)
(* handlers are asynchronous and share their variables: a turn, the save   *)
(* after it, a load, a clear and a restore may overlap at their awaits,    *)
(* and the page may be reloaded at any moment.                             *)
(*                                                                         *)
(* A message is its role.  Models are left out: a load is named for the    *)
(* engine it brings up.  A worker takes the requests of the page in order, *)
(* and its answer is handled in the step that serves the request.  A load  *)
(* leaves the engine before it running: the proxy has no shutdown, so the  *)
(* call engine.shutdown?.() does nothing (chat-page.js:52).  Its turns go  *)
(* on, and its answers arrive.                                             *)
(***************************************************************************)
EXTENDS Naturals, Sequences, FiniteSets, SequencesExt

CONSTANTS
    Loads,        \* calls of loadModelById, and the engines they bring up
    Sends,        \* calls of send, used again when they are over
    Clears,       \* calls of clearConversation, used again
    None,
    MaxCalls,     \* bound: sends and clears
    MaxReloads    \* bound

\* What the constants are.
PageConstants == None \notin Nat \cup Loads \cup Sends \cup Clears

VARIABLES
    engine, loaded, sendDisabled, conv, abortController,  \* the page's own
    card,      \* what the restore card offers, or None
    load,      \* per load: where loadModelById is suspended
    send,      \* per send: where it is suspended
    clearing,  \* per clear: it awaits the engine
    resume,    \* the Resume handler of the card
    up,        \* workers that live: nothing but a reload ends one
    requests,  \* per engine: requests not yet served
    convs,     \* conversations, in the order of their ids
    gen,       \* per send, what became of its stream: none, asked, running, saving, refused
    meta, blob, writes,  \* the slot, and the writes to IndexedDB under way
    calls, reloads,  \* counted for the bounds
    cleared    \* history: a clear disposed of the page's conversation, nothing was sent since

page    == <<engine, loaded, sendDisabled, conv, abortController, card>>
slot    == <<meta, blob, writes>>
counts  == <<calls, reloads>>
worker  == <<up, requests, convs, gen>>
vars    == <<page, load, send, clearing, resume, worker, slot, counts, cleared>>

NoLoad == [phase |-> "none", engine |-> None]
NoSend == [phase |-> "idle", conv |-> None, engine |-> None, got |-> FALSE, mixed |-> FALSE,
           stop |-> FALSE]
NoResume == [phase |-> "none", load |-> None, meta |-> None]

Init ==
    /\ engine = None /\ loaded = None /\ sendDisabled = TRUE
    /\ conv = None /\ abortController = None /\ card = None
    /\ load = [l \in Loads |-> NoLoad] /\ send = [s \in Sends |-> NoSend]
    /\ clearing = [k \in Clears |-> FALSE] /\ resume = NoResume
    /\ up = {} /\ requests = [e \in Loads \cup {None} |-> <<>>] /\ convs = <<>>
    /\ gen = [s \in Sends |-> "none"]
    /\ meta = None /\ blob = None /\ writes = <<>>
    /\ calls = 0 /\ reloads = 0 /\ cleared = FALSE

\* A request to no engine fails when its turn comes.
Request(kind, by, c) == [kind |-> kind, by |-> by, conv |-> c, handle |-> loaded]
Post(e, request) == requests' = [requests EXCEPT ![e] = Append(@, request)]

-----------------------------------------------------------------------------
(* Loading a model.                                                        *)

\* From the call to the await of WebLLM.init: the engine there was, if any, is
\* forgotten.  The await of its missing shutdown lets no event in.
loadModelById(l) ==
    /\ load[l] = NoLoad
    /\ load' = [load EXCEPT ![l].phase = "init"]
    /\ engine' = None
    /\ loaded' = IF engine # None THEN None ELSE loaded
    /\ sendDisabled' = (sendDisabled \/ engine # None)

\* The dropdown, the page that loads the last model, Discard: by the user's leave.
\* The conversation of the page stays, though it is not the new engine's.
ModelChange(l) ==
    /\ loadModelById(l)
    /\ UNCHANGED <<conv, abortController, card, send, clearing, resume, worker, slot, counts,
                   cleared>>

InitDone(l) ==
    /\ load[l].phase = "init"
    /\ up' = up \cup {l} /\ engine' = l
    /\ load' = [load EXCEPT ![l].phase = "loading"]
    /\ UNCHANGED <<loaded, sendDisabled, conv, abortController, card, send, clearing, resume,
                   requests, convs, gen, slot, counts, cleared>>

\* loadedHandleId is the handle that engine l gave.
LoadDone(l) ==
    /\ load[l].phase = "loading"
    /\ loaded' = l /\ sendDisabled' = FALSE
    /\ load' = [load EXCEPT ![l] = [phase |-> "ready", engine |-> engine]]
    /\ UNCHANGED <<engine, conv, abortController, card, send, clearing, resume, worker, slot,
                   counts, cleared>>

\* What the load brought up is forgotten, not shut down.
LoadFails(l) ==
    /\ load[l].phase \in {"init", "loading"}
    /\ engine' = None /\ loaded' = None
    /\ load' = [load EXCEPT ![l].phase = "failed"]
    /\ UNCHANGED <<sendDisabled, conv, abortController, card, send, clearing, resume, worker,
                   slot, counts, cleared>>

-----------------------------------------------------------------------------
(* A turn.                                                                 *)

InTurn == {s \in Sends : send[s].phase = "turn"}

\* send, from the await of ensureConversation to that of sendTurn.  Turns under
\* way at the same time are marked as mixed.
BeginTurn(s, c, conversations) ==
    /\ convs' = [conversations EXCEPT ![c].messages = Append(@, "user")]
    /\ send' = [t \in Sends |->
                  IF t = s THEN [NoSend EXCEPT !.phase = "turn", !.conv = c, !.engine = engine,
                                               !.mixed = InTurn # {}]
                  ELSE IF t \in InTurn THEN [send[t] EXCEPT !.mixed = TRUE]
                  ELSE send[t]]
    /\ abortController' = s /\ sendDisabled' = TRUE /\ cleared' = FALSE
    /\ gen' = [gen EXCEPT ![s] = "asked"]

\* The Enter key: the button's state is not looked at.  A member of Sends is
\* used again once the worker is done with it, too.
Send(s) ==
    /\ calls < MaxCalls /\ calls' = calls + 1
    /\ engine # None /\ loaded # None
    /\ send[s].phase = "idle" /\ gen[s] = "none"
    /\ IF conv # None
       THEN /\ BeginTurn(s, conv, convs)
            /\ Post(engine, Request("start", s, conv))
       ELSE /\ send' = [send EXCEPT ![s] = [NoSend EXCEPT !.phase = "creating"]]
            /\ Post(engine, Request("create", s, None))
            /\ UNCHANGED <<convs, abortController, sendDisabled, cleared, gen>>
    /\ UNCHANGED <<engine, loaded, conv, card, load, clearing, resume, up, slot, reloads>>

\* Mutant: a turn saves its own conversation.
ToSaveOwn(s) == send[s].conv

ToSave(s) == conv

\* send after sendTurn, which left the conversations so: give the controls back,
\* save the page's conversation.  With no model there it throws before it saves.
AfterTurn(s, conversations) ==
    LET c == ToSave(s)
    IN  /\ abortController' = None /\ sendDisabled' = FALSE
        /\ convs' = conversations
        /\ IF c # None /\ loaded # None
           THEN /\ meta' = [messages |-> conversations[c].messages,
                            odd |-> conversations[c].odd \/ send[s].mixed]
                /\ send' = [send EXCEPT ![s].phase = "exporting"]
                /\ Post(engine, Request("export", s, c))
           ELSE /\ send' = [send EXCEPT ![s].phase = "idle"]
                /\ UNCHANGED <<meta, requests>>
        /\ UNCHANGED <<engine, loaded, conv, card, load, clearing, resume, up, blob, writes,
                       counts, cleared>>

\* odd, history: a turn of the conversation has failed or was mixed with another.
Turned(s, messages, failed) ==
    LET c == send[s].conv
    IN  [convs EXCEPT ![c].messages = messages, ![c].odd = @ \/ failed \/ send[s].mixed]

Messages(s) == convs[send[s].conv].messages

Chunk(s) ==
    /\ gen[s] = "running"
    /\ send[s].phase = "turn" /\ ~send[s].stop
    /\ send' = [send EXCEPT ![s].got = TRUE]
    /\ UNCHANGED <<page, load, clearing, resume, worker, slot, counts, cleared>>

\* The last chunk ends the turn.  It may reach the page before the worker has
\* saved the conversation's cache and released its lock.
TurnDone(s) ==
    /\ send[s].phase = "turn" /\ ~send[s].stop /\ gen[s] = "saving"
    /\ gen' \in {gen, [gen EXCEPT ![s] = "none"]}
    /\ AfterTurn(s, Turned(s, Append(Messages(s), "assistant"), FALSE))

\* The Stop button.
Stop(s) ==
    /\ abortController = s /\ send[s].phase = "turn"
    /\ send' = [send EXCEPT ![s].stop = TRUE]
    /\ UNCHANGED <<page, load, clearing, resume, worker, slot, counts, cleared>>

\* Mutant: a turn that was stopped before its first chunk keeps its question.
StoppedKept(messages, got) == IF got THEN Append(messages, "assistant") ELSE messages

Stopped(messages, got) == IF got THEN Append(messages, "assistant") ELSE Front(messages)

TurnStopped(s) ==
    /\ send[s].phase = "turn" /\ send[s].stop
    /\ AfterTurn(s, Turned(s, Stopped(Messages(s), send[s].got), FALSE))
    /\ UNCHANGED gen

\* onError: the question stays, without an answer.
TurnFails(s) ==
    /\ send[s].phase = "turn" /\ ~send[s].stop /\ gen[s] = "refused"
    /\ gen' = [gen EXCEPT ![s] = "none"]
    /\ AfterTurn(s, Turned(s, Messages(s), TRUE))

-----------------------------------------------------------------------------
(* The worker, as the page uses it.                                        *)

\* The stream has come to its end, and the cache is being saved.
Saving(s) ==
    /\ gen[s] = "running"
    /\ gen' = [gen EXCEPT ![s] = "saving"]
    /\ UNCHANGED <<page, load, send, clearing, resume, up, requests, convs, slot, counts, cleared>>

\* The generation throws.
Throw(s) ==
    /\ gen[s] = "running"
    /\ gen' = [gen EXCEPT ![s] = "refused"]
    /\ UNCHANGED <<page, load, send, clearing, resume, up, requests, convs, slot, counts, cleared>>

\* The lock is released: the cache is saved, or the stream was left.
Release(s) ==
    /\ gen[s] \in {"running", "saving", "refused"}
    /\ send[s].phase # "turn"
    /\ gen' = [gen EXCEPT ![s] = "none"]
    /\ UNCHANGED <<page, load, send, clearing, resume, up, requests, convs, slot, counts, cleared>>

Serving(e, kind, by) ==
    /\ requests[e] # <<>>
    /\ Head(requests[e]).kind = kind /\ Head(requests[e]).by = by

Served(e) == [requests EXCEPT ![e] = Tail(@)]

Alive(e, c) == e \in up /\ convs[c].engine = e /\ ~convs[c].gone

Locked(c) == \E s \in Sends : send[s].conv = c /\ gen[s] \in {"running", "saving"}

Created(e, messages, odd) ==
    Append(convs, [engine |-> e, gone |-> FALSE, messages |-> messages, odd |-> odd])

HandleOf(e) == e \in up /\ Head(requests[e]).handle = e

\* createConversation, and send goes on; or send rejects, and nobody looks.
Create(e, s) ==
    /\ Serving(e, "create", s)
    /\ \/ /\ HandleOf(e)
          /\ conv' = Len(convs) + 1
          /\ BeginTurn(s, conv', Created(e, <<>>, FALSE))
          /\ requests' = [Served(e) EXCEPT ![engine] = Append(@, Request("start", s, conv'))]
       \/ /\ ~HandleOf(e)
          /\ send' = [send EXCEPT ![s].phase = "idle"]
          /\ requests' = Served(e)
          /\ UNCHANGED <<conv, convs, abortController, sendDisabled, cleared, gen>>
    /\ UNCHANGED <<engine, loaded, card, load, clearing, resume, up, slot, counts>>

\* chatCompletion takes the conversation's lock, or refuses.
Start(e, s) ==
    LET c == Head(requests[e]).conv
    IN  /\ Serving(e, "start", s)
        /\ gen' = [gen EXCEPT ![s] = IF Alive(e, c) /\ ~Locked(c) THEN "running" ELSE "refused"]
        /\ requests' = Served(e)
        /\ UNCHANGED <<page, load, send, clearing, resume, up, convs, slot, counts, cleared>>

-----------------------------------------------------------------------------
(* The slot.                                                               *)

AfterExport == UNCHANGED <<abortController, sendDisabled>>

\* What an exported conversation holds is left out.
Saved == "saved"

\* saveCurrent: the blob is written if the engine exports it.
Export(e, s) ==
    LET c == Head(requests[e]).conv
    IN  /\ Serving(e, "export", s)
        /\ requests' = Served(e)
        /\ IF Alive(e, c) /\ ~Locked(c)
           THEN /\ writes' = Append(writes, [blob |-> Saved, by |-> s])
                /\ send' = [send EXCEPT ![s].phase = "putting"]
           ELSE /\ send' = [send EXCEPT ![s].phase = "idle"]
                /\ UNCHANGED writes
        /\ AfterExport
        /\ UNCHANGED <<engine, loaded, conv, card, load, clearing, resume, up, convs, gen, meta,
                       blob, counts, cleared>>

Delete == [blob |-> None, by |-> None]

\* IndexedDB commits in the order of the requests.
Commit ==
    /\ writes # <<>>
    /\ LET w == Head(writes)
       IN  /\ blob' = w.blob
           /\ send' = [s \in Sends |-> IF w.by = s THEN [send[s] EXCEPT !.phase = "idle"]
                                                  ELSE send[s]]
    /\ writes' = Tail(writes)
    /\ UNCHANGED <<page, load, clearing, resume, worker, meta, counts, cleared>>

\* clearConversation, by the buttons or by Apply.
Clear(k) ==
    /\ calls < MaxCalls /\ calls' = calls + 1
    /\ conv # None /\ ~clearing[k]
    /\ clearing' = [clearing EXCEPT ![k] = TRUE]
    /\ Post(engine, Request("dispose", k, conv))
    /\ UNCHANGED <<page, load, send, resume, up, convs, gen, slot, reloads, cleared>>

\* An engine calls its conversations by their numbers.
Number(c) == Cardinality({d \in 1..c : convs[d].engine = convs[c].engine})

\* disposeConversation looks at the number alone: the conversation of another engine
\* takes the one of its number along.
Named(e, c) == {d \in DOMAIN convs : convs[d].engine = e /\ Number(d) = Number(c)}

\* Another engine, left behind by a load, has yet to export a conversation of its own,
\* and will: no clear reaches that request.
ExportedElsewhere(e) ==
    \E f \in up \ {e} : \E i \in DOMAIN requests[f] :
        requests[f][i].kind = "export" /\ Alive(f, requests[f][i].conv)

Dispose(e, k) ==
    LET c == Head(requests[e]).conv
    IN  /\ Serving(e, "dispose", k)
        /\ requests' = Served(e)
        /\ convs' = [d \in DOMAIN convs |-> [convs[d] EXCEPT !.gone = @ \/ d \in Named(e, c)]]
        /\ conv' = None
        /\ meta' = None /\ writes' = Append(writes, Delete)
        /\ clearing' = [clearing EXCEPT ![k] = FALSE]
        /\ cleared' = (c = conv /\ ~ExportedElsewhere(e))
        /\ UNCHANGED <<engine, loaded, sendDisabled, abortController, card, load, send, resume, up,
                       gen, blob, counts>>

-----------------------------------------------------------------------------
(* Reloading the page, and the restore card.                               *)

\* The page and its worker are gone, with the writes not committed.
Reload ==
    /\ reloads < MaxReloads /\ reloads' = reloads + 1
    /\ engine' = None /\ loaded' = None /\ sendDisabled' = TRUE
    /\ conv' = None /\ abortController' = None /\ card' = meta
    /\ load' = [l \in Loads |-> NoLoad]
    /\ send' = [s \in Sends |-> NoSend] /\ clearing' = [k \in Clears |-> FALSE]
    /\ resume' = NoResume
    /\ up' = {} /\ requests' = [e \in DOMAIN requests |-> <<>>] /\ convs' = <<>>
    /\ gen' = [s \in Sends |-> "none"]
    /\ writes' = <<>>
    /\ cleared' = FALSE
    /\ UNCHANGED <<meta, blob, calls>>

\* The load of the preselected model that follows is a ModelChange.
Discard ==
    /\ card # None /\ card' = None
    /\ meta' = None /\ writes' = Append(writes, Delete)
    /\ UNCHANGED <<engine, loaded, sendDisabled, conv, abortController, load, send, clearing,
                   resume, worker, blob, counts, cleared>>

Resume(l) ==
    /\ card # None /\ card' = None
    /\ loadModelById(l)
    /\ resume' = [phase |-> "loading", load |-> l, meta |-> card]
    /\ cleared' = FALSE
    /\ UNCHANGED <<conv, abortController, send, clearing, worker, slot, counts>>

\* The blob is read once the model is there, behind the writes under way.
ResumeLoaded ==
    LET l == resume.load
    IN  /\ resume.phase = "loading"
        /\ \/ /\ load[l].phase = "ready" /\ writes = <<>>
              /\ resume' = [resume EXCEPT !.phase = "asked"]
              /\ requests' = [requests EXCEPT ![load[l].engine] =
                    Append(@, [kind |-> IF blob # None THEN "import" ELSE "create",
                               by |-> None, conv |-> None, handle |-> l])]
           \/ /\ load[l].phase = "failed"
              /\ resume' = NoResume
              /\ UNCHANGED requests
        /\ UNCHANGED <<page, load, send, clearing, up, convs, gen, slot, counts, cleared>>

\* An import that fails is followed by a creation; the messages are the card's.
Resumed(e) ==
    \/ /\ \/ Serving(e, "import", None) \/ Serving(e, "create", None)
       /\ HandleOf(e)
       /\ convs' = Created(e, resume.meta.messages, resume.meta.odd)
       /\ conv' = Len(convs) + 1
       /\ resume' = NoResume /\ requests' = Served(e) /\ cleared' = FALSE
       /\ UNCHANGED <<engine, loaded, sendDisabled, abortController, card, load, send, clearing,
                      up, gen, slot, counts>>
    \/ /\ Serving(e, "import", None)
       /\ requests' = [requests EXCEPT ![e] = Append(Tail(@), [Head(@) EXCEPT !.kind = "create"])]
       /\ UNCHANGED <<page, load, send, clearing, resume, up, convs, gen, slot, counts, cleared>>
    \/ /\ Serving(e, "create", None) /\ ~HandleOf(e)
       /\ resume' = NoResume /\ requests' = Served(e)
       /\ UNCHANGED <<page, load, send, clearing, up, convs, gen, slot, counts, cleared>>

-----------------------------------------------------------------------------
Engines == Loads \cup {None}

Next ==
    \/ \E l \in Loads : \/ ModelChange(l) \/ InitDone(l) \/ LoadDone(l)
                        \/ LoadFails(l) \/ Resume(l)
    \/ \E s \in Sends : \/ Send(s) \/ Chunk(s) \/ Stop(s) \/ TurnDone(s) \/ TurnStopped(s)
                        \/ TurnFails(s) \/ Saving(s) \/ Throw(s) \/ Release(s)
    \/ \E e \in Engines, s \in Sends : Create(e, s) \/ Start(e, s) \/ Export(e, s)
    \/ \E k \in Clears : Clear(k)
    \/ \E e \in Engines, k \in Clears : Dispose(e, k)
    \/ \E e \in Engines : Resumed(e)
    \/ Commit \/ Reload \/ Discard \/ ResumeLoaded

Spec == Init /\ [][Next]_vars

-----------------------------------------------------------------------------
TypeOK ==
    /\ engine \in Engines /\ loaded \in Engines /\ sendDisabled \in BOOLEAN
    /\ conv \in 1..Len(convs) \cup {None} /\ abortController \in Sends \cup {None}
    /\ up \subseteq Loads
    /\ \A s \in Sends : /\ send[s].phase \in {"idle", "creating", "turn", "exporting", "putting"}
                        /\ gen[s] \in {"none", "asked", "running", "saving", "refused"}

Answered(messages) ==
    /\ Len(messages) % 2 = 0
    /\ \A i \in DOMAIN messages : messages[i] = IF i % 2 = 1 THEN "user" ELSE "assistant"

\* Whatever is stopped, cleared, loaded, reloaded or restored in the middle of a turn,
\* the saved questions all have their answers, unless a turn of the
\* conversation failed or was mixed with another: an error keeps its question in
\* the history (chat-conversation.js:98).
SavedIsAnswered == meta # None /\ ~meta.odd => Answered(meta.messages)

Quiet == /\ \A s \in Sends : send[s].phase = "idle"
         /\ \A k \in Clears : ~clearing[k]
         /\ writes = <<>> /\ resume = NoResume

\* What is cleared stays cleared: a turn or a save that was under way does not
\* bring the metadata or the blob back, on the engine that is asked to dispose of the
\* conversation or on those that loads left behind.  Excepted is a clear that found an
\* engine left behind with an export to answer: its blob is put after the delete, and
\* is back (chat-page.js:276-285, chat-persistence.js:56-58).  So is a clear under
\* which the page got another conversation.
ClearedIsGone == Quiet /\ cleared => conv = None /\ meta = None /\ blob = None
=============================================================================
