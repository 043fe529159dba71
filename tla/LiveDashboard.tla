----------------------------- MODULE LiveDashboard -----------------------------
(***************************************************************************)
(* The live benchmark dashboard: benchmark pages and drivers post the      *)
(* progress of runs, evals and sessions to a server, which stamps each     *)
(* event with a sequence number, keeps the finished ones in memory and in  *)
(* SQLite, and broadcasts it to the dashboards over server-sent events.  A *)
(* dashboard that reconnects gets a snapshot and the events since the last *)
(* one it saw, if the server still has them.  Posts are lost, connections  *)
(* break, writes to the database fail, and the server restarts.            *)
(*                                                                         *)
(* A record is its id; what it says, and system profiles, are left out.    *)
(***************************************************************************)
EXTENDS Naturals, Sequences, SequencesExt, FiniteSets

CONSTANTS
    Runs,            \* ids of speed runs
    Evals,           \* ids of accuracy runs
    Sessions,        \* ids of benchmark sessions
    Dashboards,      \* open dashboard tabs
    None,            \* no session
    SessionOf,       \* the session an eval is tagged with, or None
    ModelOf,         \* the model an eval is about
    MaxEventBuffer,  \* events kept for replay
    LoadLimit,       \* records loaded at startup from each table
    MaxTasks,        \* bound: tasks an eval reports
    MaxPosts,        \* bound: posts, lost ones included
    MaxCuts,         \* bound: connections that break
    MaxCrashes,      \* bound
    MaxFailures      \* bound: writes to the database that fail

Jobs == Runs \cup Evals

\* What the constants are.
LiveConstants ==
    /\ Runs \cap Evals = {} /\ Jobs \cap Sessions = {} /\ None \notin Sessions
    /\ SessionOf \in [Evals -> Sessions \cup {None}] /\ DOMAIN ModelOf = Evals
    /\ MaxEventBuffer \in Nat /\ LoadLimit \in Nat

VARIABLES
    up,        \* the server runs
    nextSeq,   \* LiveEventStore.nextSeq
    buffer,    \* eventBuffer
    memory,    \* completeByRunId and completeEvalsByEvalId
    disk,      \* the tables runs and evals, by timestamp
    stream,    \* per dashboard: its connection
    view,      \* per dashboard: its state
    phase,     \* per job and session: idle, running or ended, as its driver knows it
    inFlight,  \* history: started, and not ended, in the events stamped
    tasks,     \* history: per eval, the task events stamped
    kept,      \* history: completions acknowledged, and not reset since
    missed,    \* history: dashboards that were not told of a stamped event
    posts, cuts, crashes, failures  \* counted for the bounds

server == <<up, nextSeq, buffer, memory, disk>>
counts == <<posts, cuts, crashes, failures>>
vars   == <<server, stream, view, phase, inFlight, tasks, kept, missed, counts>>

\* lastId: the Last-Event-ID.
Unconnected == [open |-> FALSE, queue |-> <<>>, lastId |-> 0]

\* complete: runsByRunId and evalsByEvalId; running: runningByRunId and
\* runningEvalsByEvalId; done: completedTasks of the latter.
EmptyView == [complete |-> {}, running |-> {}, failed |-> {}, sessions |-> {},
              done |-> [e \in Evals |-> 0]]

Init ==
    /\ up = TRUE /\ nextSeq = 1 /\ buffer = <<>> /\ memory = {}
    /\ disk = [runs |-> <<>>, evals |-> <<>>]
    /\ stream = [d \in Dashboards |-> Unconnected]
    /\ view = [d \in Dashboards |-> EmptyView]
    /\ phase = [x \in Jobs \cup Sessions |-> "idle"]
    /\ inFlight = {} /\ tasks = [e \in Evals |-> 0] /\ kept = {} /\ missed = {}
    /\ posts = 0 /\ cuts = 0 /\ crashes = 0 /\ failures = 0

-----------------------------------------------------------------------------
(* The dashboard: what handling an event makes of its state.               *)

\* Mutant: a snapshot is added to what the dashboard lists.
SnapshotMerged(v, records) ==
    [v EXCEPT !.complete = @ \cup records, !.running = {}, !.failed = {}]

\* Mutant: a snapshot leaves what was running as it was.
SnapshotKeepsRunning(v, records) == [v EXCEPT !.complete = records, !.failed = {}]

\* A snapshot is authoritative, but says nothing of sessions.
SnapshotHandled(v, records) == [v EXCEPT !.complete = records, !.running = {}, !.failed = {}]

Started(v, x) == [v EXCEPT !.running = @ \cup {x}]

RunFailed(v, r) == [v EXCEPT !.running = @ \ {r}, !.failed = @ \cup {r}]

RunComplete(v, r) ==
    [v EXCEPT !.running = @ \ {r}, !.failed = @ \ {r}, !.complete = @ \cup {r}]

\* Earlier evals of the same model in the same session will never end: bench.ts
\* goes through the profiles of a session one at a time, and retries a wedged one.
Orphans(v, e) ==
    {o \in (v.running \cap Evals) \ {e} :
        SessionOf[e] # None /\ SessionOf[o] = SessionOf[e] /\ ModelOf[o] = ModelOf[e]}

EvalStarted(v, e) ==
    [v EXCEPT !.running = (@ \ Orphans(v, e)) \cup {e}, !.done[e] = 0]

EvalTaskComplete(v, e) == IF e \in v.running THEN [v EXCEPT !.done[e] = @ + 1] ELSE v

EvalFailed(v, e) == [v EXCEPT !.running = @ \ {e}]

EvalComplete(v, e) == [v EXCEPT !.running = @ \ {e}, !.complete = @ \cup {e}]

SessionStarted(v, s) == [v EXCEPT !.sessions = @ \cup {s}]

\* Evals of the session that were never reported to end go with it.
SessionComplete(v, s) ==
    [v EXCEPT !.sessions = @ \ {s}, !.running = {x \in @ : x \in Runs \/ SessionOf[x] # s}]

ResetHandled(v) == [EmptyView EXCEPT !.done = v.done]

handleEvent(v, event) ==
    LET x == event.id
    IN  CASE event.kind = "snapshot" -> SnapshotHandled(v, event.records)
          [] event.kind = "reset"    -> ResetHandled(v)
          [] event.kind = "task"     -> EvalTaskComplete(v, x)
          [] event.kind = "started"  -> IF x \in Sessions THEN SessionStarted(v, x)
                                        ELSE IF x \in Evals THEN EvalStarted(v, x)
                                        ELSE Started(v, x)
          [] event.kind = "failed"   -> IF x \in Evals THEN EvalFailed(v, x) ELSE RunFailed(v, x)
          [] event.kind = "complete" -> IF x \in Sessions THEN SessionComplete(v, x)
                                        ELSE IF x \in Evals THEN EvalComplete(v, x)
                                        ELSE RunComplete(v, x)

-----------------------------------------------------------------------------
(* The store of the server.                                                *)

Event(kind, x, records) == [seq |-> nextSeq, kind |-> kind, id |-> x, records |-> records]

\* stampEvent, up to what it does for single kinds.
Stamp(event) ==
    LET longer == Append(buffer, event)
    IN  /\ up
        /\ nextSeq' = nextSeq + 1
        /\ buffer' = IF Len(longer) > MaxEventBuffer THEN Tail(longer) ELSE longer
        /\ UNCHANGED up

\* INSERT ... ON CONFLICT DO UPDATE; the timestamp is the record's own.
Upserted(table, x) == IF x \in ToSet(table) THEN table ELSE Append(table, x)

\* Mutant: records are written when the server stops, not as they come.
upsertLater(x) == disk

upsert(x) == IF x \in Runs THEN [disk EXCEPT !.runs = Upserted(@, x)]
                           ELSE [disk EXCEPT !.evals = Upserted(@, x)]

\* SELECT ... ORDER BY timestamp ASC LIMIT
Loaded(table) == {table[i] : i \in {j \in DOMAIN table : j <= LoadLimit}}

\* eventsSince: the buffer is in the order of the numbers, so these are its last.
EventsSince(events, lastSeq) ==
    LET later == {i \in DOMAIN events : events[i].seq > lastSeq}
    IN  SubSeq(events, Len(events) - Cardinality(later) + 1, Len(events))

\* Broadcaster.broadcast
Broadcast(event) ==
    stream' = [d \in Dashboards |-> IF stream[d].open
                                    THEN [stream[d] EXCEPT !.queue = Append(@, event)]
                                    ELSE stream[d]]

\* A write fails after the event is in the buffer and in memory: the driver is
\* told so, and nothing is broadcast.
WriteFails ==
    /\ failures < MaxFailures
    /\ failures' = failures + 1
    /\ missed' = missed \cup {d \in Dashboards : stream[d].open}
    /\ UNCHANGED stream

Stored(x) ==
    /\ memory' = memory \cup {x}
    /\ \/ /\ disk' = upsert(x)
          /\ kept' = kept \cup {x}
          /\ Broadcast(Event("complete", x, {}))
          /\ UNCHANGED <<missed, failures>>
       \/ WriteFails /\ UNCHANGED <<disk, kept>>

-----------------------------------------------------------------------------
(* What is posted.  A post may be lost: the server is down, the page is    *)
(* left, the driver's timeout expires.  Nobody repeats it.                 *)

Posting == posts < MaxPosts /\ posts' = posts + 1

Lost == UNCHANGED <<server, stream, inFlight, tasks, kept, missed, failures>>

\* bench.ts runs the evals of a session between its two posts.
InSession(x) == x \in Evals /\ SessionOf[x] # None => phase[SessionOf[x]] = "running"

\* A page posts the start of an eval, then its tasks, then one end.
Reports(x) == phase[x] = "running"

PostStarted(x) ==
    /\ Posting
    /\ phase[x] = "idle" /\ InSession(x)
    /\ phase' = [phase EXCEPT ![x] = "running"]
    /\ \/ /\ Stamp(Event("started", x, {}))
          /\ Broadcast(Event("started", x, {}))
          /\ inFlight' = inFlight \cup {x}
          /\ UNCHANGED <<memory, disk, tasks, kept, missed, failures>>
       \/ Lost
    /\ UNCHANGED <<view, cuts, crashes>>

PostTask(e) ==
    /\ Posting
    /\ Reports(e) /\ tasks[e] < MaxTasks
    /\ Stamp(Event("task", e, {}))
    /\ Broadcast(Event("task", e, {}))
    /\ tasks' = [tasks EXCEPT ![e] = @ + 1]
    /\ UNCHANGED <<memory, disk, view, phase, inFlight, kept, missed, cuts, crashes, failures>>

PostFailed(x) ==
    /\ Posting
    /\ Reports(x)
    /\ phase' = [phase EXCEPT ![x] = "ended"]
    /\ \/ /\ Stamp(Event("failed", x, {}))
          /\ Broadcast(Event("failed", x, {}))
          /\ inFlight' = inFlight \ {x}
          /\ UNCHANGED <<memory, disk, tasks, kept, missed, failures>>
       \/ Lost
    /\ UNCHANGED <<view, cuts, crashes>>

\* import-reports.ts posts reports that the server did not list when it started,
\* so one that ended meanwhile, or whose post was lost, comes once more.
PostComplete(x) ==
    /\ Posting
    /\ phase[x] # "idle"
    /\ phase' = [phase EXCEPT ![x] = "ended"]
    /\ \/ /\ Stamp(Event("complete", x, {}))
          /\ Stored(x)
          /\ inFlight' = inFlight \ {x}
          /\ UNCHANGED tasks
       \/ Lost
    /\ UNCHANGED <<view, cuts, crashes>>

PostSessionComplete(s) ==
    /\ Posting
    /\ Reports(s)
    /\ phase' = [phase EXCEPT ![s] = "ended"]
    /\ \/ /\ Stamp(Event("complete", s, {}))
          /\ Broadcast(Event("complete", s, {}))
          /\ inFlight' = inFlight \ {s}
          /\ UNCHANGED <<memory, disk, tasks, kept, missed, failures>>
       \/ Lost
    /\ UNCHANGED <<view, cuts, crashes>>

PostReset ==
    /\ Posting
    /\ Stamp(Event("reset", None, {}))
    /\ memory' = {} /\ kept' = {}
    /\ \/ /\ disk' = [runs |-> <<>>, evals |-> <<>>]
          /\ Broadcast(Event("reset", None, {}))
          /\ UNCHANGED <<missed, failures>>
       \/ /\ WriteFails
          /\ \/ UNCHANGED disk
             \/ disk' = [disk EXCEPT !.runs = <<>>]  \* clearEvals fails after clearRuns
    /\ UNCHANGED <<view, phase, inFlight, tasks, cuts, crashes>>

-----------------------------------------------------------------------------
(* The connections.                                                        *)

\* Mutant: the replay comes without a snapshot.
ReplayOnly(snapshot, missing) == missing

Greeting(snapshot, missing) == <<snapshot>> \o missing

\* handleStream: subscribe, send a snapshot and replay what the dashboard missed.
\* The snapshot is an event of the store: it ends the replay too.
Connect(d) ==
    LET snapshot == Event("snapshot", None, memory)
        missing  == IF stream[d].lastId = 0 THEN <<>>
                    ELSE EventsSince(buffer', stream[d].lastId)
    IN  /\ ~stream[d].open
        /\ Stamp(snapshot)
        /\ stream' = [stream EXCEPT ![d] = [@ EXCEPT !.open = TRUE,
                                                     !.queue = Greeting(snapshot, missing)]]
        /\ missed' = missed \ {d}
        /\ UNCHANGED <<memory, disk, view, phase, inFlight, tasks, kept, counts>>

\* A frame carries the number that comes back as Last-Event-ID.
Received(s) == [s EXCEPT !.queue = Tail(@), !.lastId = Head(s.queue).seq]

Deliver(d) ==
    /\ stream[d].queue # <<>>
    /\ view' = [view EXCEPT ![d] = handleEvent(@, Head(stream[d].queue))]
    /\ stream' = [stream EXCEPT ![d] = Received(@)]
    /\ UNCHANGED <<server, phase, inFlight, tasks, kept, missed, counts>>

Broken(s) == [s EXCEPT !.open = FALSE, !.queue = <<>>]

Disconnect(d) ==
    /\ stream[d].open /\ cuts < MaxCuts /\ cuts' = cuts + 1
    /\ stream' = [stream EXCEPT ![d] = Broken(@)]
    /\ UNCHANGED <<server, view, phase, inFlight, tasks, kept, missed, posts, crashes, failures>>

Crash ==
    /\ up /\ crashes < MaxCrashes
    /\ up' = FALSE /\ crashes' = crashes + 1
    /\ nextSeq' = 1 /\ buffer' = <<>> /\ memory' = {}
    /\ stream' = [d \in Dashboards |-> Broken(stream[d])]
    /\ UNCHANGED <<disk, view, phase, inFlight, tasks, kept, missed, posts, cuts, failures>>

\* The constructor of LiveEventStore.
Restart ==
    /\ ~up /\ up' = TRUE
    /\ memory' = Loaded(disk.runs) \cup Loaded(disk.evals)
    /\ UNCHANGED <<nextSeq, buffer, disk, stream, view, phase, inFlight, tasks, kept,
                   missed, counts>>

-----------------------------------------------------------------------------
Next ==
    \/ \E x \in Jobs \cup Sessions : PostStarted(x)
    \/ \E x \in Jobs : PostFailed(x) \/ PostComplete(x)
    \/ \E e \in Evals : PostTask(e)
    \/ \E s \in Sessions : PostSessionComplete(s)
    \/ PostReset
    \/ \E d \in Dashboards : Connect(d) \/ Deliver(d) \/ Disconnect(d)
    \/ Crash \/ Restart

Spec == Init /\ [][Next]_vars

\* Events arrive while the connection lasts, EventSource reconnects by itself,
\* and the server is started again.
FairSpec == /\ Spec
            /\ WF_vars(Restart)
            /\ \A d \in Dashboards : WF_vars(Connect(d)) /\ WF_vars(Deliver(d))

-----------------------------------------------------------------------------
\* Connected, with nothing on the way, and not passed over by a failed write.
Settled(d) == up /\ stream[d].open /\ stream[d].queue = <<>> /\ d \notin missed

\* However often a dashboard was cut off, replayed to or restarted under, once
\* settled it lists exactly the finished runs and evals of the server.
Converged == \A d \in Dashboards : Settled(d) => view[d].complete = memory

\* A settled dashboard shows nothing as running whose end the server has seen:
\* ends that fell into a gap leave no entry behind.
RunningIsInFlight == \A d \in Dashboards : Settled(d) => view[d].running \subseteq inFlight

\* The progress a settled dashboard shows for an eval counts each of its task
\* events once, replays or not.
ProgressIsExact ==
    \A d \in Dashboards : Settled(d) =>
        \A e \in view[d].running \cap Evals : view[d].done[e] = tasks[e]

\* All of it together: gaps, replays behind a snapshot, restarts and failed writes
\* leave no settled dashboard with anything but what the server holds.
DashboardsAgree == Converged /\ RunningIsInFlight /\ ProgressIsExact

\* "completed runs are hydrated from the DB on startup (so a restart doesn't lose
\* history)" (live-events.ts:210-211): what was acknowledged is still listed.
HistoryKept == up => kept \subseteq memory

\* A finished run reaches every dashboard that is left open, unless a reset
\* takes it back or its write failed while the dashboard was listening.
CompletionsArrive ==
    \A x \in Jobs, d \in Dashboards :
        x \in memory ~> x \in view[d].complete \/ x \notin memory \/ d \in missed
=============================================================================
