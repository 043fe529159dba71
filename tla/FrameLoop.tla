------------------------------ MODULE FrameLoop ------------------------------
(***************************************************************************)
(* The scheduler of a frame-based application (core/scheduler.ts) and the  *)
(* game loop (core/game-loop.ts) whose callback runs its frames.  A frame  *)
(* takes tasks from the queue and awaits each of them; the loop does not   *)
(* wait for the frame, so that frames overlap, and tasks are queued,       *)
(* taken out, preempted or cleared at any await.  An aborted task goes on  *)
(* until it notices.                                                       *)
(*                                                                         *)
(* The tasks are the objects that are queued; several may bear one id.     *)
(* The queue is an array that a stable sort keeps in order of priority:    *)
(* the set of the tasks in it, and which of them came before which.        *)
(***************************************************************************)
EXTENDS Integers, FiniteSets, Functions

CONSTANTS
    Tasks,
    Id, Priority, ModelOf,  \* fields of the tasks; 0 is the highest priority
    maxConcurrent,
    Frames,                 \* calls of runFrame that may be under way (a bound)
    Timers,                 \* timers that may be pending (a bound)
    None

\* What the constants are.
FrameConstants ==
    /\ Priority \in [Tasks -> Nat]
    /\ maxConcurrent \in Nat \ {0}
    /\ None \notin Tasks \cup Timers

TaskIds == {Id[t] : t \in Tasks}

VARIABLES
    fresh,     \* tasks never queued
    queue,     \* tasks in the queue
    before,    \* pairs of tasks in the queue, in the order in which they were queued
    running,   \* Map from id to the task of its entry
    aborted,   \* tasks whose signal is aborted
    frame,     \* the task each frame awaits
    reused,    \* history: ids started while a task of the same id executed
    timers,    \* timers set and not cleared
    timerId,
    active,    \* _running: start sets the callback with it, stop clears both
    paused

vars == <<fresh, queue, before, running, aborted, frame, reused, timers, timerId, active, paused>>

scheduler == <<fresh, queue, before, running, aborted, frame, reused>>

loop == <<timers, timerId, active, paused>>

TypeOK ==
    /\ fresh \subseteq Tasks
    /\ queue \subseteq Tasks
    /\ before \subseteq queue \X queue
    /\ DOMAIN running \subseteq TaskIds
    /\ \A i \in DOMAIN running : running[i] \in Tasks
    /\ aborted \subseteq Tasks
    /\ frame \in [Frames -> Tasks \cup {None}]
    /\ reused \subseteq TaskIds
    /\ timers \subseteq Timers
    /\ timerId \in Timers \cup {None}
    /\ active \in BOOLEAN
    /\ paused \in BOOLEAN

Init ==
    /\ fresh = Tasks
    /\ queue = {}
    /\ before = {}
    /\ running = <<>>
    /\ aborted = {}
    /\ frame = [f \in Frames |-> None]
    /\ reused = {}
    /\ timers = {}
    /\ timerId = None
    /\ active = FALSE
    /\ paused \in BOOLEAN

-----------------------------------------------------------------------------
\* Scheduler

Executing == {frame[f] : f \in Frames} \ {None}

\* The task that comes first among some of those in the queue: the most urgent, and of
\* equally urgent ones the one queued first, as the stable sort leaves them.
FirstOf(tasks) ==
    {t \in tasks : \A u \in tasks \ {t} :
        Priority[t] < Priority[u] \/ (Priority[t] = Priority[u] /\ <<t, u>> \in before)}

\* What is left in the queue.
Left(tasks) == queue' = tasks /\ before' = before \cap (tasks \X tasks)

enqueue(t) ==
    /\ t \in fresh
    /\ fresh' = fresh \ {t}
    /\ queue' = queue \cup {t}
    /\ before' = before \cup {<<u, t>> : u \in {w \in queue : Priority[w] = Priority[t]}}
    /\ UNCHANGED <<running, aborted, frame, reused>> /\ UNCHANGED loop

Without(run, ids) == [i \in DOMAIN run \ ids |-> run[i]]

Queued(i) == {t \in queue : Id[t] = i}

\* dequeue of a queued task: the first of its id.
DequeueQueued(i) ==
    /\ \E t \in FirstOf(Queued(i)) : Left(queue \ {t})
    /\ UNCHANGED <<fresh, running, aborted, frame, reused>> /\ UNCHANGED loop

\* dequeue of a running one.
DequeueRunning(i) ==
    /\ Queued(i) = {}
    /\ i \in DOMAIN running
    /\ aborted' = aborted \cup {running[i]}
    /\ running' = Without(running, {i})
    /\ UNCHANGED <<fresh, queue, before, frame, reused>> /\ UNCHANGED loop

preemptModel(m) ==
    LET gone == {i \in DOMAIN running : ModelOf[running[i]] = m} IN
    /\ gone # {} \/ \E t \in queue : ModelOf[t] = m
    /\ aborted' = aborted \cup {running[i] : i \in gone}
    /\ running' = Without(running, gone)
    /\ Left({t \in queue : ModelOf[t] # m})
    /\ UNCHANGED <<fresh, frame, reused>> /\ UNCHANGED loop

clear ==
    /\ queue # {} \/ DOMAIN running # {}
    /\ aborted' = aborted \cup Range(running)
    /\ running' = <<>>
    /\ Left({})
    /\ UNCHANGED <<fresh, frame, reused>> /\ UNCHANGED loop

MayStart(run) == queue # {} /\ Cardinality(DOMAIN run) < maxConcurrent

\* The head of the loop in runFrame, with the entries run: the next task starts.
StartTask(f, run) ==
    /\ MayStart(run)
    /\ \E t \in FirstOf(queue) :
        /\ Left(queue \ {t})
        /\ running' = [i \in DOMAIN run \cup {Id[t]} |-> IF i = Id[t] THEN t ELSE run[i]]
        /\ frame' = [frame EXCEPT ![f] = t]
        /\ reused' = reused \cup
            (IF Id[t] \in {Id[u] : u \in Executing \ {frame[f]}} THEN {Id[t]} ELSE {})

\* The frame ends: nothing to start, no room, or the deadline has passed.
EndFrame(f, run) ==
    /\ running' = run
    /\ frame' = [frame EXCEPT ![f] = None]
    /\ UNCHANGED <<queue, before, reused>>

\* runFrame up to its first await; with a positive budget its first look at the clock
\* is in time.  A frame that starts nothing ends at once.
runFrame(f) ==
    /\ frame[f] = None
    /\ StartTask(f, running)
    /\ UNCHANGED <<fresh, aborted>>

\* A frame of the application's own, outside the loop.
RunFrame == \E f \in Frames : runFrame(f) /\ UNCHANGED loop

\* Mutant: only the entry of a task that was aborted is deleted.
EntryKept(f) == IF frame[f] \in aborted THEN Without(running, {Id[frame[f]]}) ELSE running

\* The entry is deleted by the id, whosever it is.
EntryGone(f) == Without(running, {Id[frame[f]]})

\* The awaited task resolves or rejects, and the frame goes on.
TaskSettles(f) ==
    /\ frame[f] # None
    /\ \/ StartTask(f, EntryGone(f))
       \/ EndFrame(f, EntryGone(f))
    /\ UNCHANGED <<fresh, aborted>> /\ UNCHANGED loop

-----------------------------------------------------------------------------
\* GameLoop

\* scheduleNext with the timers pending: timerId is overwritten, not cleared.
ScheduleNext(pending, running_, paused_) ==
    IF running_ /\ ~paused_
    THEN \E t \in Timers \ pending : timers' = pending \cup {t} /\ timerId' = t
    ELSE timers' = pending /\ timerId' = timerId

start ==
    /\ active' = TRUE
    /\ ScheduleNext(timers, TRUE, paused)
    /\ UNCHANGED paused /\ UNCHANGED scheduler

stop ==
    /\ active
    /\ active' = FALSE
    /\ timers' = timers \ {timerId}
    /\ timerId' = None
    /\ UNCHANGED paused /\ UNCHANGED scheduler

pause ==
    /\ ~paused
    /\ paused' = TRUE
    /\ UNCHANGED <<timers, timerId, active>> /\ UNCHANGED scheduler

\* Mutant: the pending chain is not started again.
ResumedOnly == UNCHANGED <<timers, timerId>>

Resumed == ScheduleNext(timers, active, FALSE)

resume ==
    /\ paused' = FALSE
    /\ Resumed
    /\ UNCHANGED active /\ UNCHANGED scheduler

\* tick: the callback runs a frame when it can, and does not wait for it.
tick(t) ==
    /\ t \in timers
    /\ IF active /\ ~paused
       THEN /\ ScheduleNext(timers \ {t}, TRUE, FALSE)
            /\ \/ \E f \in Frames : runFrame(f)
               \/ ~(MayStart(running) /\ None \in Range(frame)) /\ UNCHANGED scheduler
       ELSE /\ timers' = timers \ {t}
            /\ UNCHANGED timerId /\ UNCHANGED scheduler
    /\ UNCHANGED <<active, paused>>

Next ==
    \/ \E t \in Tasks : enqueue(t)
    \/ \E i \in TaskIds : DequeueQueued(i) \/ DequeueRunning(i)
    \/ \E m \in Range(ModelOf) : preemptModel(m)
    \/ clear \/ RunFrame
    \/ \E f \in Frames : TaskSettles(f)
    \/ start \/ stop \/ pause \/ resume
    \/ \E t \in Timers : tick(t)

\* Tasks settle, and timers fire.
Fairness ==
    /\ \A f \in Frames : WF_vars(TaskSettles(f))
    /\ \A t \in Timers : WF_vars(tick(t))

Spec == Init /\ [][Next]_vars /\ Fairness

-----------------------------------------------------------------------------
\* Properties

\* The entries are the tasks that execute and have not been aborted, so that no slot is
\* lost and every such task can be aborted, as long as no id is started again while a
\* task of that id, aborted or not, still executes.
RunningIsExecuting ==
    /\ \A i \in DOMAIN running : Id[running[i]] = i /\ running[i] \in Executing \ aborted
    /\ \A t \in Executing \ aborted : Id[t] \in reused \/ t \in Range(running)

\* A queued task starts, or is taken out, unless the loop is stopped or paused.
QueuedTaskStarts ==
    \A t \in Tasks : t \in queue ~> t \notin queue \/ ~active \/ paused
=============================================================================
